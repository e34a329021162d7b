--------------------------- MODULE LogForce_proofs ---------------------------
(***************************************************************************)
(* Proofs about LogForce for any number of sessions, logwriters and        *)
(* buffers: pages are queued in order, written by one thread when nobody   *)
(* adds to them, waited for only as long as they are to be written; and    *)
(* records up to the last forced LSN are on disk.                          *)
(***************************************************************************)
EXTENDS LogForce, FiniteSetTheorems, NaturalsInduction, WellFoundedInduction, TLAPS

-------------------------------------------------------------------------------
(* The inductive invariant.                                                *)

BufferType ==
  [page : Nat, first : Nat, last : Nat, forced : Nat, writers : Nat,
   commits : Nat, current : BOOLEAN, force : BOOLEAN, needed : BOOLEAN,
   taken : BOOLEAN, owner : Sessions \cup {None}]

CallType ==
  [pc : Steps, kind : Kinds, active : BOOLEAN, first : Nat, last : Nat,
   n : Nat, head : Buffers \cup {None}, buf : Buffers \cup {None},
   target : Nat, wlsn : Nat, wait : BOOLEAN, lwq : Buffers \cup {None},
   cs : BOOLEAN, synch : BOOLEAN]

(* The variables have the shape that the handlers rely on, LSNs unbounded. *)
Shape ==
  /\ setup \in Setups
  /\ lbb \in [Buffers -> BufferType]
  /\ wq \in Seq(Buffers) /\ current \in Buffers /\ fq \subseteq Buffers
  /\ eof \in Nat /\ lastLsn \in Nat
  /\ sess \in [Sessions -> CallType]
  /\ lw \in [LogWriters -> LwType]
  /\ io \in [Threads -> IoType]

(* No LSN is higher than the last one given.                               *)
LsnsGiven ==
  /\ \A b \in Buffers : /\ lbb[b].first <= lastLsn /\ lbb[b].last <= lastLsn
                        /\ lbb[b].forced <= lastLsn
  /\ \A s \in Sessions : sess[s].last <= lastLsn

Ascending == \A i, j \in DOMAIN wq : i < j => lbb[wq[i]].page < lbb[wq[j]].page

(* Pages on the queue are not beyond the end of the log, nor is a page     *)
(* with a record on it, or one that sessions copy into.                    *)
WithinLog ==
  /\ \A b \in Members(wq) : lbb[b].page <= eof
  /\ \A b \in Buffers : lbb[b].current /\ (lbb[b].first # 0 \/ lbb[b].force)
                           => lbb[b].page <= eof
  /\ \A s \in Sessions : sess[s].pc \in {"release", "place", "copy"}
                           => sess[s].buf # None /\ lbb[sess[s].buf].page <= eof

(* The current page comes after all pages on the queue, unless it is the   *)
(* first page of a record that is being spanned.                           *)
CurrentLast ==
  lbb[current].current /\ ~OnQueue(current) =>
     eof <= lbb[current].page /\ \A b \in Members(wq) : lbb[b].page < lbb[current].page

(* A page that is on the queue and current is the first page of a record   *)
(* whose session keeps the page's mutex.                                   *)
SpansAlone ==
  /\ \A s \in Sessions : sess[s].pc \in {"span", "release"} =>
        /\ sess[s].head # None
        /\ OnQueue(sess[s].head) /\ lbb[sess[s].head].current
        /\ lbb[sess[s].head].owner = s
        /\ sess[s].pc = "span" => sess[s].head = current
  /\ \A s \in Sessions : sess[s].pc \in {"release", "place"} =>
        /\ sess[s].buf = current /\ ~OnQueue(current)
        /\ lbb[current].current /\ lbb[current].owner = s
  /\ \A b \in Buffers : lbb[b].current /\ OnQueue(b) =>
        \E s \in Sessions : /\ sess[s].pc \in {"span", "release"}
                            /\ sess[s].head = b /\ lbb[b].owner = s

(* Free buffers, and those about to be, are nowhere else.                  *)
FreeApart ==
  /\ \A b \in fq : ~OnQueue(b) /\ ~lbb[b].current
  /\ \A t \in Threads : \A b \in io[t].freed : ~OnQueue(b) /\ ~lbb[b].current /\ b \notin fq
  /\ \A t, u \in Threads : t # u => io[t].freed \cap io[u].freed = {}

(* A page waits to be written, or is written, when nobody adds to it; by   *)
(* one thread, which is awake.                                             *)
WritersApart ==
  /\ \A b \in Buffers : lbb[b].needed => lbb[b].writers = 0 /\ ~lbb[b].current
  /\ \A t \in Threads : \A b \in InHand(t) :
        OnQueue(b) /\ lbb[b].taken /\ lbb[b].writers = 0 /\ ~lbb[b].current
  /\ \A t, u \in Threads : t # u => InHand(t) \cap InHand(u) = {}
  /\ \A t \in Threads : \A i, j \in DOMAIN io[t].todo :
        i # j => io[t].todo[i] # io[t].todo[j]
  /\ \A t \in Threads : io[t].buf # None => io[t].todo = <<>>
  /\ \A w \in LogWriters : lw[w].pc # "run" => io[w] = NoIo

Copiers(b) == {s \in Sessions : sess[s].pc = "copy" /\ sess[s].buf = b}

(* lbb_writers counts the sessions that copy; they copy into the current   *)
(* page or one on the queue.                                               *)
CopiersCounted ==
  /\ \A b \in Buffers : lbb[b].writers = Cardinality(Copiers(b))
  /\ \A s \in Sessions : sess[s].pc = "copy" =>
        \/ OnQueue(sess[s].buf)
        \/ sess[s].buf = current /\ lbb[current].current

(* A session on the wait queue of a buffer is in the call that put it      *)
(* there, or back from it; the buffer is current or on the write queue.    *)
WaitersPlaced ==
  \A s \in Sessions : sess[s].lwq # None =>
     /\ sess[s].wait /\ sess[s].pc \in {"wake", "return", "idle"}
     /\ \/ OnQueue(sess[s].lwq)
        \/ sess[s].lwq = current /\ lbb[current].current

LogSound ==
  /\ Shape /\ LsnsGiven /\ Ascending /\ WithinLog /\ CurrentLast /\ SpansAlone
  /\ FreeApart /\ WritersApart /\ CopiersCounted /\ WaitersPlaced

-------------------------------------------------------------------------------
(* The write queue.                                                        *)

LEMMA EnqueueQueue ==
  ASSUME wq \in Seq(Buffers), NEW b \in Buffers
  PROVE  Enqueue(b) \in Seq(Buffers) /\ Members(Enqueue(b)) = Members(wq) \cup {b}
<1>1. CASE OnQueue(b)
  BY <1>1 DEF Enqueue, OnQueue, Members
<1>2. CASE ~OnQueue(b)
  <2>1. Enqueue(b) = Append(wq, b)
    BY <1>2 DEF Enqueue
  <2> QED
    BY <2>1 DEF Members
<1> QED
  BY <1>1, <1>2

(* What stays on the queue stays in order.                                 *)
LEMMA StaysAscending ==
  ASSUME Shape, Ascending, wq' = wq,
         \A x \in Members(wq) : lbb'[x].page = lbb[x].page
  PROVE  Ascending'
<1>1. \A i \in DOMAIN wq : wq[i] \in Members(wq)
  BY DEF Members
<1> QED
  BY <1>1 DEF Ascending

LEMMA EnqueueAscends ==
  ASSUME Shape, Ascending, NEW b \in Buffers, wq' = Enqueue(b),
         \A x \in Members(wq) : lbb'[x].page = lbb[x].page,
         ~OnQueue(b) => \A x \in Members(wq) : lbb[x].page < lbb'[b].page
  PROVE  Ascending'
<1>1. CASE OnQueue(b)
  <2>1. wq' = wq
    BY <1>1 DEF Enqueue
  <2> QED
    BY <2>1, StaysAscending
<1>2. CASE ~OnQueue(b)
  <2>1. wq' = Append(wq, b) /\ wq \in Seq(Buffers)
    BY <1>2 DEF Enqueue, Shape
  <2>2. SUFFICES ASSUME NEW i \in DOMAIN wq', NEW j \in DOMAIN wq', i < j
                 PROVE  lbb'[wq'[i]].page < lbb'[wq'[j]].page
    BY DEF Ascending
  <2>3. i \in DOMAIN wq /\ wq'[i] = wq[i] /\ wq[i] \in Members(wq)
    BY <2>1, <2>2 DEF Members
  <2>4. CASE j = Len(wq) + 1
    BY <2>1, <2>3, <2>4, <1>2
  <2>5. CASE j # Len(wq) + 1
    <3>1. j \in DOMAIN wq /\ wq'[j] = wq[j] /\ wq[j] \in Members(wq)
      BY <2>1, <2>2, <2>5 DEF Members
    <3> QED
      BY <3>1, <2>2, <2>3 DEF Ascending
  <2> QED
    BY <2>4, <2>5
<1> QED
  BY <1>1, <1>2

(* A buffer has one place on an ascending queue.                           *)
LEMMA OnePlace ==
  ASSUME Shape, Ascending, NEW i \in DOMAIN wq, NEW j \in DOMAIN wq, wq[i] = wq[j]
  PROVE  i = j
<1>1. wq \in Seq(Buffers)
  BY DEF Shape
<1>2. DOMAIN wq \subseteq Int /\ wq[i] \in Buffers
  BY <1>1
<1>3. lbb[wq[i]].page \in Nat
  BY <1>2 DEF Shape, BufferType
<1>4. ~(i < j) /\ ~(j < i)
  BY <1>3 DEF Ascending
<1> QED
  BY <1>2, <1>4

LEMMA PositionOf ==
  ASSUME NEW b, OnQueue(b)
  PROVE  Position(b) \in DOMAIN wq /\ wq[Position(b)] = b
<1>1. \E i \in DOMAIN wq : wq[i] = b
  BY DEF OnQueue, Members
<1> QED
  BY <1>1 DEF Position

LEMMA WithoutQueue ==
  ASSUME Shape, Ascending, NEW b \in Buffers, OnQueue(b)
  PROVE  Without(b) \in Seq(Buffers) /\ Members(Without(b)) = Members(wq) \ {b}
<1> DEFINE p == Position(b)
           q == Without(b)
<1>1. p \in 1..Len(wq) /\ wq[p] = b /\ Len(wq) \in Nat /\ wq \in Seq(Buffers)
  BY PositionOf DEF Shape
<1>2. \A i \in 1..Len(wq) : wq[i] \in Buffers
  BY <1>1
<1>3. q = [i \in 1..(Len(wq) - 1) |-> wq[IF i < p THEN i ELSE i + 1]]
  BY DEF Without
<1>4. Len(wq) - 1 \in Nat
  BY <1>1
<1> HIDE DEF p, q
<1>5. q \in Seq(Buffers) /\ Len(q) = Len(wq) - 1 /\ DOMAIN q = 1..(Len(wq) - 1)
  <2>1. q \in [1..(Len(wq) - 1) -> Buffers]
    BY <1>1, <1>2, <1>3
  <2> QED
    BY <2>1, <1>4
<1>6. ASSUME NEW x \in Members(q) PROVE x \in Members(wq) \ {b}
  <2>1. PICK i \in 1..(Len(wq) - 1) : x = wq[IF i < p THEN i ELSE i + 1]
    BY <1>3, <1>6, <1>5 DEF Members
  <2>2. PICK k \in 1..Len(wq) : x = wq[k] /\ k # p
    BY <2>1, <1>1
  <2> QED
    BY <2>2, <1>1, OnePlace DEF Members
<1>7. ASSUME NEW x \in Members(wq) \ {b} PROVE x \in Members(q)
  <2>1. PICK k \in 1..Len(wq) : x = wq[k]
    BY <1>1, <1>7 DEF Members
  <2>2. k # p
    BY <2>1, <1>1, <1>7
  <2>3. CASE k < p
    <3>1. k \in 1..(Len(wq) - 1) /\ q[k] = x
      BY <2>1, <2>3, <1>1, <1>3
    <3> QED
      BY <3>1, <1>5 DEF Members
  <2>4. CASE k > p
    <3>1. k - 1 \in 1..(Len(wq) - 1) /\ q[k - 1] = x
      BY <2>1, <2>4, <1>1, <1>3
    <3> QED
      BY <3>1, <1>5 DEF Members
  <2> QED
    BY <2>2, <2>3, <2>4, <1>1
<1> QED
  BY <1>5, <1>6, <1>7 DEF q

LEMMA WithoutAscends ==
  ASSUME Shape, Ascending, NEW b \in Buffers, OnQueue(b), wq' = Without(b),
         \A x \in Members(wq) \ {b} : lbb'[x].page = lbb[x].page
  PROVE  Ascending'
<1> DEFINE p == Position(b)
           At2(i) == IF i < p THEN i ELSE i + 1
<1>1. p \in 1..Len(wq) /\ wq[p] = b /\ Len(wq) \in Nat /\ wq \in Seq(Buffers)
  BY PositionOf DEF Shape
<1>2. wq' = [i \in 1..(Len(wq) - 1) |-> wq[At2(i)]]
  BY DEF Without
<1> HIDE DEF p
<1>3. SUFFICES ASSUME NEW i \in DOMAIN wq', NEW j \in DOMAIN wq', i < j
               PROVE  lbb'[wq'[i]].page < lbb'[wq'[j]].page
  BY DEF Ascending
<1>4. i \in 1..(Len(wq) - 1) /\ j \in 1..(Len(wq) - 1)
  BY <1>2
<1>5. At2(i) \in 1..Len(wq) /\ At2(j) \in 1..Len(wq) /\ At2(i) < At2(j)
      /\ At2(i) # p /\ At2(j) # p
  BY <1>1, <1>3, <1>4
<1>6. wq'[i] = wq[At2(i)] /\ wq'[j] = wq[At2(j)]
  BY <1>2, <1>4
<1> HIDE DEF At2
<1>7. wq[At2(i)] \in Members(wq) \ {b} /\ wq[At2(j)] \in Members(wq) \ {b}
  BY <1>1, <1>5, OnePlace DEF Members
<1>8. lbb[wq[At2(i)]].page < lbb[wq[At2(j)]].page
  BY <1>1, <1>5 DEF Ascending
<1> QED
  BY <1>6, <1>7, <1>8

-------------------------------------------------------------------------------
(* Handing buffers to threads.                                             *)

LEMMA PoolStarted == ASSUME Shape PROVE setup.pool \subseteq LogWriters
  BY SetupsAssumption DEF Shape

(* Thread u, which has nothing in hand, is given buffer b.                 *)
LEMMA HandOver ==
  ASSUME Shape, NEW u \in Threads, NEW b \in Buffers, io[u] = NoIo,
         io' = [io EXCEPT ![u].buf = b]
  PROVE  /\ io' \in [Threads -> IoType]
         /\ InHand(u)' = {b} /\ InHand(u) = {}
         /\ \A t \in Threads \ {u} : io'[t] = io[t] /\ InHand(t)' = InHand(t)
         /\ \A t \in Threads : io'[t].freed = io[t].freed /\ io'[t].todo = io[t].todo
<1>1. io \in [Threads -> IoType] /\ None \notin Buffers
  BY ThreadsAssumption DEF Shape
<1>2. /\ io'[u].buf = b /\ io'[u].todo = <<>> /\ io'[u].freed = {}
      /\ io'[u] \in IoType
  <2>1. io'[u] = [NoIo EXCEPT !.buf = b]
    BY <1>1
  <2>2. NoIo \in IoType /\ NoIo.todo = <<>> /\ NoIo.freed = {}
    <3>1. <<>> \in Seq(Buffers)
      OBVIOUS
    <3> QED
      BY <3>1 DEF NoIo, IoType
  <2>3. LET x == [NoIo EXCEPT !.buf = b]
        IN  x.buf = b /\ x.todo = NoIo.todo /\ x.freed = NoIo.freed /\ x \in IoType
    BY <2>2 DEF IoType
  <2> QED
    BY <2>1, <2>2, <2>3
<1>3. \A t \in Threads \ {u} : io'[t] = io[t]
  BY <1>1
<1>4. io' \in [Threads -> IoType]
  BY <1>1, <1>2 DEF IoType
<1>5. InHand(u)' = {b} /\ InHand(u) = {}
  BY <1>1, <1>2 DEF InHand, Members, NoIo
<1>6. \A t \in Threads \ {u} : InHand(t)' = InHand(t)
  BY <1>3 DEF InHand, Members
<1> QED
  BY <1>1, <1>2, <1>3, <1>4, <1>5, <1>6 DEF NoIo

(* Two states of a buffer with the same page and the same records.         *)
SamePage(x, y) ==
  /\ x.page = y.page /\ x.first = y.first /\ x.last = y.last
  /\ x.forced = y.forced /\ x.writers = y.writers /\ x.commits = y.commits

LEMMA TakenOff ==
  ASSUME NEW r \in BufferType
  PROVE  LET x == [r EXCEPT !.current = FALSE, !.force = FALSE, !.owner = None]
         IN  /\ x \in BufferType /\ SamePage(x, r)
             /\ ~x.current /\ ~x.force /\ x.owner = None /\ x.needed = r.needed
  BY DEF BufferType, SamePage

LEMMA MadeNeeded ==
  ASSUME NEW r \in BufferType
  PROVE  LET x == [r EXCEPT !.needed = TRUE]
         IN  /\ x \in BufferType /\ SamePage(x, r)
             /\ x.current = r.current /\ x.force = r.force /\ x.owner = r.owner
  BY DEF BufferType, SamePage

LEMMA MadeTaken ==
  ASSUME NEW r \in BufferType
  PROVE  LET x == [r EXCEPT !.taken = TRUE]
         IN  /\ x \in BufferType /\ SamePage(x, r) /\ x.taken /\ x.needed = r.needed
             /\ x.current = r.current /\ x.force = r.force /\ x.owner = r.owner
  BY DEF BufferType, SamePage

(* What QueueWrite does to buffer b, which it takes as it is in L.         *)
Queued(b, L) ==
  /\ wq' = Enqueue(b)
  /\ lbb' \in [Buffers -> BufferType]
  /\ \A x \in Buffers \ {b} : lbb'[x] = L[x]
  /\ SamePage(lbb'[b], L[b])
  /\ ~lbb'[b].current /\ ~lbb'[b].force /\ lbb'[b].owner = None
  /\ lbb'[b].needed => L[b].needed \/ L[b].writers = 0

(* Whom it gives the buffer to, if to anybody.                             *)
Given(b) ==
  \/ io' = io /\ lw' = lw
  \/ \E u \in Threads :
        /\ io[u] = NoIo /\ io' = [io EXCEPT ![u].buf = b]
        /\ lbb'[b].taken /\ lbb'[b].writers = 0
        /\ \A w \in LogWriters : lw'[w].pc = lw[w].pc \/ lw'[w].pc = "run"
        /\ u \in LogWriters => lw'[u].pc = "run"

LEMMA QueueWriteEffect ==
  ASSUME Shape, WritersApart, NEW t \in Threads \ LogWriters, NEW b \in Buffers,
         NEW L \in [Buffers -> BufferType], NEW waits,
         io[t] = NoIo, QueueWrite(t, b, L, waits)
  PROVE  Queued(b, L) /\ Given(b) /\ lw' \in [LogWriters -> LwType]
<1> DEFINE off    == [L EXCEPT ![b].current = FALSE, ![b].force = FALSE,
                               ![b].owner = None]
           needed == [off EXCEPT ![b].needed = TRUE]
           taken  == [needed EXCEPT ![b].taken = TRUE]
           Kept(M) == /\ M \in [Buffers -> BufferType] /\ SamePage(M[b], L[b])
                      /\ ~M[b].current /\ ~M[b].force /\ M[b].owner = None
                      /\ \A x \in Buffers \ {b} : M[x] = L[x]
<1>1. /\ lw \in [LogWriters -> LwType] /\ setup.pool \subseteq LogWriters
      /\ L[b] \in BufferType
  BY PoolStarted DEF Shape
<1>2. Kept(off) /\ off[b].needed = L[b].needed
  <2>1. /\ off[b] = [L[b] EXCEPT !.current = FALSE, !.force = FALSE, !.owner = None]
        /\ \A x \in Buffers \ {b} : off[x] = L[x]
    OBVIOUS
  <2>2. /\ off[b] \in BufferType /\ SamePage(off[b], L[b])
        /\ ~off[b].current /\ ~off[b].force /\ off[b].owner = None
        /\ off[b].needed = L[b].needed
    BY <1>1, <2>1, TakenOff
  <2> QED
    BY <2>1, <2>2
<1> HIDE DEF off
<1>3. Kept(needed)
  <2>1. /\ needed[b] = [off[b] EXCEPT !.needed = TRUE] /\ off[b] \in BufferType
        /\ \A x \in Buffers \ {b} : needed[x] = off[x]
    BY <1>2
  <2>2. /\ needed[b] \in BufferType /\ SamePage(needed[b], off[b])
        /\ ~needed[b].current /\ ~needed[b].force /\ needed[b].owner = None
    BY <1>2, <2>1, MadeNeeded
  <2> QED
    BY <1>2, <2>1, <2>2 DEF SamePage
<1> HIDE DEF needed
<1>4. Kept(taken) /\ taken[b].taken
  <2>1. /\ taken[b] = [needed[b] EXCEPT !.taken = TRUE] /\ needed[b] \in BufferType
        /\ \A x \in Buffers \ {b} : taken[x] = needed[x]
    BY <1>3
  <2>2. /\ taken[b] \in BufferType /\ SamePage(taken[b], needed[b]) /\ taken[b].taken
        /\ ~taken[b].current /\ ~taken[b].force /\ taken[b].owner = None
    BY <1>3, <2>1, MadeTaken
  <2> QED
    BY <1>3, <2>1, <2>2 DEF SamePage
<1> HIDE DEF taken
<1>5. wq' = Enqueue(b)
  BY DEF QueueWrite
<1>6. CASE ~Quiet(b, L) /\ lbb' = off /\ UNCHANGED <<lw, io>>
  BY <1>1, <1>2, <1>5, <1>6 DEF Queued, Given
<1>7. CASE /\ Quiet(b, L)
           /\ lbb' = taken /\ io' = [io EXCEPT ![t].buf = b] /\ lw' = lw
  BY <1>1, <1>4, <1>5, <1>7 DEF Queued, Given, Quiet, SamePage
<1>8. ASSUME NEW w \in Idle, Quiet(b, L), lbb' = taken,
             io' = [io EXCEPT ![w].buf = b], lw' = [lw EXCEPT ![w].pc = "run"]
      PROVE  Queued(b, L) /\ Given(b) /\ lw' \in [LogWriters -> LwType]
  <2>1. w \in LogWriters /\ lw[w].pc = "asleep" /\ w \in Threads
    BY <1>1 DEF Idle, Threads
  <2>2. io[w] = NoIo
    BY <2>1 DEF WritersApart
  <2>3. Queued(b, L) /\ lbb'[b].taken /\ lbb'[b].writers = 0
    BY <1>4, <1>5, <1>8 DEF Queued, Quiet, SamePage
  <2>4. /\ lw'[w].pc = "run" /\ lw' \in [LogWriters -> LwType]
        /\ \A x \in LogWriters : lw'[x].pc = lw[x].pc \/ lw'[x].pc = "run"
    BY <1>1, <1>8, <2>1 DEF LwType
  <2> QED
    BY <1>8, <2>1, <2>2, <2>3, <2>4 DEF Given
<1>9. CASE Quiet(b, L) /\ lbb' = needed /\ UNCHANGED <<lw, io>>
  BY <1>1, <1>3, <1>5, <1>9 DEF Queued, Given, Quiet
<1> QED
  BY <1>6, <1>7, <1>8, <1>9 DEF QueueWrite, off, needed, taken

(* The buffer is given to nobody who has it, nor to two.                   *)
LEMMA GivenApart ==
  ASSUME Shape, WritersApart, NEW b \in Buffers, Given(b),
         lbb' \in [Buffers -> BufferType],
         \A t \in Threads : b \notin InHand(t),
         OnQueue(b)', ~lbb'[b].current, lbb'[b].needed => lbb'[b].writers = 0,
         \A x \in Members(wq) : OnQueue(x)',
         \A x \in Buffers \ {b} :
            /\ lbb'[x].taken = lbb[x].taken /\ lbb'[x].needed = lbb[x].needed
            /\ lbb'[x].writers = lbb[x].writers /\ lbb'[x].current = lbb[x].current
  PROVE  /\ WritersApart' /\ io' \in [Threads -> IoType]
         /\ \A t \in Threads : io'[t].freed = io[t].freed /\ io'[t].todo = io[t].todo
<1>1. io \in [Threads -> IoType]
  BY DEF Shape
<1>2. \A t \in Threads : InHand(t) \subseteq Members(wq)
  BY DEF WritersApart, OnQueue
<1>3. \A x \in Buffers : lbb'[x].needed => lbb'[x].writers = 0 /\ ~lbb'[x].current
  BY DEF WritersApart
<1>4. CASE io' = io /\ lw' = lw
  <2>1. \A t \in Threads : InHand(t)' = InHand(t)
    BY <1>4 DEF InHand
  <2>2. \A t \in Threads : \A x \in InHand(t) : x \in Buffers \ {b}
    BY <1>1, <1>2 DEF Shape, Members
  <2>3. \A t \in Threads : \A x \in InHand(t)' :
           OnQueue(x)' /\ lbb'[x].taken /\ lbb'[x].writers = 0 /\ ~lbb'[x].current
    BY <1>2, <2>1, <2>2 DEF WritersApart
  <2> QED
    BY <1>1, <1>3, <1>4, <2>1, <2>3 DEF WritersApart
<1>5. ASSUME NEW u \in Threads, io[u] = NoIo, io' = [io EXCEPT ![u].buf = b],
             lbb'[b].taken, lbb'[b].writers = 0,
             \A w \in LogWriters : lw'[w].pc = lw[w].pc \/ lw'[w].pc = "run",
             u \in LogWriters => lw'[u].pc = "run"
      PROVE  /\ WritersApart' /\ io' \in [Threads -> IoType]
             /\ \A t \in Threads : io'[t].freed = io[t].freed /\ io'[t].todo = io[t].todo
  <2>1. /\ io' \in [Threads -> IoType] /\ InHand(u)' = {b} /\ InHand(u) = {}
        /\ \A t \in Threads \ {u} : io'[t] = io[t] /\ InHand(t)' = InHand(t)
        /\ \A t \in Threads : io'[t].freed = io[t].freed /\ io'[t].todo = io[t].todo
    BY <1>5, HandOver
  <2>2. \A t \in Threads : \A x \in InHand(t) : x \in Buffers \ {b}
    BY <1>1, <1>2 DEF Shape, Members
  <2>3. \A t \in Threads : \A x \in InHand(t)' :
           OnQueue(x)' /\ lbb'[x].taken /\ lbb'[x].writers = 0 /\ ~lbb'[x].current
    BY <1>2, <1>5, <2>1, <2>2 DEF WritersApart
  <2>4. \A t, v \in Threads : t # v => InHand(t)' \cap InHand(v)' = {}
    BY <2>1, <2>2 DEF WritersApart
  <2>5. \A w \in LogWriters : lw'[w].pc # "run" => io'[w] = NoIo
    BY <1>5, <2>1 DEF WritersApart, Threads
  <2>6. \A t \in Threads : \A i, j \in DOMAIN io'[t].todo :
           i # j => io'[t].todo[i] # io'[t].todo[j]
    BY <2>1 DEF WritersApart
  <2>7. \A t \in Threads : io'[t].buf # None => io'[t].todo = <<>>
    BY <1>5, <2>1 DEF WritersApart, NoIo
  <2> QED
    BY <1>3, <2>1, <2>3, <2>4, <2>5, <2>6, <2>7 DEF WritersApart
<1> QED
  BY <1>4, <1>5 DEF Given

-------------------------------------------------------------------------------
(* The LSNs a force asks for.                                              *)

Below == {p \in Nat \X Nat : p[1] < p[2]}

LEMMA BelowWellFounded == IsWellFoundedOn(Below, Nat)
  BY NatLessThanWellFounded DEF Below, OpToRel

LEMMA HighestIsMember ==
  ASSUME NEW n \in Nat, NEW A, A \subseteq 0..n, A # {}
  PROVE  Highest(A) \in A /\ \A y \in A : y <= Highest(A)
<1> DEFINE D == {n - x : x \in A}
<1>1. D \subseteq Nat /\ D # {}
  <2>1. \A x \in A : n - x \in Nat
    OBVIOUS
  <2> QED
    BY <2>1
<1>2. PICK d \in D : \A e \in D : ~(<<e, d>> \in Below)
  BY <1>1, BelowWellFounded, WFMin
<1>3. PICK x \in A : d = n - x
  BY <1>2
<1>4. ASSUME NEW y \in A PROVE y <= x
  <2>1. n - y \in D /\ n - y \in Nat /\ d \in Nat
    BY <1>1
  <2>2. ~(n - y < d)
    BY <1>2, <2>1 DEF Below
  <2> QED
    BY <2>2, <1>3
<1> QED
  BY <1>3, <1>4 DEF Highest

LEMMA EndOfLogGiven ==
  ASSUME Shape, LsnsGiven, NEW s \in Sessions
  PROVE  EndOfLog(s) \in 0..lastLsn
<1> DEFINE A == {lbb[b].forced : b \in Members(wq)}
<1>1. Members(wq) \subseteq Buffers
  BY DEF Shape, Members
<1>2. A \subseteq 0..lastLsn /\ lastLsn \in Nat
  BY <1>1 DEF Shape, LsnsGiven, BufferType
<1>3. Highest(A) \in 0..lastLsn
  <2>1. CASE A = {}
    BY <1>2, <2>1 DEF Highest
  <2>2. CASE A # {}
    BY <1>2, <2>2, HighestIsMember
  <2> QED
    BY <2>1, <2>2
<1>4. lbb[current].last \in 0..lastLsn /\ sess[s].last \in 0..lastLsn
  BY DEF Shape, LsnsGiven, BufferType, CallType
<1> QED
  BY <1>3, <1>4 DEF EndOfLog

LEMMA AimsGiven ==
  ASSUME Shape, LsnsGiven, NEW s \in Sessions, NEW aim \in Aims(s)
  PROVE  aim.target \in Nat /\ aim.wlsn \in Nat
<1>1. lastLsn \in Nat /\ sess[s].last \in Nat /\ sess[s].first \in Nat
  BY DEF Shape, CallType
<1>2. EndOfLog(s) \in Nat
  BY <1>1, EndOfLogGiven
<1> QED
  BY <1>1, <1>2 DEF Aims, Known

LEMMA TargetQueued ==
  ASSUME Shape, LsnsGiven, NEW lsn, Target(lsn) # None
  PROVE  Target(lsn) \in Buffers
<1> DEFINE in == {i \in DOMAIN wq : lbb[wq[i]].first <= lsn}
           top == {i \in in : \A j \in in : lbb[wq[j]].first <= lbb[wq[i]].first}
           A == {lbb[wq[i]].first : i \in in}
<1>1. wq \in Seq(Buffers) /\ Len(wq) \in Nat /\ DOMAIN wq = 1..Len(wq)
  BY DEF Shape
<1>2. Target(lsn) = wq[Highest(top)] /\ in # {}
  BY DEF Target
<1>3. \A i \in in : wq[i] \in Buffers
  BY <1>1
<1>4. A # {} /\ A \subseteq 0..lastLsn /\ lastLsn \in Nat
  <2>1. \A b \in Buffers : lbb[b].first \in 0..lastLsn
    BY DEF Shape, LsnsGiven, BufferType
  <2>2. A # {}
    BY <1>2
  <2> QED
    BY <1>3, <2>1, <2>2 DEF Shape
<1>5. Highest(A) \in A /\ \A y \in A : y <= Highest(A)
  BY <1>4, HighestIsMember
<1>6. PICK i \in in : lbb[wq[i]].first = Highest(A)
  BY <1>5
<1>7. i \in top
  BY <1>5, <1>6
<1>8. top \subseteq 0..Len(wq) /\ top # {}
  BY <1>1, <1>7
<1> HIDE DEF top
<1>9. Highest(top) \in top
  BY <1>1, <1>8, HighestIsMember
<1> QED
  BY <1>2, <1>3, <1>9 DEF top

-------------------------------------------------------------------------------
(* Steps that change the session only.                                     *)

Busy == {"span", "release", "place", "copy"}

(* Session s goes on, and no page or thread is touched.                    *)
OnlySession(s) ==
  /\ sess' \in [Sessions -> CallType]
  /\ \A t \in Sessions \ {s} : sess'[t] = sess[t]
  /\ setup' = setup /\ lbb' = lbb /\ wq' = wq /\ lw' = lw /\ io' = io
  /\ current' = current /\ fq' = fq /\ eof' = eof /\ lastLsn' = lastLsn
  /\ sess'[s].last <= lastLsn

(* The session waits for nothing, or for a buffer that is to be written.   *)
MayWait(s) ==
  sess'[s].lwq # None =>
     /\ sess'[s].wait /\ sess'[s].pc \in {"wake", "return", "idle"}
     /\ \/ OnQueue(sess'[s].lwq)
        \/ sess'[s].lwq = current /\ lbb[current].current

LEMMA SessionStep ==
  ASSUME LogSound, NEW s \in Sessions, OnlySession(s), MayWait(s),
         sess[s].pc \notin Busy, sess'[s].pc \notin Busy
  PROVE  LogSound'
<1>1. /\ \A t \in Sessions : sess'[t].pc \in Busy => sess'[t] = sess[t]
      /\ \A t \in Sessions : sess[t].pc \in Busy => sess'[t] = sess[t]
  BY DEF OnlySession
<1>2. Shape'
  BY DEF LogSound, Shape, OnlySession
<1>3. LsnsGiven'
  BY DEF LogSound, LsnsGiven, OnlySession
<1>4. Ascending'
  BY DEF LogSound, Ascending, OnlySession
<1>5. WithinLog'
  BY <1>1 DEF LogSound, WithinLog, OnlySession, Busy
<1>6. CurrentLast'
  BY DEF LogSound, CurrentLast, OnlySession, OnQueue
<1>7. SpansAlone'
  BY <1>1 DEF LogSound, SpansAlone, OnlySession, OnQueue, Busy
<1>8. FreeApart'
  BY DEF LogSound, FreeApart, OnlySession, OnQueue
<1>9. WritersApart'
  BY DEF LogSound, WritersApart, OnlySession, OnQueue, InHand
<1>10. CopiersCounted'
  <2>1. \A b \in Buffers : Copiers(b)' = Copiers(b)
    BY <1>1 DEF Copiers, Busy
  <2> QED
    BY <1>1, <2>1 DEF LogSound, CopiersCounted, OnlySession, OnQueue, Busy
<1>11. WaitersPlaced'
  BY DEF LogSound, WaitersPlaced, OnlySession, OnQueue, MayWait
<1> QED
  BY <1>2, <1>3, <1>4, <1>5, <1>6, <1>7, <1>8, <1>9, <1>10, <1>11 DEF LogSound

LEMMA StartWriteSound ==
  ASSUME LogSound, NEW s \in Sessions, StartWrite(s)
  PROVE  LogSound'
<1>1. sess \in [Sessions -> CallType] /\ sess[s] \in CallType
  BY DEF LogSound, Shape
<1>2. PICK k \in Kinds : sess' = [sess EXCEPT ![s].pc = "log", ![s].kind = k,
                                    ![s].active = TRUE, ![s].cs = FALSE]
  BY DEF StartWrite, Kinds
<1> DEFINE r == [sess[s] EXCEPT !.pc = "log", !.kind = k, !.active = TRUE, !.cs = FALSE]
<1>3. r \in CallType /\ r.pc = "log" /\ r.last = sess[s].last /\ r.lwq = sess[s].lwq
  BY <1>1 DEF CallType, Steps
<1>4. sess' = [sess EXCEPT ![s] = r]
  BY <1>1, <1>2
<1>5. sess[s].pc = "idle" /\ ~sess[s].wait
  BY DEF StartWrite, At
<1>6. sess[s].lwq = None
  BY <1>5 DEF LogSound, WaitersPlaced
<1> HIDE DEF r
<1>7. sess'[s] = r /\ \A t \in Sessions \ {s} : sess'[t] = sess[t]
  BY <1>1, <1>4
<1>8. OnlySession(s)
  BY <1>1, <1>3, <1>4, <1>7 DEF OnlySession, StartWrite, queues, free, log, LogSound, LsnsGiven
<1>9. MayWait(s)
  BY <1>3, <1>6, <1>7 DEF MayWait
<1> QED
  BY <1>3, <1>5, <1>7, <1>8, <1>9, SessionStep DEF Busy

LEMMA WakeGcmtSound ==
  ASSUME LogSound, NEW s \in Sessions, WakeGcmt(s)
  PROVE  LogSound'
<1> DEFINE r == [sess[s] EXCEPT !.pc = "return"]
<1>1. sess \in [Sessions -> CallType] /\ sess[s] \in CallType /\ sess[s].pc = "wake"
  BY DEF LogSound, Shape, WakeGcmt, At
<1>2. /\ r \in CallType /\ r.pc = "return" /\ r.last = sess[s].last
      /\ r.lwq = sess[s].lwq /\ r.wait = sess[s].wait
  BY <1>1 DEF CallType, Steps
<1>3. sess' = [sess EXCEPT ![s] = r]
  BY <1>1 DEF WakeGcmt
<1> HIDE DEF r
<1>4. sess'[s] = r /\ \A t \in Sessions \ {s} : sess'[t] = sess[t]
  BY <1>1, <1>3
<1>5. OnlySession(s)
  BY <1>1, <1>2, <1>3, <1>4 DEF OnlySession, WakeGcmt, queues, free, log, LogSound, LsnsGiven
<1>6. MayWait(s)
  BY <1>1, <1>2, <1>4 DEF MayWait, LogSound, WaitersPlaced
<1> QED
  BY <1>1, <1>2, <1>4, <1>5, <1>6, SessionStep DEF Busy

LEMMA ReturnSound ==
  ASSUME LogSound, NEW s \in Sessions, Return(s)
  PROVE  LogSound'
<1> DEFINE ends == sess[s].kind = "commit"
           a == sess[s].active /\ ~ends
           f == IF ends THEN 0 ELSE sess[s].first
           l == IF ends THEN 0 ELSE sess[s].last
           c == sess[s].cs /\ (sess[s].synch \/ sess[s].kind = "plain")
           r == [NewSess EXCEPT !.active = a, !.first = f, !.last = l,
                                !.wait = sess[s].wait, !.lwq = sess[s].lwq, !.cs = c]
<1>1. sess \in [Sessions -> CallType] /\ sess[s] \in CallType /\ sess[s].pc = "return"
  BY DEF LogSound, Shape, Return, At
<1>2. NewSess \in CallType /\ NewSess.pc = "idle"
  BY DEF NewSess, CallType, Steps, Kinds
<1>3. /\ a \in BOOLEAN /\ c \in BOOLEAN /\ f \in Nat /\ l \in Nat
      /\ sess[s].wait \in BOOLEAN /\ sess[s].lwq \in Buffers \cup {None}
  BY <1>1 DEF CallType
<1>4. /\ r \in CallType /\ r.pc = "idle" /\ r.last = l
      /\ r.lwq = sess[s].lwq /\ r.wait = sess[s].wait
  <2> HIDE DEF a, f, l, c
  <2> QED
    BY <1>2, <1>3 DEF CallType
<1>5. sess' = [sess EXCEPT ![s] = r]
  BY <1>1 DEF Return
<1> HIDE DEF r
<1>6. sess'[s] = r /\ \A t \in Sessions \ {s} : sess'[t] = sess[t]
  BY <1>1, <1>5
<1>7. r.last <= lastLsn
  BY <1>4 DEF LogSound, LsnsGiven, Shape
<1>8. OnlySession(s)
  BY <1>1, <1>4, <1>5, <1>6, <1>7 DEF OnlySession, Return, queues, free, log
<1>9. MayWait(s)
  BY <1>1, <1>4, <1>6 DEF MayWait, LogSound, WaitersPlaced
<1> QED
  BY <1>1, <1>4, <1>6, <1>8, <1>9, SessionStep DEF Busy

(* A session that has no call in hand is told to look at a queued buffer,  *)
(* or that there is nothing to wait for.                                   *)
LEMMA SeekOnCall ==
  ASSUME Shape, LsnsGiven, NEW r \in CallType
  PROVE  /\ SeekOn(r) \in CallType /\ SeekOn(r).pc \in {"return", "attach"}
         /\ SeekOn(r).last = r.last /\ SeekOn(r).lwq = r.lwq /\ SeekOn(r).wait = r.wait
<1>1. CASE Target(r.target) = None
  BY <1>1 DEF SeekOn, CallType, Steps
<1>2. CASE Target(r.target) # None
  <2>1. Target(r.target) \in Buffers
    BY <1>2, TargetQueued
  <2> QED
    BY <1>2, <2>1 DEF SeekOn, CallType, Steps
<1> QED
  BY <1>1, <1>2

LEMMA SuspendOnCall ==
  ASSUME NEW r \in CallType, NEW b \in Buffers, NEW lsn \in Nat
  PROVE  LET x == SuspendOn(r, b, lsn)
         IN  /\ x \in CallType /\ x.pc = r.pc /\ x.last = r.last
             /\ x.wait /\ x.lwq = b /\ x.buf = r.buf /\ x.head = r.head
  BY DEF SuspendOn, CallType

LEMMA AttachSound ==
  ASSUME LogSound, NEW s \in Sessions, Attach(s)
  PROVE  LogSound'
<1> DEFINE b == sess[s].buf
           yes == [SuspendOn(sess[s], b, sess[s].wlsn) EXCEPT !.pc = "return", !.buf = None]
<1>1. sess \in [Sessions -> CallType] /\ sess[s] \in CallType /\ sess[s].pc = "attach"
  BY DEF LogSound, Shape, Attach, At
<1>2. OnlySession(s) /\ MayWait(s) /\ sess'[s].pc \notin Busy
  <2>1. CASE StillThere(b, sess[s].target)
    <3>1. OnQueue(b) /\ b \in Buffers
      BY <2>1 DEF StillThere, OnQueue, Members, LogSound, Shape
    <3>2. /\ yes \in CallType /\ yes.pc = "return" /\ yes.last = sess[s].last
          /\ yes.lwq = b /\ yes.wait
      <4>1. sess[s].wlsn \in Nat
        BY <1>1 DEF CallType
      <4> QED
        BY <1>1, <3>1, <4>1 DEF SuspendOn, CallType, Steps
    <3>3. sess' = [sess EXCEPT ![s] = yes]
      BY <1>1, <2>1 DEF Attach
    <3> HIDE DEF yes
    <3>4. sess'[s] = yes /\ \A t \in Sessions \ {s} : sess'[t] = sess[t]
      BY <1>1, <3>3
    <3>5. OnlySession(s)
      BY <1>1, <3>2, <3>3, <3>4
      DEF OnlySession, Attach, queues, free, log, LogSound, LsnsGiven
    <3> QED
      BY <3>1, <3>2, <3>4, <3>5 DEF MayWait, Busy
  <2>2. CASE ~StillThere(b, sess[s].target)
    <3>1. sess' = [sess EXCEPT ![s] = SeekOn(sess[s])]
      BY <1>1, <2>2 DEF Attach
    <3>2. /\ SeekOn(sess[s]) \in CallType /\ SeekOn(sess[s]).pc \in {"return", "attach"}
          /\ SeekOn(sess[s]).last = sess[s].last /\ SeekOn(sess[s]).lwq = sess[s].lwq
      BY <1>1, SeekOnCall DEF LogSound
    <3>3. sess[s].lwq = None
      BY <1>1 DEF LogSound, WaitersPlaced
    <3>4. sess'[s] = SeekOn(sess[s]) /\ \A t \in Sessions \ {s} : sess'[t] = sess[t]
      BY <1>1, <3>1
    <3>5. OnlySession(s)
      BY <1>1, <3>1, <3>2, <3>4
      DEF OnlySession, Attach, queues, free, log, LogSound, LsnsGiven
    <3> QED
      BY <3>2, <3>3, <3>4, <3>5 DEF MayWait, Busy
  <2> QED
    BY <2>1, <2>2
<1> QED
  BY <1>1, <1>2, SessionStep DEF Busy

-------------------------------------------------------------------------------
(* Steps that no page sees.                                                *)

(* The sessions stay where they are in their calls.                        *)
SamePlaces ==
  /\ sess' \in [Sessions -> CallType]
  /\ \A s \in Sessions :
        /\ sess'[s].pc = sess[s].pc /\ sess'[s].buf = sess[s].buf
        /\ sess'[s].head = sess[s].head /\ sess'[s].last = sess[s].last
        /\ sess'[s].lwq = sess[s].lwq
        /\ sess'[s].lwq # None => sess'[s].wait

QuietStep ==
  /\ SamePlaces
  /\ lw' \in [LogWriters -> LwType]
  /\ \A w \in LogWriters : lw'[w].pc # "run" => lw[w].pc # "run"
  /\ setup' = setup /\ lbb' = lbb /\ wq' = wq /\ io' = io
  /\ current' = current /\ fq' = fq /\ eof' = eof /\ lastLsn' = lastLsn

LEMMA QuietStepSound ==
  ASSUME LogSound, QuietStep
  PROVE  LogSound'
<1>1. Shape'
  BY DEF LogSound, Shape, QuietStep, SamePlaces
<1>2. LsnsGiven'
  BY DEF LogSound, LsnsGiven, QuietStep, SamePlaces
<1>3. Ascending'
  BY DEF LogSound, Ascending, QuietStep
<1>4. WithinLog'
  BY DEF LogSound, WithinLog, QuietStep, SamePlaces
<1>5. CurrentLast'
  BY DEF LogSound, CurrentLast, QuietStep, OnQueue
<1>6. SpansAlone'
  BY DEF LogSound, SpansAlone, QuietStep, SamePlaces, OnQueue
<1>7. FreeApart'
  BY DEF LogSound, FreeApart, QuietStep, OnQueue
<1>8. WritersApart'
  BY DEF LogSound, WritersApart, QuietStep, OnQueue, InHand
<1>9. CopiersCounted'
  <2>1. \A b \in Buffers : Copiers(b)' = Copiers(b)
    BY DEF Copiers, QuietStep, SamePlaces
  <2> QED
    BY <2>1 DEF LogSound, CopiersCounted, QuietStep, SamePlaces, OnQueue
<1>10. WaitersPlaced'
  BY DEF LogSound, WaitersPlaced, QuietStep, SamePlaces, OnQueue
<1> QED
  BY <1>1, <1>2, <1>3, <1>4, <1>5, <1>6, <1>7, <1>8, <1>9, <1>10 DEF LogSound

LEMMA StandStill ==
  ASSUME LogSound, sess' = sess
  PROVE  SamePlaces
BY DEF LogSound, Shape, WaitersPlaced, SamePlaces

LEMMA StrayResumeSound ==
  ASSUME LogSound, NEW s \in Sessions, StrayResume(s)
  PROVE  LogSound'
<1> DEFINE r == [sess[s] EXCEPT !.cs = TRUE]
<1>1. sess \in [Sessions -> CallType] /\ sess[s] \in CallType
  BY DEF LogSound, Shape
<1>2. /\ r \in CallType /\ r.pc = sess[s].pc /\ r.last = sess[s].last
      /\ r.buf = sess[s].buf /\ r.head = sess[s].head
      /\ r.lwq = sess[s].lwq /\ r.wait = sess[s].wait
  BY <1>1 DEF CallType
<1>3. sess' = [sess EXCEPT ![s] = r]
  BY <1>1 DEF StrayResume
<1> HIDE DEF r
<1>4. SamePlaces
  BY <1>1, <1>2, <1>3 DEF LogSound, WaitersPlaced, SamePlaces
<1>5. QuietStep
  BY <1>4 DEF StrayResume, QuietStep, queues, free, log, LogSound, Shape
<1> QED
  BY <1>5, QuietStepSound

LEMMA ScanSound ==
  ASSUME LogSound, NEW w \in LogWriters, Scan(w)
  PROVE  LogSound'
<1> DEFINE open == {i \in DOMAIN wq : Unassigned(wq[i])}
           next == CHOOSE i \in open : \A j \in open : i <= j
<1>1. lw \in [LogWriters -> LwType] /\ lw[w].pc = "scan" /\ wq \in Seq(Buffers)
  BY DEF Scan, LogSound, Shape
<1>2. open # {} => wq[next] \in Buffers
  <2>1. SUFFICES ASSUME open # {} PROVE next \in open
    BY <1>1
  <2>2. PICK m \in open : \A j \in open : m <= j
    <3>1. open \subseteq Nat
      BY <1>1
    <3>2. PICK m \in open : \A j \in open : ~(<<j, m>> \in Below)
      BY <2>1, <3>1, BelowWellFounded, WFMin
    <3>3. ASSUME NEW j \in open PROVE m <= j
      <4>1. ~(j < m) /\ j \in Nat /\ m \in Nat
        BY <3>1, <3>2 DEF Below
      <4> QED
        BY <4>1
    <3> QED
      BY <3>3
  <2> QED
    BY <2>2
<1> HIDE DEF open, next
<1>3. /\ lw'[w] \in LwType /\ lw' \in [LogWriters -> LwType]
      /\ \A u \in LogWriters \ {w} : lw'[u] = lw[u]
  <2>1. CASE open = {}
    <3>1. lw' = [lw EXCEPT ![w] = [pc |-> "park", found |-> None]]
      BY <2>1 DEF Scan, open, next
    <3> QED
      BY <1>1, <3>1 DEF LwType
  <2>2. CASE open # {}
    <3>1. lw' = [lw EXCEPT ![w] = [pc |-> "recheck", found |-> wq[next]]]
      BY <2>2 DEF Scan, open, next
    <3> QED
      BY <1>1, <1>2, <2>2, <3>1 DEF LwType
  <2> QED
    BY <2>1, <2>2
<1>4. SamePlaces
  BY StandStill DEF Scan
<1>5. QuietStep
  BY <1>1, <1>3, <1>4 DEF Scan, QuietStep, free, log, LogSound, Shape
<1> QED
  BY <1>5, QuietStepSound

LEMMA ParkSound ==
  ASSUME LogSound, NEW w \in LogWriters, Park(w)
  PROVE  LogSound'
<1>1. lw \in [LogWriters -> LwType] /\ lw[w].pc = "park"
      /\ lw' = [lw EXCEPT ![w].pc = "asleep"]
  BY DEF Park, LogSound, Shape
<1>2. /\ lw' \in [LogWriters -> LwType]
      /\ \A u \in LogWriters : u # w => lw'[u] = lw[u]
  BY <1>1 DEF LwType
<1>3. SamePlaces
  BY StandStill DEF Park
<1>4. QuietStep
  BY <1>1, <1>2, <1>3 DEF Park, QuietStep, free, log, LogSound, Shape
<1> QED
  BY <1>4, QuietStepSound

LEMMA GcmtSleepSound ==
  ASSUME LogSound, GcmtSleep
  PROVE  LogSound'
<1>1. SamePlaces
  BY StandStill DEF GcmtSleep
<1>2. QuietStep
  BY <1>1 DEF GcmtSleep, QuietStep, queues, free, log, LogSound, Shape
<1> QED
  BY <1>2, QuietStepSound

LEMMA StutterSound ==
  ASSUME LogSound, UNCHANGED vars
  PROVE  LogSound'
<1>1. SamePlaces
  BY StandStill DEF vars
<1>2. QuietStep
  BY <1>1 DEF vars, QuietStep, LogSound, Shape
<1> QED
  BY <1>2, QuietStepSound

-------------------------------------------------------------------------------
(* Writing a buffer.                                                       *)

(* Threads take buffers, and nothing else of a page changes.               *)
TakeStep ==
  /\ SamePlaces
  /\ lbb' \in [Buffers -> BufferType]
  /\ \A b \in Buffers :
        /\ SamePage(lbb'[b], lbb[b]) /\ lbb'[b].current = lbb[b].current
        /\ lbb'[b].force = lbb[b].force /\ lbb'[b].owner = lbb[b].owner
  /\ io' \in [Threads -> IoType] /\ lw' \in [LogWriters -> LwType]
  /\ \A t \in Threads : io'[t].freed \subseteq io[t].freed
  /\ setup' = setup /\ wq' = wq
  /\ current' = current /\ fq' = fq /\ eof' = eof /\ lastLsn' = lastLsn

LEMMA TakeStepSound ==
  ASSUME LogSound, TakeStep, WritersApart'
  PROVE  LogSound'
<1>1. Shape'
  BY DEF LogSound, Shape, TakeStep, SamePlaces
<1>2. LsnsGiven'
  BY DEF LogSound, LsnsGiven, TakeStep, SamePlaces, SamePage
<1>3. Ascending'
  <2>1. \A x \in Members(wq) : lbb'[x].page = lbb[x].page
    BY DEF LogSound, Shape, Members, TakeStep, SamePage
  <2> QED
    BY <2>1, StaysAscending DEF LogSound, TakeStep
<1>4. WithinLog'
  <2>1. Members(wq) \subseteq Buffers
    BY DEF LogSound, Shape, Members
  <2>2. \A s \in Sessions : sess[s].buf \in Buffers \cup {None}
    BY DEF LogSound, Shape, CallType
  <2> QED
    BY <2>1, <2>2 DEF LogSound, WithinLog, TakeStep, SamePlaces, SamePage, Members
<1>5. CurrentLast'
  <2>1. Members(wq) \subseteq Buffers /\ current \in Buffers
    BY DEF LogSound, Shape, Members
  <2> QED
    BY <2>1 DEF LogSound, CurrentLast, TakeStep, OnQueue, SamePage, Members
<1>6. SpansAlone'
  <2>1. current \in Buffers /\ \A s \in Sessions : sess[s].head \in Buffers \cup {None}
    BY DEF LogSound, Shape, CallType
  <2> QED
    BY <2>1 DEF LogSound, SpansAlone, TakeStep, SamePlaces, OnQueue, SamePage
<1>7. FreeApart'
  <2>1. \A t \in Threads : io'[t].freed \subseteq Buffers
    BY DEF TakeStep, IoType
  <2> QED
    BY <2>1 DEF LogSound, Shape, FreeApart, TakeStep, OnQueue
<1>8. CopiersCounted'
  <2>1. \A b \in Buffers : Copiers(b)' = Copiers(b)
    BY DEF Copiers, TakeStep, SamePlaces
  <2>2. current \in Buffers
    BY DEF LogSound, Shape
  <2> QED
    BY <2>1, <2>2 DEF LogSound, CopiersCounted, TakeStep, SamePlaces, OnQueue, SamePage
<1>9. WaitersPlaced'
  <2>1. current \in Buffers
    BY DEF LogSound, Shape
  <2> QED
    BY <2>1 DEF LogSound, WaitersPlaced, TakeStep, SamePlaces, OnQueue, SamePage
<1> QED
  BY <1>1, <1>2, <1>3, <1>4, <1>5, <1>6, <1>7, <1>8, <1>9 DEF LogSound

(* An open buffer is given to logwriter w, which has nothing in hand.      *)
LEMMA OpenTaken ==
  ASSUME LogSound, NEW w \in LogWriters, NEW b \in Buffers, Unassigned(b),
         io[w] = NoIo, lbb' = [lbb EXCEPT ![b].taken = TRUE],
         io' = [io EXCEPT ![w].buf = b], lw' \in [LogWriters -> LwType],
         lw'[w].pc = "run", \A u \in LogWriters \ {w} : lw'[u] = lw[u],
         sess' = sess, wq' = wq, setup' = setup, current' = current,
         fq' = fq, eof' = eof, lastLsn' = lastLsn
  PROVE  LogSound'
<1>1. /\ lbb \in [Buffers -> BufferType] /\ lbb[b] \in BufferType
      /\ w \in Threads /\ OnQueue(b) /\ lbb[b].needed /\ ~lbb[b].taken
  BY DEF LogSound, Shape, Unassigned, Threads
<1> DEFINE r == [lbb[b] EXCEPT !.taken = TRUE]
<1>2. /\ r \in BufferType /\ SamePage(r, lbb[b]) /\ r.taken /\ r.needed = lbb[b].needed
      /\ r.current = lbb[b].current /\ r.force = lbb[b].force /\ r.owner = lbb[b].owner
  BY <1>1, MadeTaken
<1>3. lbb' = [lbb EXCEPT ![b] = r]
  BY <1>1
<1> HIDE DEF r
<1>4. lbb'[b] = r /\ lbb' \in [Buffers -> BufferType]
      /\ \A x \in Buffers \ {b} : lbb'[x] = lbb[x]
  BY <1>1, <1>2, <1>3
<1>5. lbb[b].writers = 0 /\ ~lbb[b].current /\ \A t \in Threads : b \notin InHand(t)
  BY <1>1 DEF LogSound, WritersApart
<1>6. Given(b)
  BY <1>1, <1>2, <1>4, <1>5 DEF Given, SamePage
<1>7. WritersApart' /\ io' \in [Threads -> IoType]
      /\ \A t \in Threads : io'[t].freed = io[t].freed
  <2>1. OnQueue(b)' /\ \A x \in Members(wq) : OnQueue(x)'
    BY <1>1 DEF OnQueue
  <2>2. ~lbb'[b].current /\ lbb'[b].writers = 0
    BY <1>2, <1>4, <1>5 DEF SamePage
  <2> QED
    BY <1>4, <1>5, <1>6, <2>1, <2>2, GivenApart DEF LogSound
<1>8. TakeStep
  BY <1>2, <1>4, <1>7, StandStill DEF TakeStep, SamePage
<1> QED
  BY <1>7, <1>8, TakeStepSound

LEMMA RecheckSound ==
  ASSUME LogSound, NEW w \in LogWriters, Recheck(w)
  PROVE  LogSound'
<1> DEFINE b == lw[w].found
<1>1. lw \in [LogWriters -> LwType] /\ lw[w].pc = "recheck"
  BY DEF Recheck, LogSound, Shape
<1>2. CASE Unassigned(b)
  <2>1. /\ lbb' = [lbb EXCEPT ![b].taken = TRUE]
        /\ io' = [io EXCEPT ![w].buf = b]
        /\ lw' = [lw EXCEPT ![w] = [pc |-> "run", found |-> None]]
    BY <1>2 DEF Recheck
  <2>2. b \in Buffers
    BY <1>2 DEF Unassigned, OnQueue, Members, LogSound, Shape
  <2>3. io[w] = NoIo
    BY <1>1 DEF LogSound, WritersApart
  <2>4. /\ lw' \in [LogWriters -> LwType] /\ lw'[w].pc = "run"
        /\ \A u \in LogWriters \ {w} : lw'[u] = lw[u]
    BY <1>1, <2>1 DEF LwType
  <2>5. UNCHANGED <<setup, wq, sess, current, fq, eof, lastLsn>>
    BY DEF Recheck, free, log
  <2> HIDE DEF b
  <2> QED
    BY <1>2, <2>1, <2>2, <2>3, <2>4, <2>5, OpenTaken
<1>3. CASE ~Unassigned(b)
  <2>1. /\ lw' = [lw EXCEPT ![w] = [pc |-> "park", found |-> None]]
        /\ UNCHANGED <<lbb, io>>
    BY <1>3 DEF Recheck
  <2>2. /\ lw' \in [LogWriters -> LwType]
        /\ \A u \in LogWriters \ {w} : lw'[u] = lw[u]
    BY <1>1, <2>1 DEF LwType
  <2>3. QuietStep
    BY <1>1, <2>1, <2>2, StandStill DEF Recheck, QuietStep, free, log
  <2> QED
    BY <2>3, QuietStepSound
<1> QED
  BY <1>2, <1>3

LEMMA CheckDeadSound ==
  ASSUME LogSound, CheckDead
  PROVE  LogSound'
<1>1. PICK w \in Idle : /\ lbb' = [lbb EXCEPT ![Head(wq)].taken = TRUE]
                        /\ io' = [io EXCEPT ![w].buf = Head(wq)]
                        /\ lw' = [lw EXCEPT ![w].pc = "run"]
  BY DEF CheckDead
<1>2. lw \in [LogWriters -> LwType] /\ w \in LogWriters /\ lw[w].pc = "asleep"
  BY PoolStarted DEF Idle, LogSound, Shape
<1>3. io[w] = NoIo
  BY <1>2 DEF LogSound, WritersApart
<1>4. Head(wq) \in Buffers /\ Unassigned(Head(wq))
  BY DEF CheckDead, LogSound, Shape
<1>5. /\ lw' \in [LogWriters -> LwType] /\ lw'[w].pc = "run"
      /\ \A u \in LogWriters \ {w} : lw'[u] = lw[u]
  BY <1>1, <1>2 DEF LwType
<1>6. UNCHANGED <<setup, wq, sess, current, fq, eof, lastLsn>>
  BY DEF CheckDead, free, log
<1> QED
  BY <1>1, <1>2, <1>3, <1>4, <1>5, <1>6, OpenTaken

(* A run of the queue, element by element.                                 *)
LEMMA RunOfQueue ==
  ASSUME Shape, NEW lo \in DOMAIN wq, NEW hi \in DOMAIN wq, lo <= hi
  PROVE  LET run == SubSeq(wq, lo, hi)
         IN  /\ run \in Seq(Buffers) /\ DOMAIN run = 1..(hi - lo + 1)
             /\ \A i \in DOMAIN run : lo + i - 1 \in lo..hi /\ run[i] = wq[lo + i - 1]
<1>1. wq \in Seq(Buffers) /\ lo \in 1..Len(wq) /\ hi \in 1..Len(wq) /\ Len(wq) \in Nat
  BY DEF Shape
<1> QED
  BY <1>1

LEMMA WriteBlockSound ==
  ASSUME LogSound, NEW t \in Threads, WriteBlock(t)
  PROVE  LogSound'
<1> DEFINE b == io[t].buf
<1>1. PICK lo \in DOMAIN wq : \E hi \in DOMAIN wq :
        /\ Superblock(b, lo, hi)
        /\ lbb' = [x \in Buffers |-> IF x \in Members(SubSeq(wq, lo, hi))
                                       THEN [lbb[x] EXCEPT !.taken = TRUE] ELSE lbb[x]]
        /\ io' = [io EXCEPT ![t] = [NoIo EXCEPT !.todo = SubSeq(wq, lo, hi)]]
  BY DEF WriteBlock
<1>2. PICK hi \in DOMAIN wq :
        /\ Superblock(b, lo, hi)
        /\ lbb' = [x \in Buffers |-> IF x \in Members(SubSeq(wq, lo, hi))
                                       THEN [lbb[x] EXCEPT !.taken = TRUE] ELSE lbb[x]]
        /\ io' = [io EXCEPT ![t] = [NoIo EXCEPT !.todo = SubSeq(wq, lo, hi)]]
  BY <1>1
<1> DEFINE run == SubSeq(wq, lo, hi)
<1>3. b # None /\ b \in InHand(t)
  BY DEF WriteBlock, InHand
<1>4. OnQueue(b) /\ Position(b) \in DOMAIN wq
  BY <1>3, PositionOf DEF LogSound, WritersApart
<1>5. wq \in Seq(Buffers) /\ Len(wq) \in Nat /\ lo <= hi
      /\ lo \in 1..Len(wq) /\ hi \in 1..Len(wq)
  BY <1>2, <1>4 DEF Superblock, LogSound, Shape
<1>6. /\ run \in Seq(Buffers) /\ DOMAIN run = 1..(hi - lo + 1)
      /\ \A i \in DOMAIN run : lo + i - 1 \in lo..hi /\ run[i] = wq[lo + i - 1]
  BY <1>5, RunOfQueue DEF LogSound
<1> HIDE DEF run
<1>7. \A x \in Members(run) : x \in Buffers /\ OnQueue(x) /\ (x = b \/ Unassigned(x))
  <2>1. SUFFICES ASSUME NEW i \in DOMAIN run
                 PROVE  /\ run[i] \in Buffers /\ OnQueue(run[i])
                        /\ run[i] = b \/ Unassigned(run[i])
    BY DEF Members
  <2>2. PICK k \in lo..hi : run[i] = wq[k]
    BY <1>6
  <2>3. k \in 1..Len(wq)
    BY <1>5
  <2>4. \A m \in lo..hi : wq[m] = b \/ Unassigned(wq[m])
    BY <1>2 DEF Superblock
  <2>5. OnQueue(wq[k]) /\ wq[k] \in Buffers
    BY <1>5, <2>3 DEF OnQueue, Members
  <2> QED
    BY <2>2, <2>4, <2>5
<1>8. \A i, j \in DOMAIN run : i # j => run[i] # run[j]
  <2>1. SUFFICES ASSUME NEW i \in DOMAIN run, NEW j \in DOMAIN run, run[i] = run[j]
                 PROVE  i = j
    OBVIOUS
  <2>2. /\ lo + i - 1 \in lo..hi /\ lo + j - 1 \in lo..hi
        /\ wq[lo + i - 1] = wq[lo + j - 1]
    BY <1>6, <2>1
  <2>3. lo..hi \subseteq DOMAIN wq
    BY <1>5
  <2>4. lo + i - 1 = lo + j - 1
    BY <2>2, <2>3, OnePlace DEF LogSound
  <2>5. lo \in Int /\ i \in Int /\ j \in Int
    BY <1>5, <1>6
  <2> QED
    BY <2>4, <2>5
<1>9. \A x \in Members(run) : lbb[x].writers = 0 /\ ~lbb[x].current
  BY <1>3, <1>7 DEF LogSound, WritersApart, Unassigned
<1>10. /\ io \in [Threads -> IoType] /\ io' \in [Threads -> IoType]
       /\ io'[t].buf = None /\ io'[t].todo = run /\ io'[t].freed = {}
       /\ \A u \in Threads \ {t} : io'[u] = io[u]
  <2>1. io \in [Threads -> IoType] /\ io' = [io EXCEPT ![t] = [NoIo EXCEPT !.todo = run]]
    BY <1>2 DEF LogSound, Shape, run
  <2>2. LET x == [NoIo EXCEPT !.todo = run]
        IN  x \in IoType /\ x.buf = None /\ x.todo = run /\ x.freed = {}
    BY <1>6 DEF NoIo, IoType
  <2> QED
    BY <2>1, <2>2
<1>11. /\ lbb \in [Buffers -> BufferType] /\ lbb' \in [Buffers -> BufferType]
       /\ \A x \in Buffers :
             /\ SamePage(lbb'[x], lbb[x]) /\ lbb'[x].current = lbb[x].current
             /\ lbb'[x].force = lbb[x].force /\ lbb'[x].owner = lbb[x].owner
             /\ lbb'[x].needed = lbb[x].needed
             /\ lbb[x].taken \/ x \in Members(run) => lbb'[x].taken
  <2>1. lbb \in [Buffers -> BufferType]
    BY DEF LogSound, Shape
  <2>2. lbb' = [x \in Buffers |-> IF x \in Members(run)
                                   THEN [lbb[x] EXCEPT !.taken = TRUE] ELSE lbb[x]]
    BY <1>2 DEF run
  <2>3. SUFFICES ASSUME NEW x \in Buffers
                 PROVE  /\ lbb'[x] \in BufferType
                        /\ SamePage(lbb'[x], lbb[x]) /\ lbb'[x].current = lbb[x].current
                        /\ lbb'[x].force = lbb[x].force /\ lbb'[x].owner = lbb[x].owner
                        /\ lbb'[x].needed = lbb[x].needed
                        /\ lbb[x].taken \/ x \in Members(run) => lbb'[x].taken
    BY <2>1, <2>2
  <2>4. CASE x \in Members(run)
    <3>1. lbb'[x] = [lbb[x] EXCEPT !.taken = TRUE] /\ lbb[x] \in BufferType
      BY <2>1, <2>2, <2>4
    <3> QED
      BY <3>1, MadeTaken
  <2>5. CASE x \notin Members(run)
    BY <2>1, <2>2, <2>5 DEF SamePage
  <2> QED
    BY <2>4, <2>5
<1>12. SamePlaces
  <2>1. sess \in [Sessions -> CallType]
    BY DEF LogSound, Shape
  <2>2. CASE t \in Sessions
    <3> DEFINE r == [sess[t] EXCEPT !.synch = TRUE]
    <3>1. /\ r \in CallType /\ r.pc = sess[t].pc /\ r.last = sess[t].last
          /\ r.buf = sess[t].buf /\ r.head = sess[t].head
          /\ r.lwq = sess[t].lwq /\ r.wait = sess[t].wait
      BY <2>1, <2>2 DEF CallType
    <3>2. sess' = [sess EXCEPT ![t] = r]
      BY <2>1, <2>2 DEF WriteBlock
    <3> HIDE DEF r
    <3> QED
      BY <2>1, <3>1, <3>2 DEF LogSound, WaitersPlaced, SamePlaces
  <2>3. CASE t \notin Sessions
    BY <2>3, StandStill DEF WriteBlock
  <2> QED
    BY <2>2, <2>3
<1>13. /\ setup' = setup /\ wq' = wq /\ lw' = lw /\ current' = current /\ fq' = fq
       /\ eof' = eof /\ lastLsn' = lastLsn
  BY DEF WriteBlock, free, log
<1>14. TakeStep
  BY <1>10, <1>11, <1>12, <1>13 DEF TakeStep, LogSound, Shape
<1>15. InHand(t)' = Members(run) /\ \A u \in Threads \ {t} : InHand(u)' = InHand(u)
  BY <1>10 DEF InHand, Members
<1>16. \A x \in Members(run) : \A u \in Threads \ {t} : x \notin InHand(u)
  BY <1>3, <1>7 DEF LogSound, WritersApart, Unassigned
<1>17. WritersApart'
  <2>1. \A x \in Buffers : lbb'[x].needed => lbb'[x].writers = 0 /\ ~lbb'[x].current
    BY <1>11 DEF LogSound, WritersApart, SamePage
  <2>2. \A u \in Threads : \A x \in InHand(u)' :
          OnQueue(x)' /\ lbb'[x].taken /\ lbb'[x].writers = 0 /\ ~lbb'[x].current
    <3>1. ASSUME NEW u \in Threads \ {t}, NEW x \in InHand(u)
          PROVE  OnQueue(x)' /\ lbb'[x].taken /\ lbb'[x].writers = 0 /\ ~lbb'[x].current
      <4>1. OnQueue(x) /\ lbb[x].taken /\ lbb[x].writers = 0 /\ ~lbb[x].current
        BY <3>1 DEF LogSound, WritersApart
      <4>2. x \in Buffers
        BY <1>5, <4>1 DEF OnQueue, Members
      <4> QED
        BY <1>11, <1>13, <4>1, <4>2 DEF OnQueue, SamePage
    <3>2. ASSUME NEW x \in Members(run)
          PROVE  OnQueue(x)' /\ lbb'[x].taken /\ lbb'[x].writers = 0 /\ ~lbb'[x].current
      BY <1>7, <1>9, <1>11, <1>13, <3>2 DEF OnQueue, SamePage
    <3> QED
      BY <1>15, <3>1, <3>2
  <2>3. \A u, v \in Threads : u # v => InHand(u)' \cap InHand(v)' = {}
    BY <1>15, <1>16 DEF LogSound, WritersApart
  <2>4. \A u \in Threads : \A i, j \in DOMAIN io'[u].todo :
          i # j => io'[u].todo[i] # io'[u].todo[j]
    BY <1>8, <1>10 DEF LogSound, WritersApart
  <2>5. \A u \in Threads : io'[u].buf # None => io'[u].todo = <<>>
    BY <1>10 DEF LogSound, WritersApart
  <2>6. \A w \in LogWriters : lw'[w].pc # "run" => io'[w] = NoIo
    <3>1. io[t] # NoIo
      BY <1>3 DEF NoIo
    <3> QED
      BY <1>10, <1>13, <3>1 DEF LogSound, WritersApart, Threads
  <2> QED
    BY <2>1, <2>2, <2>3, <2>4, <2>5, <2>6 DEF WritersApart
<1> QED
  BY <1>14, <1>17, TakeStepSound

LEMMA FreshPage ==
  ASSUME NEW p \in Nat
  PROVE  /\ Fresh(p) \in BufferType /\ Fresh(p).page = p
         /\ Fresh(p).first = 0 /\ Fresh(p).last = 0 /\ Fresh(p).forced = 0
         /\ Fresh(p).writers = 0 /\ ~Fresh(p).needed /\ ~Fresh(p).current
         /\ ~Fresh(p).taken /\ ~Fresh(p).force /\ Fresh(p).owner = None
  BY DEF Fresh, BufferType

(* The buffer before b on the queue.                                       *)
LEMMA BeforeQueued ==
  ASSUME Shape, Ascending, NEW b, OnQueue(b), Before(b) # None
  PROVE  Before(b) \in Buffers /\ OnQueue(Before(b)) /\ Before(b) # b
<1>1. wq \in Seq(Buffers) /\ Position(b) \in 1..Len(wq) /\ wq[Position(b)] = b
      /\ Len(wq) \in Nat
  BY PositionOf DEF Shape
<1>2. Position(b) # 1 /\ Before(b) = wq[Position(b) - 1]
  BY DEF Before
<1>3. Position(b) - 1 \in 1..Len(wq)
  BY <1>1, <1>2
<1>4. wq[Position(b) - 1] # b
  <2>1. SUFFICES ASSUME wq[Position(b) - 1] = wq[Position(b)] PROVE FALSE
    BY <1>1
  <2>2. Position(b) - 1 = Position(b)
    BY <1>1, <1>3, <2>1, OnePlace
  <2> QED
    BY <1>1, <2>2
<1> QED
  BY <1>1, <1>2, <1>3, <1>4 DEF OnQueue, Members

(* Sessions that wait on a written buffer wait on the one before, or no    *)
(* longer.                                                                 *)
LEMMA RelievedCalls ==
  ASSUME Shape, NEW t \in Threads, NEW b \in Buffers, NEW g \in Buffers \cup {None},
         NEW top, sess' = Relieved(t, b, g, top), WaitersPlaced
  PROVE  /\ sess' \in [Sessions -> CallType]
         /\ \A s \in Sessions :
               /\ sess'[s].pc = sess[s].pc /\ sess'[s].buf = sess[s].buf
               /\ sess'[s].head = sess[s].head /\ sess'[s].last = sess[s].last
               /\ \/ sess'[s].lwq = None
                  \/ sess'[s].wait /\ sess'[s].lwq = g /\ sess[s].lwq = b
                  \/ /\ sess'[s].wait /\ sess'[s].lwq = sess[s].lwq
                     /\ sess[s].lwq # b
<1> DEFINE moved == {s \in WaitersOn(b) : MovesOn(s, g, top)}
<1>1. sess \in [Sessions -> CallType]
  BY DEF Shape
<1>2. sess' = [s \in Sessions |->
        CASE s \in moved -> [sess[s] EXCEPT !.lwq = g, !.synch = @ /\ s # t]
          [] s \in WaitersOn(b) \ moved ->
               [sess[s] EXCEPT !.wait = FALSE, !.lwq = None,
                               !.cs = @ \/ s # t, !.synch = @ \/ s = t]
          [] s \notin WaitersOn(b) ->
               [sess[s] EXCEPT !.synch = @ /\ ~(s = t /\ WaitersOn(b) # {}
                                                /\ sess[s].wait)]]
  BY DEF Relieved
<1>3. moved \subseteq WaitersOn(b)
  OBVIOUS
<1> HIDE DEF moved
<1>4. SUFFICES ASSUME NEW s \in Sessions
               PROVE  /\ sess'[s] \in CallType
                      /\ sess'[s].pc = sess[s].pc /\ sess'[s].buf = sess[s].buf
                      /\ sess'[s].head = sess[s].head /\ sess'[s].last = sess[s].last
                      /\ \/ sess'[s].lwq = None
                         \/ sess'[s].wait /\ sess'[s].lwq = g /\ sess[s].lwq = b
                         \/ /\ sess'[s].wait /\ sess'[s].lwq = sess[s].lwq
                            /\ sess[s].lwq # b
  BY <1>2
<1>5. sess[s] \in CallType
  BY <1>1
<1>6. CASE s \in moved
  <2> DEFINE y == sess[s].synch /\ s # t
  <2>1. y \in BOOLEAN
    BY <1>5 DEF CallType
  <2>2. sess'[s] = [sess[s] EXCEPT !.lwq = g, !.synch = y]
    BY <1>2, <1>3, <1>6
  <2>3. sess[s].wait /\ sess[s].lwq = b
    BY <1>3, <1>6 DEF WaitersOn
  <2> HIDE DEF y
  <2> QED
    BY <1>5, <2>1, <2>2, <2>3 DEF CallType
<1>7. CASE s \in WaitersOn(b) \ moved
  <2> DEFINE c == sess[s].cs \/ s # t
             y == sess[s].synch \/ s = t
  <2>1. c \in BOOLEAN /\ y \in BOOLEAN
    BY <1>5 DEF CallType
  <2>2. sess'[s] = [sess[s] EXCEPT !.wait = FALSE, !.lwq = None, !.cs = c, !.synch = y]
    BY <1>2, <1>7
  <2> HIDE DEF c, y
  <2> QED
    BY <1>5, <2>1, <2>2 DEF CallType
<1>8. CASE s \notin WaitersOn(b)
  <2> DEFINE y == sess[s].synch /\ ~(s = t /\ WaitersOn(b) # {} /\ sess[s].wait)
  <2>1. y \in BOOLEAN
    BY <1>5 DEF CallType
  <2>2. sess'[s] = [sess[s] EXCEPT !.synch = y]
    BY <1>2, <1>3, <1>8
  <2>3. sess[s].lwq # None => sess[s].wait /\ sess[s].lwq # b
    BY <1>8 DEF WaitersOn, WaitersPlaced
  <2> HIDE DEF y
  <2> QED
    BY <1>5, <2>1, <2>2, <2>3 DEF CallType
<1> QED
  BY <1>6, <1>7, <1>8

(* Buffer b has left the queue: what that does to the pages.               *)
Completed(t, b) ==
  /\ b \in Buffers /\ OnQueue(b) /\ ~lbb[b].current /\ b \in Members(io[t].todo)
  /\ Members(wq') = Members(wq) \ {b} /\ current' = current
  /\ \A x \in Buffers \ {b} :
        /\ lbb'[x].page = lbb[x].page /\ lbb'[x].current = lbb[x].current
        /\ lbb'[x].forced = IF x = Before(b) THEN Higher(lbb[b].forced, lbb[x].forced)
                                             ELSE lbb[x].forced
  /\ ~lbb'[b].current
  /\ Members(io'[t].todo) = Members(io[t].todo) \ {b}
  /\ \A u \in Threads \ {t} : io'[u] = io[u]
  /\ \A s \in Sessions : sess'[s].pc = sess[s].pc /\ sess'[s].last = sess[s].last

LEMMA CompleteSound ==
  ASSUME LogSound, NEW t \in Threads, Complete(t)
  PROVE  LogSound' /\ Completed(t, Head(io[t].todo))
<1> DEFINE b == Head(io[t].todo)
           g == Before(b)
           top == IF g = None THEN lbb[b].forced ELSE Higher(lbb[b].forced, lbb[g].forced)
<1>1. /\ io \in [Threads -> IoType] /\ io[t].todo \in Seq(Buffers) /\ io[t].todo # <<>>
      /\ lbb \in [Buffers -> BufferType] /\ None \notin Buffers
  BY ThreadsAssumption DEF Complete, LogSound, Shape, IoType
<1>2. b \in InHand(t) /\ b \in Buffers /\ b \in Members(io[t].todo)
  <2>1. 1 \in DOMAIN io[t].todo /\ b = io[t].todo[1]
    BY <1>1
  <2> QED
    BY <1>1, <2>1 DEF InHand, Members
<1>3. OnQueue(b) /\ lbb[b].taken /\ lbb[b].writers = 0 /\ ~lbb[b].current
  BY <1>2 DEF LogSound, WritersApart
<1>4. g \in Buffers \cup {None} /\ (g # None => OnQueue(g) /\ g # b)
  BY <1>3, BeforeQueued DEF LogSound
<1>5. top \in Nat /\ top <= lastLsn
  <2>1. \A x \in Buffers : lbb[x].forced \in Nat /\ lbb[x].forced <= lastLsn
    BY <1>1 DEF LogSound, LsnsGiven, BufferType
  <2>2. CASE g = None
    BY <1>2, <2>1, <2>2
  <2>3. CASE g # None
    BY <1>2, <1>4, <2>1, <2>3 DEF Higher
  <2> QED
    BY <2>2, <2>3
<1>6. /\ wq' = Without(b)
      /\ lbb' = [x \in Buffers |-> CASE x = b -> Fresh(0)
                                     [] x = g -> [lbb[g] EXCEPT !.forced = top]
                                     [] OTHER -> lbb[x]]
      /\ sess' = Relieved(t, b, g, top)
      /\ io' = [io EXCEPT ![t].todo = Tail(@), ![t].freed = @ \cup {b}]
      /\ setup' = setup /\ lw' = lw /\ current' = current /\ fq' = fq
      /\ eof' = eof /\ lastLsn' = lastLsn
  BY DEF Complete, free, log
<1> HIDE DEF top, g
<1>7. lbb' = [x \in Buffers |-> lbb'[x]]
  BY <1>6
<1>8. wq' \in Seq(Buffers) /\ Members(wq') = Members(wq) \ {b}
  BY <1>2, <1>3, <1>6, WithoutQueue DEF LogSound
<1>9. /\ lbb'[b] = Fresh(0)
      /\ \A x \in Buffers \ {b} :
           /\ lbb'[x] \in BufferType
           /\ lbb'[x].page = lbb[x].page /\ lbb'[x].first = lbb[x].first
           /\ lbb'[x].last = lbb[x].last /\ lbb'[x].forced <= lastLsn
           /\ lbb'[x].writers = lbb[x].writers /\ lbb'[x].current = lbb[x].current
           /\ lbb'[x].force = lbb[x].force /\ lbb'[x].needed = lbb[x].needed
           /\ lbb'[x].taken = lbb[x].taken /\ lbb'[x].owner = lbb[x].owner
  <2>1. lbb'[b] = Fresh(0)
    BY <1>1, <1>2, <1>4, <1>6
  <2>2. ASSUME NEW x \in Buffers \ {b}, x = g
        PROVE  lbb'[x] = [lbb[x] EXCEPT !.forced = top]
    BY <1>6, <2>2
  <2>3. ASSUME NEW x \in Buffers \ {b}, x # g PROVE lbb'[x] = lbb[x]
    BY <1>6, <2>3
  <2>4. \A x \in Buffers : lbb[x] \in BufferType /\ lbb[x].forced <= lastLsn
    BY <1>1 DEF LogSound, LsnsGiven
  <2>5. ASSUME NEW r \in BufferType
        PROVE  LET x == [r EXCEPT !.forced = top]
               IN  /\ x \in BufferType /\ x.page = r.page /\ x.first = r.first
                   /\ x.last = r.last /\ x.forced = top /\ x.writers = r.writers
                   /\ x.current = r.current /\ x.force = r.force /\ x.needed = r.needed
                   /\ x.taken = r.taken /\ x.owner = r.owner
    BY <1>5 DEF BufferType
  <2>6. ASSUME NEW x \in Buffers \ {b}
        PROVE  /\ lbb'[x] \in BufferType
               /\ lbb'[x].page = lbb[x].page /\ lbb'[x].first = lbb[x].first
               /\ lbb'[x].last = lbb[x].last /\ lbb'[x].forced <= lastLsn
               /\ lbb'[x].writers = lbb[x].writers /\ lbb'[x].current = lbb[x].current
               /\ lbb'[x].force = lbb[x].force /\ lbb'[x].needed = lbb[x].needed
               /\ lbb'[x].taken = lbb[x].taken /\ lbb'[x].owner = lbb[x].owner
    <3>1. CASE x = g
      <4>1. lbb'[x] = [lbb[x] EXCEPT !.forced = top] /\ lbb[x] \in BufferType
        BY <2>2, <2>4, <3>1
      <4> QED
        BY <1>5, <4>1 DEF BufferType
    <3>2. CASE x # g
      BY <2>3, <2>4, <3>2
    <3> QED
      BY <3>1, <3>2
  <2> QED
    BY <2>1, <2>6
<1>10. /\ io' \in [Threads -> IoType]
       /\ \A u \in Threads \ {t} : io'[u] = io[u]
       /\ io'[t].buf = io[t].buf /\ io'[t].todo = Tail(io[t].todo)
       /\ io'[t].freed = io[t].freed \cup {b}
  <2> DEFINE q == Tail(io[t].todo)
             r == [io[t] EXCEPT !.todo = q, !.freed = @ \cup {b}]
  <2>1. q \in Seq(Buffers)
    BY <1>1
  <2>2. io' = [io EXCEPT ![t] = r]
    BY <1>1, <1>6
  <2>3. io[t] \in IoType
    BY <1>1
  <2> HIDE DEF q
  <2>4. r \in IoType /\ r.buf = io[t].buf /\ r.todo = q /\ r.freed = io[t].freed \cup {b}
    BY <1>2, <2>1, <2>3 DEF IoType
  <2> HIDE DEF r
  <2> QED
    BY <1>1, <2>2, <2>4 DEF q
<1>11. /\ sess' \in [Sessions -> CallType]
       /\ \A s \in Sessions :
             /\ sess'[s].pc = sess[s].pc /\ sess'[s].buf = sess[s].buf
             /\ sess'[s].head = sess[s].head /\ sess'[s].last = sess[s].last
             /\ \/ sess'[s].lwq = None
                \/ sess'[s].wait /\ sess'[s].lwq = g /\ sess[s].lwq = b
                \/ sess'[s].wait /\ sess'[s].lwq = sess[s].lwq /\ sess[s].lwq # b
  BY <1>2, <1>4, <1>6, RelievedCalls DEF LogSound
<1> HIDE DEF b
<1>12. \A x : x \in Members(wq') <=> OnQueue(x) /\ x # b
  BY <1>8 DEF OnQueue
<1>13. Members(wq) \subseteq Buffers
  BY DEF LogSound, Shape, Members
<1>14. 0 \in Nat
  OBVIOUS
<1>15. /\ lbb'[b] \in BufferType /\ lbb'[b].page = 0
       /\ lbb'[b].first = 0 /\ lbb'[b].last = 0 /\ lbb'[b].forced = 0
       /\ lbb'[b].writers = 0 /\ ~lbb'[b].needed /\ ~lbb'[b].current
  BY <1>9, <1>14, FreshPage
<1>16. Shape'
  <2>1. lbb' \in [Buffers -> BufferType]
    BY <1>7, <1>9, <1>15
  <2> QED
    BY <1>6, <1>8, <1>10, <1>11, <2>1 DEF LogSound, Shape
<1>17. LsnsGiven'
  <2>1. lastLsn \in Nat /\ lastLsn' = lastLsn
    BY <1>6 DEF LogSound, Shape
  <2>2. \A x \in Buffers : /\ lbb'[x].first <= lastLsn /\ lbb'[x].last <= lastLsn
                           /\ lbb'[x].forced <= lastLsn
    BY <1>9, <1>15, <2>1 DEF LogSound, LsnsGiven
  <2> QED
    BY <1>11, <2>1, <2>2 DEF LogSound, LsnsGiven
<1>18. Ascending'
  BY <1>2, <1>3, <1>6, <1>9, <1>13, WithoutAscends DEF LogSound
<1>19. WithinLog'
  <2>1. \A x \in Members(wq') : lbb'[x].page <= eof'
    BY <1>6, <1>8, <1>9, <1>13 DEF LogSound, WithinLog
  <2>2. \A x \in Buffers : lbb'[x].current /\ (lbb'[x].first # 0 \/ lbb'[x].force)
                             => lbb'[x].page <= eof'
    BY <1>6, <1>9, <1>15 DEF LogSound, WithinLog
  <2>3. ASSUME NEW s \in Sessions, sess'[s].pc \in {"release", "place", "copy"}
        PROVE  sess'[s].buf # None /\ lbb'[sess'[s].buf].page <= eof'
    <3>1. sess[s].buf # None /\ lbb[sess[s].buf].page <= eof
      BY <1>11, <2>3 DEF LogSound, WithinLog
    <3>2. sess[s].buf \in Buffers /\ eof \in Nat
      BY <3>1 DEF LogSound, Shape, CallType
    <3> QED
      BY <1>6, <1>9, <1>11, <1>15, <3>1, <3>2
  <2> QED
    BY <2>1, <2>2, <2>3 DEF WithinLog
<1>20. CurrentLast'
  <2>1. SUFFICES ASSUME lbb'[current].current, current \notin Members(wq')
                 PROVE  /\ eof <= lbb'[current].page
                        /\ \A x \in Members(wq') : lbb'[x].page < lbb'[current].page
    BY <1>6 DEF CurrentLast, OnQueue
  <2>2. current # b /\ current \in Buffers
    BY <1>15, <2>1 DEF LogSound, Shape
  <2>3. lbb[current].current /\ ~OnQueue(current)
    BY <1>9, <1>12, <2>1, <2>2
  <2> QED
    BY <1>8, <1>9, <1>13, <2>2, <2>3 DEF LogSound, CurrentLast
<1>21. SpansAlone'
  <2>1. ASSUME NEW s \in Sessions, sess'[s].pc \in {"span", "release"}
        PROVE  /\ sess'[s].head # None
               /\ sess'[s].head \in Members(wq') /\ lbb'[sess'[s].head].current
               /\ lbb'[sess'[s].head].owner = s
               /\ sess'[s].pc = "span" => sess'[s].head = current
    <3>1. /\ sess[s].head # None
          /\ OnQueue(sess[s].head) /\ lbb[sess[s].head].current
          /\ lbb[sess[s].head].owner = s
          /\ sess[s].pc = "span" => sess[s].head = current
      BY <1>11, <2>1 DEF LogSound, SpansAlone
    <3>2. sess[s].head \in Buffers \ {b}
      BY <1>3, <1>13, <3>1 DEF OnQueue
    <3> QED
      BY <1>6, <1>9, <1>11, <1>12, <3>1, <3>2
  <2>2. ASSUME NEW s \in Sessions, sess'[s].pc \in {"release", "place"}
        PROVE  /\ sess'[s].buf = current /\ current \notin Members(wq')
               /\ lbb'[current].current /\ lbb'[current].owner = s
    <3>1. /\ sess[s].buf = current /\ ~OnQueue(current)
          /\ lbb[current].current /\ lbb[current].owner = s
      BY <1>11, <2>2 DEF LogSound, SpansAlone
    <3>2. current \in Buffers \ {b}
      BY <1>3, <3>1 DEF LogSound, Shape
    <3> QED
      BY <1>6, <1>9, <1>11, <1>12, <3>1, <3>2
  <2>3. ASSUME NEW x \in Buffers, lbb'[x].current, x \in Members(wq')
        PROVE  \E s \in Sessions : /\ sess'[s].pc \in {"span", "release"}
                                   /\ sess'[s].head = x /\ lbb'[x].owner = s
    <3>1. x # b /\ lbb[x].current /\ OnQueue(x)
      BY <1>9, <1>12, <2>3
    <3> QED
      BY <1>9, <1>11, <3>1 DEF LogSound, SpansAlone
  <2> QED
    BY <1>6, <2>1, <2>2, <2>3 DEF SpansAlone, OnQueue
<1>22. FreeApart'
  <2>1. b \notin fq /\ \A u \in Threads : b \notin io[u].freed
    BY <1>3 DEF LogSound, FreeApart
  <2>2. fq \subseteq Buffers /\ \A u \in Threads : io[u].freed \subseteq Buffers
    BY <1>1 DEF LogSound, Shape, IoType
  <2>3. \A x \in fq' : x \notin Members(wq') /\ ~lbb'[x].current
    BY <1>6, <1>9, <1>12, <2>1, <2>2 DEF LogSound, FreeApart
  <2>4. \A u \in Threads : \A x \in io'[u].freed :
           x \notin Members(wq') /\ ~lbb'[x].current /\ x \notin fq'
    BY <1>6, <1>9, <1>10, <1>12, <1>15, <2>1, <2>2 DEF LogSound, FreeApart
  <2>5. \A u, v \in Threads : u # v => io'[u].freed \cap io'[v].freed = {}
    BY <1>10, <2>1 DEF LogSound, FreeApart
  <2> QED
    BY <2>3, <2>4, <2>5 DEF FreeApart, OnQueue
<1>23. /\ InHand(t)' = InHand(t) \ {b}
       /\ Members(io'[t].todo) = Members(io[t].todo) \ {b}
       /\ \A u \in Threads \ {t} : InHand(u)' = InHand(u)
  <2>1. \A u \in Threads \ {t} : InHand(u)' = InHand(u)
    BY <1>10 DEF InHand
  <2>2. io[t].buf = None /\ io'[t].buf = None
    BY <1>1, <1>10 DEF LogSound, WritersApart
  <2>3. InHand(t) = Members(io[t].todo) /\ InHand(t)' = Members(Tail(io[t].todo))
    BY <1>10, <2>2 DEF InHand
  <2>4. Members(Tail(io[t].todo)) = Members(io[t].todo) \ {b}
    <3> DEFINE q == io[t].todo
    <3>1. /\ q \in Seq(Buffers) /\ Len(q) \in Nat /\ Len(q) >= 1 /\ DOMAIN q = 1..Len(q)
          /\ q[1] = b
      BY <1>1 DEF b
    <3>2. \A i, j \in DOMAIN q : i # j => q[i] # q[j]
      BY DEF LogSound, WritersApart
    <3> HIDE DEF q
    <3>3. /\ DOMAIN Tail(q) = 1..(Len(q) - 1)
          /\ \A i \in 1..(Len(q) - 1) : Tail(q)[i] = q[i + 1]
      BY <3>1
    <3>4. ASSUME NEW x \in Members(Tail(q)) PROVE x \in Members(q) \ {b}
      <4>1. PICK i \in 1..(Len(q) - 1) : x = q[i + 1]
        BY <3>3, <3>4 DEF Members
      <4>2. i + 1 \in DOMAIN q /\ 1 \in DOMAIN q /\ i + 1 # 1
        BY <3>1
      <4> QED
        BY <3>1, <3>2, <4>1, <4>2 DEF Members
    <3>5. ASSUME NEW x \in Members(q) \ {b} PROVE x \in Members(Tail(q))
      <4>1. PICK i \in 1..Len(q) : x = q[i]
        BY <3>1, <3>5 DEF Members
      <4>2. i # 1
        BY <3>1, <3>5, <4>1
      <4>3. i - 1 \in 1..(Len(q) - 1) /\ Tail(q)[i - 1] = x
        BY <3>1, <3>3, <4>1, <4>2
      <4> QED
        BY <3>3, <4>3 DEF Members
    <3> QED
      BY <3>4, <3>5 DEF q
  <2> QED
    BY <1>10, <2>1, <2>3, <2>4
<1>24. WritersApart'
  <2>1. \A x \in Buffers : lbb'[x].needed => lbb'[x].writers = 0 /\ ~lbb'[x].current
    BY <1>9, <1>15 DEF LogSound, WritersApart
  <2>2. \A u \in Threads : \A x \in InHand(u)' :
          x \in Members(wq') /\ lbb'[x].taken /\ lbb'[x].writers = 0 /\ ~lbb'[x].current
    <3>1. SUFFICES ASSUME NEW u \in Threads, NEW x \in InHand(u)'
                   PROVE  /\ x \in Members(wq') /\ lbb'[x].taken /\ lbb'[x].writers = 0
                          /\ ~lbb'[x].current
      OBVIOUS
    <3>2. x \in InHand(u) /\ x # b
      BY <1>2, <1>23, <3>1 DEF LogSound, WritersApart
    <3>3. OnQueue(x) /\ lbb[x].taken /\ lbb[x].writers = 0 /\ ~lbb[x].current
      BY <3>2 DEF LogSound, WritersApart
    <3> QED
      BY <1>9, <1>12, <1>13, <3>2, <3>3 DEF OnQueue
  <2>3. \A u, v \in Threads : u # v => InHand(u)' \cap InHand(v)' = {}
    BY <1>23 DEF LogSound, WritersApart
  <2>4. \A u \in Threads : \A i, j \in DOMAIN io'[u].todo :
          i # j => io'[u].todo[i] # io'[u].todo[j]
    <3> DEFINE q == io[t].todo
    <3>1. /\ q \in Seq(Buffers) /\ Len(q) \in Nat /\ Len(q) >= 1 /\ DOMAIN q = 1..Len(q)
      BY <1>1
    <3>2. \A i, j \in DOMAIN q : i # j => q[i] # q[j]
      BY DEF LogSound, WritersApart
    <3> HIDE DEF q
    <3>3. /\ DOMAIN Tail(q) = 1..(Len(q) - 1)
          /\ \A i \in 1..(Len(q) - 1) : Tail(q)[i] = q[i + 1]
      BY <3>1
    <3>4. \A i, j \in DOMAIN Tail(q) : i # j => Tail(q)[i] # Tail(q)[j]
      <4>1. SUFFICES ASSUME NEW i \in 1..(Len(q) - 1), NEW j \in 1..(Len(q) - 1), i # j
                     PROVE  q[i + 1] # q[j + 1]
        BY <3>3
      <4>2. i + 1 \in DOMAIN q /\ j + 1 \in DOMAIN q /\ i + 1 # j + 1
        BY <3>1, <4>1
      <4> QED
        BY <3>2, <4>2
    <3> DEFINE tl == Tail(q)
    <3>5. io'[t].todo = tl
      BY <1>10 DEF q
    <3> HIDE DEF tl
    <3>6. \A i, j \in DOMAIN tl : i # j => tl[i] # tl[j]
      BY <3>4 DEF tl
    <3> QED
      BY <1>10, <3>5, <3>6 DEF LogSound, WritersApart
  <2>5. \A u \in Threads : io'[u].buf # None => io'[u].todo = <<>>
    BY <1>1, <1>10 DEF LogSound, WritersApart
  <2>6. \A w \in LogWriters : lw'[w].pc # "run" => io'[w] = NoIo
    <3>1. io[t] # NoIo
      BY <1>1 DEF NoIo
    <3> QED
      BY <1>6, <1>10, <3>1 DEF LogSound, WritersApart, Threads
  <2> QED
    BY <2>1, <2>2, <2>3, <2>4, <2>5, <2>6 DEF WritersApart, OnQueue
<1>25. CopiersCounted'
  <2>1. \A x \in Buffers : Copiers(x)' = Copiers(x)
    BY <1>11 DEF Copiers
  <2>2. \A x \in Buffers : lbb'[x].writers = lbb[x].writers
    BY <1>3, <1>9, <1>15
  <2>3. ASSUME NEW s \in Sessions, sess'[s].pc = "copy"
        PROVE  \/ sess'[s].buf \in Members(wq')
               \/ sess'[s].buf = current /\ lbb'[current].current
    <3>1. sess[s].pc = "copy" /\ sess'[s].buf = sess[s].buf
      BY <1>11, <2>3
    <3>2. sess[s].buf # b
      <4>1. IsFiniteSet(Copiers(b))
        <5>1. Copiers(b) \subseteq Sessions
          BY DEF Copiers
        <5> QED
          BY <5>1, ThreadsAssumption, FS_Subset
      <4>2. Cardinality(Copiers(b)) = 0
        BY <1>2, <1>3 DEF LogSound, CopiersCounted
      <4>3. Copiers(b) = {}
        BY <4>1, <4>2, FS_EmptySet
      <4> QED
        BY <3>1, <4>3 DEF Copiers
    <3>3. \/ OnQueue(sess[s].buf)
          \/ sess[s].buf = current /\ lbb[current].current
      BY <3>1 DEF LogSound, CopiersCounted
    <3>4. current \in Buffers
      BY DEF LogSound, Shape
    <3> QED
      BY <1>6, <1>9, <1>12, <3>1, <3>2, <3>3, <3>4
  <2> QED
    BY <1>6, <2>1, <2>2, <2>3 DEF LogSound, CopiersCounted, OnQueue
<1>26. WaitersPlaced'
  <2>1. SUFFICES ASSUME NEW s \in Sessions, sess'[s].lwq # None
                 PROVE  /\ sess'[s].wait /\ sess'[s].pc \in {"wake", "return", "idle"}
                        /\ \/ sess'[s].lwq \in Members(wq')
                           \/ sess'[s].lwq = current /\ lbb'[current].current
    BY <1>6 DEF WaitersPlaced, OnQueue
  <2>2. sess[s].lwq # None /\ sess'[s].wait
    BY <1>1, <1>2, <1>11, <2>1
  <2>3. /\ sess[s].pc \in {"wake", "return", "idle"}
        /\ \/ OnQueue(sess[s].lwq)
           \/ sess[s].lwq = current /\ lbb[current].current
    BY <2>2 DEF LogSound, WaitersPlaced
  <2>4. CASE sess'[s].lwq = g
    BY <1>4, <1>11, <1>12, <2>1, <2>2, <2>3, <2>4
  <2>5. CASE sess'[s].lwq = sess[s].lwq /\ sess[s].lwq # b
    BY <1>9, <1>11, <1>12, <2>2, <2>3, <2>5 DEF LogSound, Shape
  <2> QED
    BY <1>11, <2>1, <2>4, <2>5
<1>27. ASSUME NEW x \in Buffers \ {b}
       PROVE  lbb'[x].forced = IF x = Before(b) THEN Higher(lbb[b].forced, lbb[x].forced)
                                               ELSE lbb[x].forced
  <2>1. CASE x = g
    <3>1. lbb'[x] = [lbb[x] EXCEPT !.forced = top] /\ lbb[x] \in BufferType
      BY <1>1, <1>6, <2>1
    <3>2. lbb'[x].forced = top
      BY <3>1 DEF BufferType
    <3>3. top = Higher(lbb[b].forced, lbb[x].forced)
      BY <1>1, <2>1 DEF top, b
    <3> QED
      BY <2>1, <3>2, <3>3 DEF g, b
  <2>2. CASE x # g
    BY <1>6, <2>2 DEF g, b
  <2> QED
    BY <2>1, <2>2
<1>28. Completed(t, b)
  BY <1>2, <1>3, <1>6, <1>8, <1>9, <1>10, <1>11, <1>15, <1>23, <1>27 DEF Completed
<1> QED
  BY <1>28, <1>16, <1>17, <1>18, <1>19, <1>20, <1>21, <1>22, <1>24, <1>25, <1>26 DEF LogSound, b

LEMMA ReturnBuffersSound ==
  ASSUME LogSound, NEW t \in Threads, ReturnBuffers(t)
  PROVE  LogSound'
<1>1. /\ io \in [Threads -> IoType] /\ lw \in [LogWriters -> LwType]
      /\ sess \in [Sessions -> CallType] /\ io[t].freed \subseteq Buffers
      /\ fq \subseteq Buffers
  BY DEF LogSound, Shape, IoType
<1>2. /\ fq' = fq \cup io[t].freed
      /\ sess' = [s \in Sessions |->
                    IF sess[s].pc = "sleep" /\ sess[s].wait
                      THEN [sess[s] EXCEPT !.wait = FALSE, !.cs = TRUE] ELSE sess[s]]
      /\ io' = [io EXCEPT ![t] = NoIo]
      /\ lw' = IF t \in LogWriters THEN [lw EXCEPT ![t].pc = "scan"] ELSE lw
      /\ io[t].freed # {}
  BY DEF ReturnBuffers
<1>3. /\ setup' = setup /\ lbb' = lbb /\ wq' = wq /\ current' = current
      /\ eof' = eof /\ lastLsn' = lastLsn
  BY DEF ReturnBuffers, log
<1>4. SamePlaces
  <2>1. SUFFICES ASSUME NEW s \in Sessions
                 PROVE  /\ sess'[s] \in CallType
                        /\ sess'[s].pc = sess[s].pc /\ sess'[s].buf = sess[s].buf
                        /\ sess'[s].head = sess[s].head /\ sess'[s].last = sess[s].last
                        /\ sess'[s].lwq = sess[s].lwq
                        /\ sess'[s].lwq # None => sess'[s].wait
    BY <1>2 DEF SamePlaces
  <2>2. CASE sess[s].pc = "sleep" /\ sess[s].wait
    <3>1. sess'[s] = [sess[s] EXCEPT !.wait = FALSE, !.cs = TRUE] /\ sess[s] \in CallType
      BY <1>1, <1>2, <2>2
    <3>2. sess[s].lwq = None
      BY <2>2 DEF LogSound, WaitersPlaced
    <3> QED
      BY <3>1, <3>2 DEF CallType
  <2>3. CASE ~(sess[s].pc = "sleep" /\ sess[s].wait)
    <3>1. sess'[s] = sess[s]
      BY <1>2, <2>3
    <3> QED
      BY <1>1, <3>1 DEF LogSound, WaitersPlaced
  <2> QED
    BY <2>2, <2>3
<1>5. /\ io' \in [Threads -> IoType] /\ io'[t] = NoIo /\ NoIo.freed = {}
      /\ NoIo.todo = <<>> /\ NoIo.buf = None
      /\ \A u \in Threads \ {t} : io'[u] = io[u]
  <2>1. NoIo \in IoType
    <3>1. <<>> \in Seq(Buffers)
      OBVIOUS
    <3> QED
      BY <3>1 DEF NoIo, IoType
  <2> QED
    BY <1>1, <1>2, <2>1 DEF NoIo
<1>6. /\ lw' \in [LogWriters -> LwType]
      /\ \A w \in LogWriters : w # t => lw'[w] = lw[w]
  <2>1. CASE t \in LogWriters
    <3>1. lw' = [lw EXCEPT ![t].pc = "scan"]
      BY <1>2, <2>1
    <3> QED
      BY <1>1, <2>1, <3>1 DEF LwType
  <2>2. CASE t \notin LogWriters
    BY <1>1, <1>2, <2>2
  <2> QED
    BY <2>1, <2>2
<1>7. Shape'
  BY <1>1, <1>2, <1>3, <1>4, <1>5, <1>6 DEF LogSound, Shape, SamePlaces
<1>8. LsnsGiven'
  BY <1>3, <1>4 DEF LogSound, LsnsGiven, SamePlaces
<1>9. Ascending'
  BY <1>3 DEF LogSound, Ascending
<1>10. WithinLog'
  BY <1>3, <1>4 DEF LogSound, WithinLog, SamePlaces
<1>11. CurrentLast'
  BY <1>3 DEF LogSound, CurrentLast, OnQueue
<1>12. SpansAlone'
  BY <1>3, <1>4 DEF LogSound, SpansAlone, SamePlaces, OnQueue
<1>13. FreeApart'
  <2>1. \A x \in fq' : x \notin Members(wq') /\ ~lbb'[x].current
    BY <1>2, <1>3 DEF LogSound, FreeApart, OnQueue
  <2>2. \A u \in Threads : \A x \in io'[u].freed :
          x \notin Members(wq') /\ ~lbb'[x].current /\ x \notin fq'
    BY <1>2, <1>3, <1>5 DEF LogSound, FreeApart, OnQueue
  <2>3. \A u, v \in Threads : u # v => io'[u].freed \cap io'[v].freed = {}
    BY <1>5 DEF LogSound, FreeApart
  <2> QED
    BY <2>1, <2>2, <2>3 DEF FreeApart, OnQueue
<1>14. WritersApart'
  <2>1. InHand(t)' = {}
    BY <1>5 DEF InHand, Members
  <2>2. \A u \in Threads \ {t} : InHand(u)' = InHand(u)
    BY <1>5 DEF InHand, Members
  <2>3. \A u \in Threads : \A x \in InHand(u)' :
          x \in Members(wq') /\ lbb'[x].taken /\ lbb'[x].writers = 0 /\ ~lbb'[x].current
    BY <1>3, <2>1, <2>2 DEF LogSound, WritersApart, OnQueue
  <2>4. \A u, v \in Threads : u # v => InHand(u)' \cap InHand(v)' = {}
    BY <2>1, <2>2 DEF LogSound, WritersApart
  <2>5. \A u \in Threads : \A i, j \in DOMAIN io'[u].todo :
          i # j => io'[u].todo[i] # io'[u].todo[j]
    BY <1>5 DEF LogSound, WritersApart
  <2>6. \A u \in Threads : io'[u].buf # None => io'[u].todo = <<>>
    BY <1>5 DEF LogSound, WritersApart
  <2>7. \A w \in LogWriters : lw'[w].pc # "run" => io'[w] = NoIo
    BY <1>5, <1>6 DEF LogSound, WritersApart, Threads
  <2>8. \A x \in Buffers : lbb'[x].needed => lbb'[x].writers = 0 /\ ~lbb'[x].current
    BY <1>3 DEF LogSound, WritersApart
  <2> QED
    BY <2>3, <2>4, <2>5, <2>6, <2>7, <2>8 DEF WritersApart, OnQueue
<1>15. CopiersCounted'
  <2>1. \A x \in Buffers : Copiers(x)' = Copiers(x)
    BY <1>4 DEF Copiers, SamePlaces
  <2> QED
    BY <1>3, <1>4, <2>1 DEF LogSound, CopiersCounted, SamePlaces, OnQueue
<1>16. WaitersPlaced'
  BY <1>3, <1>4 DEF LogSound, WaitersPlaced, SamePlaces, OnQueue
<1> QED
  BY <1>7, <1>8, <1>9, <1>10, <1>11, <1>12, <1>13, <1>14, <1>15, <1>16 DEF LogSound

-------------------------------------------------------------------------------
(* Putting a buffer on the write queue.                                    *)

(* The buffer is current, or on the write queue.                           *)
Placed(b) == OnQueue(b) \/ (b = current /\ lbb[current].current)

(* Page b goes on the queue, where nobody enters it any more, or stays     *)
(* where it is.                                                            *)
PageStep(b) ==
  /\ lbb' \in [Buffers -> BufferType] /\ wq' \in Seq(Buffers)
  /\ io' \in [Threads -> IoType] /\ lw' \in [LogWriters -> LwType]
  /\ \A x \in Buffers \ {b} : lbb'[x] = lbb[x]
  /\ lbb'[b].page = lbb[b].page /\ lbb'[b].first = lbb[b].first
  /\ lbb'[b].last = lbb[b].last /\ lbb'[b].forced = lbb[b].forced
  /\ \/ wq' = wq /\ lbb'[b].current = lbb[b].current
     \/ Members(wq') = Members(wq) \cup {b} /\ ~lbb'[b].current
  /\ \A t \in Threads : io'[t].freed = io[t].freed /\ io'[t].todo = io[t].todo
  /\ setup' = setup /\ current' = current /\ fq' = fq
  /\ eof' = eof /\ lastLsn' = lastLsn
  /\ Ascending' /\ WritersApart'

(* Whatever else a step does, pages only move from the current buffer to   *)
(* the queue.                                                              *)
PagesMove ==
  \/ \E b \in Buffers : Placed(b) /\ PageStep(b)
  \/ lbb' = lbb /\ wq' = wq /\ io' = io /\ current' = current

(* QueueWrite, whether or not the thread waits on the buffer.              *)
Handled(t, b, L) == \E waits \in BOOLEAN : QueueWrite(t, b, L, waits)

LEMMA PageQueued ==
  ASSUME LogSound, NEW t \in Threads \ LogWriters, NEW b \in Buffers,
         NEW L \in [Buffers -> BufferType],
         \A x \in Buffers \ {b} : L[x] = lbb[x],
         L[b].page = lbb[b].page, L[b].first = lbb[b].first,
         L[b].last = lbb[b].last, L[b].forced = lbb[b].forced,
         L[b].needed => L[b].writers = 0,
         Placed(b), \A u \in Threads : b \notin InHand(u),
         io[t] = NoIo, Handled(t, b, L),
         setup' = setup, current' = current, fq' = fq, eof' = eof,
         lastLsn' = lastLsn
  PROVE  /\ PageStep(b) /\ lbb'[b].writers = L[b].writers
         /\ Members(wq') = Members(wq) \cup {b} /\ ~lbb'[b].current
<1>1. Queued(b, L) /\ Given(b) /\ lw' \in [LogWriters -> LwType]
  <2>1. PICK waits \in BOOLEAN : QueueWrite(t, b, L, waits)
    BY DEF Handled
  <2> QED
    BY <2>1, QueueWriteEffect DEF LogSound
<1>2. wq' \in Seq(Buffers) /\ Members(wq') = Members(wq) \cup {b} /\ wq' = Enqueue(b)
  BY <1>1, EnqueueQueue DEF LogSound, Shape, Queued
<1>3. /\ lbb' \in [Buffers -> BufferType]
      /\ \A x \in Buffers \ {b} : lbb'[x] = lbb[x]
      /\ lbb'[b].page = lbb[b].page /\ lbb'[b].first = lbb[b].first
      /\ lbb'[b].last = lbb[b].last /\ lbb'[b].forced = lbb[b].forced
      /\ lbb'[b].writers = L[b].writers /\ ~lbb'[b].current
      /\ lbb'[b].needed => lbb'[b].writers = 0
  BY <1>1 DEF Queued, SamePage
<1>4. Members(wq) \subseteq Buffers
  BY DEF LogSound, Shape, Members
<1>5. Ascending'
  <2>1. ~OnQueue(b) => \A x \in Members(wq) : lbb[x].page < lbb'[b].page
    BY <1>3 DEF Placed, LogSound, CurrentLast
  <2>2. \A x \in Members(wq) : lbb'[x].page = lbb[x].page
    BY <1>3, <1>4
  <2> QED
    BY <1>2, <2>1, <2>2, EnqueueAscends DEF LogSound
<1>6. /\ WritersApart' /\ io' \in [Threads -> IoType]
      /\ \A u \in Threads : io'[u].freed = io[u].freed /\ io'[u].todo = io[u].todo
  <2>1. OnQueue(b)' /\ \A x \in Members(wq) : OnQueue(x)'
    BY <1>2 DEF OnQueue
  <2> QED
    BY <1>1, <1>3, <2>1, GivenApart DEF LogSound
<1> QED
  BY <1>1, <1>2, <1>3, <1>5, <1>6 DEF PageStep

(* The page stays, and changes only in its writers and the like.           *)
LEMMA PageKept ==
  ASSUME LogSound, NEW b \in Buffers, lbb' \in [Buffers -> BufferType],
         \A x \in Buffers \ {b} : lbb'[x] = lbb[x],
         lbb'[b].page = lbb[b].page, lbb'[b].first = lbb[b].first,
         lbb'[b].last = lbb[b].last, lbb'[b].forced = lbb[b].forced,
         lbb'[b].current = lbb[b].current,
         lbb'[b].needed => lbb'[b].writers = 0 /\ ~lbb'[b].current,
         \A u \in Threads : b \notin InHand(u),
         wq' = wq, lw' = lw, io' = io, setup' = setup, current' = current,
         fq' = fq, eof' = eof, lastLsn' = lastLsn
  PROVE  PageStep(b)
<1>2. Members(wq) \subseteq Buffers
  BY DEF LogSound, Shape, Members
<1>3. Ascending'
  BY <1>2, StaysAscending DEF LogSound
<1>4. WritersApart'
  <2>1. \A u \in Threads : InHand(u)' = InHand(u)
    BY DEF InHand
  <2>2. \A u \in Threads : \A x \in InHand(u) : x \in Buffers \ {b}
    BY <1>2 DEF LogSound, WritersApart, OnQueue
  <2>3. \A u \in Threads : \A x \in InHand(u)' :
          x \in Members(wq') /\ lbb'[x].taken /\ lbb'[x].writers = 0 /\ ~lbb'[x].current
    BY <2>1, <2>2 DEF LogSound, WritersApart, OnQueue
  <2>4. \A x \in Buffers : lbb'[x].needed => lbb'[x].writers = 0 /\ ~lbb'[x].current
    BY DEF LogSound, WritersApart
  <2> QED
    BY <2>1, <2>3, <2>4 DEF LogSound, WritersApart, OnQueue
<1> QED
  BY <1>3, <1>4 DEF PageStep, LogSound, Shape

(* What every page step keeps of the queue and the pages.                  *)
LEMMA PageStepPages ==
  ASSUME LogSound, NEW b \in Buffers, Placed(b), lbb[b].page <= eof, PageStep(b)
  PROVE  /\ CurrentLast' /\ FreeApart'
         /\ \A x \in Members(wq') : lbb'[x].page <= eof
         /\ \A x \in Buffers : lbb'[x].current /\ (lbb'[x].first # 0 \/ lbb'[x].force)
                                  => lbb'[x].page <= eof
         /\ \A x \in Buffers : /\ lbb'[x].page = lbb[x].page
                               /\ lbb'[x].first <= lastLsn /\ lbb'[x].last <= lastLsn
                               /\ lbb'[x].forced <= lastLsn
<1>1. /\ Members(wq) \subseteq Members(wq') /\ Members(wq') \subseteq Members(wq) \cup {b}
      /\ Members(wq) \subseteq Buffers /\ current \in Buffers
  <2>1. Members(wq) \subseteq Buffers /\ current \in Buffers
    BY DEF LogSound, Shape, Members
  <2>2. Members(wq') = Members(wq) \/ Members(wq') = Members(wq) \cup {b}
    BY DEF PageStep
  <2> QED
    BY <2>1, <2>2
<1>2. \A x \in Buffers : /\ lbb'[x].page = lbb[x].page /\ lbb'[x].first = lbb[x].first
                         /\ lbb'[x].last = lbb[x].last /\ lbb'[x].forced = lbb[x].forced
                         /\ lbb'[x].current => lbb[x].current
  BY DEF PageStep
<1>3. \A x \in Buffers \ {b} : lbb'[x] = lbb[x]
  BY DEF PageStep
<1>4. CurrentLast'
  <2>1. SUFFICES ASSUME lbb'[current].current, current \notin Members(wq')
                 PROVE  /\ eof <= lbb'[current].page
                        /\ \A x \in Members(wq') : lbb'[x].page < lbb'[current].page
    BY DEF CurrentLast, OnQueue, PageStep
  <2>2. lbb[current].current /\ ~OnQueue(current)
    BY <1>1, <1>2, <2>1 DEF OnQueue
  <2>3. Members(wq') = Members(wq)
    BY <1>1, <2>1 DEF Placed, OnQueue, PageStep
  <2> QED
    BY <1>1, <1>2, <2>2, <2>3 DEF LogSound, CurrentLast
<1>5. FreeApart'
  <2>1. b \notin fq /\ \A t \in Threads : b \notin io[t].freed
    BY DEF Placed, LogSound, FreeApart
  <2>2. \A x \in fq' : x \notin Members(wq') /\ ~lbb'[x].current
    BY <1>1, <1>2, <2>1 DEF LogSound, Shape, FreeApart, OnQueue, PageStep
  <2>3. \A t \in Threads : \A x \in io'[t].freed :
          x \notin Members(wq') /\ ~lbb'[x].current /\ x \notin fq'
    <3>1. \A t \in Threads : io'[t].freed = io[t].freed /\ io[t].freed \subseteq Buffers
      BY DEF LogSound, Shape, IoType, PageStep
    <3>2. fq' = fq
      BY DEF PageStep
    <3> QED
      BY <1>1, <1>2, <2>1, <3>1, <3>2 DEF LogSound, FreeApart, OnQueue
  <2>4. \A t, u \in Threads : t # u => io'[t].freed \cap io'[u].freed = {}
    BY DEF LogSound, FreeApart, PageStep
  <2> QED
    BY <2>2, <2>3, <2>4 DEF FreeApart, OnQueue
<1>6. \A x \in Members(wq') : lbb'[x].page <= eof
  BY <1>1, <1>2 DEF LogSound, WithinLog
<1>7. \A x \in Buffers : lbb'[x].current /\ (lbb'[x].first # 0 \/ lbb'[x].force)
                            => lbb'[x].page <= eof
  BY <1>2, <1>3 DEF LogSound, WithinLog
<1>8. \A x \in Buffers : /\ lbb'[x].first <= lastLsn /\ lbb'[x].last <= lastLsn
                         /\ lbb'[x].forced <= lastLsn
  BY <1>2 DEF LogSound, LsnsGiven
<1> QED
  BY <1>2, <1>4, <1>5, <1>6, <1>7, <1>8

(* A session does not come from or go to the spanning of a record, and     *)
(* waits for nothing or for page b.                                        *)
BesidePage(u, b) ==
  \/ sess'[u] = sess[u]
  \/ /\ sess[u].pc \notin {"span", "release", "place"} /\ sess'[u].pc \notin Busy
     /\ sess'[u].last <= lastLsn
     /\ sess'[u].lwq # None =>
          /\ sess'[u].lwq = b /\ sess'[u].wait
          /\ sess'[u].pc \in {"wake", "return", "idle"}

LEMMA PageStepSound ==
  ASSUME LogSound, NEW b \in Buffers, Placed(b), lbb[b].page <= eof,
         lbb[b].owner = None, PageStep(b), sess' \in [Sessions -> CallType],
         \A u \in Sessions : BesidePage(u, b),
         \A x \in Buffers : lbb'[x].writers = Cardinality(Copiers(x)')
  PROVE  LogSound'
<1>1. /\ CurrentLast' /\ FreeApart'
      /\ \A x \in Members(wq') : lbb'[x].page <= eof
      /\ \A x \in Buffers : lbb'[x].current /\ (lbb'[x].first # 0 \/ lbb'[x].force)
                               => lbb'[x].page <= eof
      /\ \A x \in Buffers : /\ lbb'[x].page = lbb[x].page
                            /\ lbb'[x].first <= lastLsn /\ lbb'[x].last <= lastLsn
                            /\ lbb'[x].forced <= lastLsn
  BY PageStepPages
<1>2. /\ setup' = setup /\ current' = current /\ fq' = fq /\ eof' = eof
      /\ lastLsn' = lastLsn /\ Ascending' /\ WritersApart'
      /\ \A x \in Buffers \ {b} : lbb'[x] = lbb[x]
  BY DEF PageStep
<1>3. /\ Members(wq) \subseteq Members(wq') /\ Members(wq') \subseteq Members(wq) \cup {b}
      /\ Members(wq) \subseteq Buffers /\ current \in Buffers
      /\ lbb'[b].current => lbb[b].current /\ wq' = wq
      /\ \/ b \in Members(wq')
         \/ b = current /\ lbb'[current].current
  <2>1. Members(wq) \subseteq Buffers /\ current \in Buffers
    BY DEF LogSound, Shape, Members
  <2>2. CASE wq' = wq /\ lbb'[b].current = lbb[b].current
    BY <2>1, <2>2 DEF Placed, OnQueue
  <2>3. CASE Members(wq') = Members(wq) \cup {b} /\ ~lbb'[b].current
    BY <2>1, <2>3
  <2> QED
    BY <2>2, <2>3 DEF PageStep
<1>4. \A s \in Sessions : sess'[s].pc \in Busy => sess'[s] = sess[s]
  BY DEF BesidePage
<1>5. Shape'
  BY DEF LogSound, Shape, PageStep
<1>6. LsnsGiven'
  <2>1. \A s \in Sessions : sess'[s].last <= lastLsn
    BY DEF BesidePage, LogSound, LsnsGiven
  <2> QED
    BY <1>1, <1>2, <2>1 DEF LsnsGiven
<1>7. WithinLog'
  <2>1. ASSUME NEW s \in Sessions, sess'[s].pc \in {"release", "place", "copy"}
        PROVE  sess'[s].buf # None /\ lbb'[sess'[s].buf].page <= eof
    <3>1. sess'[s] = sess[s] /\ sess[s].buf # None /\ lbb[sess[s].buf].page <= eof
      BY <1>4, <2>1 DEF Busy, LogSound, WithinLog
    <3>2. sess[s].buf \in Buffers
      BY <3>1 DEF LogSound, Shape, CallType
    <3> QED
      BY <1>1, <3>1, <3>2
  <2> QED
    BY <1>1, <1>2, <2>1 DEF WithinLog
<1>8. SpansAlone'
  <2>1. ASSUME NEW s \in Sessions, sess'[s].pc \in {"span", "release"}
        PROVE  /\ sess'[s].head # None
               /\ sess'[s].head \in Members(wq') /\ lbb'[sess'[s].head].current
               /\ lbb'[sess'[s].head].owner = s
               /\ sess'[s].pc = "span" => sess'[s].head = current
    <3>1. /\ sess'[s] = sess[s] /\ sess[s].head # None
          /\ OnQueue(sess[s].head) /\ lbb[sess[s].head].current
          /\ lbb[sess[s].head].owner = s
          /\ sess[s].pc = "span" => sess[s].head = current
      BY <1>4, <2>1 DEF Busy, LogSound, SpansAlone
    <3>2. sess[s].head \in Buffers \ {b}
      BY <1>3, <3>1, ThreadsAssumption DEF OnQueue
    <3> QED
      BY <1>2, <1>3, <3>1, <3>2 DEF OnQueue
  <2>2. ASSUME NEW s \in Sessions, sess'[s].pc \in {"release", "place"}
        PROVE  /\ sess'[s].buf = current /\ current \notin Members(wq')
               /\ lbb'[current].current /\ lbb'[current].owner = s
    <3>1. /\ sess'[s] = sess[s] /\ sess[s].buf = current /\ ~OnQueue(current)
          /\ lbb[current].current /\ lbb[current].owner = s
      BY <1>4, <2>2 DEF Busy, LogSound, SpansAlone
    <3>2. current \in Buffers \ {b}
      BY <1>3, <3>1, ThreadsAssumption
    <3> QED
      BY <1>2, <1>3, <3>1, <3>2 DEF OnQueue
  <2>3. ASSUME NEW x \in Buffers, lbb'[x].current, x \in Members(wq')
        PROVE  \E s \in Sessions : /\ sess'[s].pc \in {"span", "release"}
                                   /\ sess'[s].head = x /\ lbb'[x].owner = s
    <3>1. lbb[x].current /\ OnQueue(x)
      BY <1>2, <1>3, <2>3 DEF OnQueue
    <3>2. PICK s \in Sessions : /\ sess[s].pc \in {"span", "release"}
                                /\ sess[s].head = x /\ lbb[x].owner = s
      BY <3>1 DEF LogSound, SpansAlone
    <3>3. x # b
      BY <3>2, ThreadsAssumption
    <3>4. sess'[s] = sess[s]
      BY <3>2 DEF BesidePage
    <3> QED
      BY <1>2, <3>2, <3>3, <3>4
  <2> QED
    BY <1>2, <2>1, <2>2, <2>3 DEF SpansAlone, OnQueue
<1>9. CopiersCounted'
  <2>1. ASSUME NEW s \in Sessions, sess'[s].pc = "copy"
        PROVE  \/ sess'[s].buf \in Members(wq')
               \/ sess'[s].buf = current /\ lbb'[current].current
    <3>1. /\ sess'[s] = sess[s]
          /\ \/ OnQueue(sess[s].buf)
             \/ sess[s].buf = current /\ lbb[current].current
      BY <1>4, <2>1 DEF Busy, LogSound, CopiersCounted
    <3>2. CASE sess[s].buf = b
      BY <1>3, <3>1, <3>2
    <3>3. CASE sess[s].buf # b
      BY <1>2, <1>3, <3>1, <3>3 DEF OnQueue
    <3> QED
      BY <3>2, <3>3
  <2> QED
    BY <1>2, <2>1 DEF CopiersCounted, OnQueue
<1>10. WaitersPlaced'
  <2>1. SUFFICES ASSUME NEW s \in Sessions, sess'[s].lwq # None
                 PROVE  /\ sess'[s].wait /\ sess'[s].pc \in {"wake", "return", "idle"}
                        /\ \/ sess'[s].lwq \in Members(wq')
                           \/ sess'[s].lwq = current /\ lbb'[current].current
    BY <1>2 DEF WaitersPlaced, OnQueue
  <2>2. CASE sess'[s] = sess[s]
    <3>1. /\ sess[s].wait /\ sess[s].pc \in {"wake", "return", "idle"}
          /\ \/ OnQueue(sess[s].lwq)
             \/ sess[s].lwq = current /\ lbb[current].current
      BY <2>1, <2>2 DEF LogSound, WaitersPlaced
    <3>2. CASE sess[s].lwq = b
      BY <1>3, <2>2, <3>1, <3>2
    <3>3. CASE sess[s].lwq # b
      BY <1>2, <1>3, <2>2, <3>1, <3>3 DEF OnQueue
    <3> QED
      BY <3>2, <3>3
  <2>3. CASE sess'[s] # sess[s]
    BY <1>3, <2>1, <2>3 DEF BesidePage
  <2> QED
    BY <2>2, <2>3
<1> QED
  BY <1>1, <1>2, <1>5, <1>6, <1>7, <1>8, <1>9, <1>10 DEF LogSound

LEMMA ForceOutPage ==
  ASSUME LogSound, NEW s \in Sessions, NEW b \in Buffers, NEW M \in BufferType,
         NEW L, L = [lbb EXCEPT ![b] = M], NEW count,
         M.page = lbb[b].page, M.first = lbb[b].first,
         M.last = lbb[b].last, M.forced = lbb[b].forced,
         M.current = lbb[b].current, M.needed => M.writers = 0 /\ ~M.current,
         Placed(b), \A u \in Threads : b \notin InHand(u),
         io[s] = NoIo, ForceOut(s, b, L, count),
         setup' = setup, current' = current, fq' = fq, eof' = eof,
         lastLsn' = lastLsn
  PROVE  PageStep(b) /\ lbb'[b].writers = M.writers
<1>1. /\ lbb \in [Buffers -> BufferType] /\ L \in [Buffers -> BufferType]
      /\ L[b] = M /\ \A x \in Buffers \ {b} : L[x] = lbb[x]
  BY DEF LogSound, Shape
<1>2. s \in Threads \ LogWriters
  BY ThreadsAssumption DEF Threads
<1>3. CASE QueueWrite(s, b, L, TRUE)
  <2>1. Handled(s, b, L)
    BY <1>3, Zenon DEF Handled
  <2>2. /\ L[b].page = lbb[b].page /\ L[b].first = lbb[b].first
        /\ L[b].last = lbb[b].last /\ L[b].forced = lbb[b].forced
        /\ L[b].needed => L[b].writers = 0
    BY <1>1
  <2> QED
    BY <1>1, <1>2, <2>1, <2>2, PageQueued
<1>4. CASE lbb' = [L EXCEPT ![b].force = TRUE] /\ UNCHANGED <<wq, lw, io>>
  <2> DEFINE N == [M EXCEPT !.force = TRUE]
  <2>1. /\ N \in BufferType /\ N.page = M.page /\ N.first = M.first /\ N.last = M.last
        /\ N.forced = M.forced /\ N.current = M.current /\ N.needed = M.needed
        /\ N.writers = M.writers
    BY DEF BufferType
  <2>2. lbb' = [lbb EXCEPT ![b] = N]
    BY <1>1, <1>4
  <2> HIDE DEF N
  <2>3. /\ lbb' \in [Buffers -> BufferType] /\ lbb'[b] = N
        /\ \A x \in Buffers \ {b} : lbb'[x] = lbb[x]
    BY <1>1, <2>1, <2>2
  <2>4. PageStep(b)
    BY <1>4, <2>1, <2>3, PageKept
  <2> QED
    BY <2>1, <2>3, <2>4
<1> QED
  BY <1>3, <1>4 DEF ForceOut

(* No thread writes a page that is current, or copied into.                *)
LEMMA NotInHand ==
  ASSUME LogSound, NEW b, lbb[b].current \/ lbb[b].writers # 0
  PROVE  \A u \in Threads : b \notin InHand(u)
BY DEF LogSound, WritersApart

LEMMA GcmtWriteSound ==
  ASSUME LogSound, GcmtWrite
  PROVE  LogSound' /\ PagesMove
<1>1. /\ current \in Buffers /\ lbb \in [Buffers -> BufferType]
      /\ Gcmt \in Threads \ LogWriters
  BY ThreadsAssumption DEF LogSound, Shape, Threads
<1>2. /\ io[Gcmt] = NoIo /\ lbb[current].current /\ lbb[current].force
      /\ lbb[current].writers = 0 /\ lbb[current].owner = None
      /\ QueueWrite(Gcmt, current, lbb, FALSE)
      /\ sess' = sess /\ UNCHANGED <<setup, current, fq, eof, lastLsn>>
  BY DEF GcmtWrite, free, log
<1>3. Placed(current) /\ lbb[current].page <= eof
  BY <1>1, <1>2 DEF Placed, LogSound, WithinLog
<1>4. PageStep(current) /\ lbb'[current].writers = lbb[current].writers
  <2>1. Handled(Gcmt, current, lbb)
    BY <1>2, Zenon DEF Handled
  <2>2. \A u \in Threads : current \notin InHand(u)
    BY <1>2, NotInHand
  <2> QED
    BY <1>1, <1>2, <1>3, <2>1, <2>2, PageQueued
<1>5. \A x \in Buffers : lbb'[x].writers = Cardinality(Copiers(x)')
  <2>1. \A x \in Buffers : Copiers(x)' = Copiers(x)
    BY <1>2 DEF Copiers
  <2>2. \A x \in Buffers : lbb'[x].writers = lbb[x].writers
    BY <1>4 DEF PageStep
  <2> QED
    BY <2>1, <2>2 DEF LogSound, CopiersCounted
<1>6. \A u \in Sessions : BesidePage(u, current)
  BY <1>2 DEF BesidePage
<1>7. sess' \in [Sessions -> CallType]
  BY <1>2 DEF LogSound, Shape
<1>8. PagesMove
  BY <1>1, <1>3, <1>4 DEF PagesMove
<1> QED
  BY <1>1, <1>2, <1>3, <1>4, <1>5, <1>6, <1>7, <1>8, PageStepSound

(* The call of LGforce.                                                    *)
LEMMA ForceBack ==
  ASSUME NEW r \in CallType
  PROVE  LET back == [r EXCEPT !.pc = "return", !.synch = TRUE]
         IN  /\ back \in CallType /\ back.pc = "return" /\ back.last = r.last
             /\ back.lwq = r.lwq
  BY DEF CallType, Steps

LEMMA LGforceSound ==
  ASSUME LogSound, NEW s \in Sessions, LGforce(s)
  PROVE  LogSound' /\ PagesMove
<1>1. PICK aim \in Aims(s) :
        LET b     == current
            call  == [sess[s] EXCEPT !.kind = "force", !.target = aim.target,
                                     !.wlsn = aim.wlsn]
            here  == /\ lbb[b].current /\ lbb[b].first # 0
                     /\ lbb[b].first <= aim.target
            count == Cardinality(WaitersOn(b)) + 1
        IN  \/ /\ aim.target < forcedLsn
               /\ sess' = [sess EXCEPT ![s] = [call EXCEPT !.pc = "return", !.synch = TRUE]]
               /\ UNCHANGED queues
            \/ /\ aim.target >= forcedLsn /\ here /\ lbb[b].owner = None
               /\ ForceOut(s, b, lbb, count)
               /\ sess' = [sess EXCEPT ![s] =
                             [SuspendOn(call, b, aim.wlsn) EXCEPT !.pc =
                                IF MarksForce(b, lbb, count) THEN "wake" ELSE "return"]]
            \/ /\ aim.target >= forcedLsn /\ ~here /\ lbb[b].owner = None
               /\ sess' = [sess EXCEPT ![s] = SeekOn(call)]
               /\ UNCHANGED queues
  BY DEF LGforce
<1> DEFINE call  == [sess[s] EXCEPT !.kind = "force", !.target = aim.target,
                                    !.wlsn = aim.wlsn]
           back  == [call EXCEPT !.pc = "return", !.synch = TRUE]
           count == Cardinality(WaitersOn(current)) + 1
           pc    == IF MarksForce(current, lbb, count) THEN "wake" ELSE "return"
           waits == [SuspendOn(call, current, aim.wlsn) EXCEPT !.pc = pc]
<1>2. /\ sess \in [Sessions -> CallType] /\ sess[s] \in CallType
      /\ sess[s].pc = "idle" /\ ~sess[s].wait /\ io[s] = NoIo
      /\ lbb \in [Buffers -> BufferType] /\ current \in Buffers
  BY DEF LogSound, Shape, LGforce, At
<1>3. aim.target \in Nat /\ aim.wlsn \in Nat
  BY AimsGiven DEF LogSound
<1>4. sess[s].lwq = None /\ sess[s].last <= lastLsn
  BY <1>2 DEF LogSound, WaitersPlaced, LsnsGiven
<1>5. /\ call \in CallType /\ call.pc = sess[s].pc /\ call.last = sess[s].last
      /\ call.lwq = sess[s].lwq /\ call.wait = sess[s].wait
  BY <1>2, <1>3 DEF CallType, Kinds
<1>11. /\ back \in CallType /\ back.pc = "return" /\ back.last = sess[s].last
       /\ back.lwq = sess[s].lwq
  <2> HIDE DEF call
  <2> QED
    BY <1>5, ForceBack
<1>6. UNCHANGED <<setup, current, fq, eof, lastLsn>>
  BY DEF LGforce, free, log
<1>7. ASSUME NEW r \in CallType, sess' = [sess EXCEPT ![s] = r], r.pc \notin Busy,
             r.last = sess[s].last, r.lwq = None, UNCHANGED queues
      PROVE  LogSound' /\ PagesMove
  <2>1. sess'[s] = r /\ \A t \in Sessions \ {s} : sess'[t] = sess[t]
    BY <1>2, <1>7
  <2>2. OnlySession(s)
    BY <1>2, <1>4, <1>6, <1>7, <2>1 DEF OnlySession, queues
  <2>3. MayWait(s)
    BY <1>7, <2>1 DEF MayWait
  <2>4. PagesMove
    BY <1>6, <1>7 DEF PagesMove, queues
  <2> QED
    BY <1>2, <1>7, <2>1, <2>2, <2>3, <2>4, SessionStep DEF Busy
<1>8. CASE sess' = [sess EXCEPT ![s] = back] /\ UNCHANGED queues
  <2> HIDE DEF back
  <2> QED
    BY <1>4, <1>11, <1>7, <1>8 DEF Busy
<1>9. CASE sess' = [sess EXCEPT ![s] = SeekOn(call)] /\ UNCHANGED queues
  <2> HIDE DEF call
  <2>1. /\ SeekOn(call) \in CallType /\ SeekOn(call).pc \in {"return", "attach"}
        /\ SeekOn(call).last = call.last /\ SeekOn(call).lwq = call.lwq
    BY <1>5, SeekOnCall DEF LogSound
  <2> QED
    BY <1>4, <1>5, <1>7, <1>9, <2>1 DEF Busy
<1>10. ASSUME lbb[current].current, lbb[current].first # 0, lbb[current].owner = None,
              ForceOut(s, current, lbb, count), sess' = [sess EXCEPT ![s] = waits]
       PROVE  LogSound' /\ PagesMove
  <2>1. /\ waits \in CallType /\ waits.pc \in {"wake", "return"}
        /\ waits.last = sess[s].last /\ waits.lwq = current /\ waits.wait
    <3>1. pc \in {"wake", "return"}
      OBVIOUS
    <3> DEFINE w == SuspendOn(call, current, aim.wlsn)
    <3> HIDE DEF call, pc
    <3>2. /\ w \in CallType /\ w.last = sess[s].last /\ w.lwq = current /\ w.wait
      BY <1>2, <1>3, <1>5, SuspendOnCall
    <3> HIDE DEF w
    <3>3. LET x == [w EXCEPT !.pc = pc]
          IN  x \in CallType /\ x.pc = pc /\ x.last = w.last /\ x.lwq = w.lwq /\ x.wait = w.wait
      BY <3>1, <3>2 DEF CallType, Steps
    <3> QED
      BY <3>1, <3>2, <3>3 DEF w
  <2> HIDE DEF waits, count
  <2>2. sess'[s] = waits /\ \A t \in Sessions \ {s} : sess'[t] = sess[t]
    BY <1>2, <1>10
  <2>3. Placed(current) /\ lbb[current].page <= eof
    BY <1>2, <1>10 DEF Placed, LogSound, WithinLog
  <2>4. lbb = [lbb EXCEPT ![current] = lbb[current]] /\ lbb[current] \in BufferType
    BY <1>2
  <2>5. lbb[current].needed => lbb[current].writers = 0 /\ ~lbb[current].current
    BY <1>2 DEF LogSound, WritersApart
  <2>6. PageStep(current) /\ lbb'[current].writers = lbb[current].writers
    BY <1>2, <1>6, <1>10, <2>3, <2>4, <2>5, NotInHand, ForceOutPage
  <2>7. \A x \in Buffers : lbb'[x].writers = Cardinality(Copiers(x)')
    <3>1. \A x \in Buffers : Copiers(x)' = Copiers(x)
      BY <1>2, <2>1, <2>2 DEF Copiers
    <3>2. \A x \in Buffers : lbb'[x].writers = lbb[x].writers
      BY <2>6 DEF PageStep
    <3> QED
      BY <3>1, <3>2 DEF LogSound, CopiersCounted
  <2>8. \A u \in Sessions : BesidePage(u, current)
    BY <1>2, <1>4, <2>1, <2>2 DEF BesidePage, Busy
  <2>9. sess' \in [Sessions -> CallType]
    BY <1>2, <1>10, <2>1
  <2>10. PagesMove
    BY <1>2, <2>3, <2>6 DEF PagesMove
  <2> QED
    BY <1>2, <1>10, <2>3, <2>6, <2>7, <2>8, <2>9, <2>10, PageStepSound
<1> QED
  BY <1>1, <1>8, <1>9, <1>10

-------------------------------------------------------------------------------
(* The end of LGwrite.                                                     *)

LEMMA CopierLeaves ==
  ASSUME LogSound, NEW s \in Sessions, sess[s].pc = "copy"
  PROVE  /\ sess[s].buf \in Buffers /\ lbb[sess[s].buf].writers \in Nat \ {0}
         /\ Cardinality(Copiers(sess[s].buf) \ {s}) = lbb[sess[s].buf].writers - 1
         /\ Placed(sess[s].buf) /\ lbb[sess[s].buf].page <= eof
         /\ \A t \in Threads : sess[s].buf \notin InHand(t)
         /\ ~lbb[sess[s].buf].needed
<1> DEFINE b == sess[s].buf
<1>1. b # None /\ lbb[b].page <= eof
  BY DEF LogSound, WithinLog
<1>2. b \in Buffers
  BY <1>1 DEF LogSound, Shape, CallType
<1>3. Placed(b)
  BY DEF LogSound, CopiersCounted, Placed
<1>4. IsFiniteSet(Copiers(b)) /\ s \in Copiers(b)
  <2>1. Copiers(b) \subseteq Sessions /\ s \in Copiers(b)
    BY DEF Copiers
  <2> QED
    BY <2>1, ThreadsAssumption, FS_Subset
<1>5. /\ Cardinality(Copiers(b)) \in Nat
      /\ Cardinality(Copiers(b) \ {s}) = Cardinality(Copiers(b)) - 1
      /\ Cardinality(Copiers(b) \ {s}) \in Nat
  <2>1. IsFiniteSet(Copiers(b) \ {s})
           /\ Cardinality(Copiers(b) \ {s}) = Cardinality(Copiers(b)) - 1
    BY <1>4, FS_RemoveElement
  <2> QED
    BY <1>4, <2>1, FS_CardinalityType
<1>6. lbb[b].writers = Cardinality(Copiers(b))
  BY <1>2 DEF LogSound, CopiersCounted
<1>7. lbb[b].writers \in Nat \ {0}
  BY <1>5, <1>6
<1>8. /\ \A t \in Threads : b \notin InHand(t)
      /\ ~lbb[b].needed
  BY <1>2, <1>7, NotInHand DEF LogSound, WritersApart
<1> QED
  BY <1>1, <1>2, <1>3, <1>5, <1>6, <1>7, <1>8

LEMMA WriterLeaves ==
  ASSUME NEW r \in BufferType, r.writers # 0, NEW n \in Nat
  PROVE  LET x == [r EXCEPT !.writers = @ - 1, !.commits = n]
         IN  /\ x \in BufferType /\ x.page = r.page /\ x.first = r.first
             /\ x.last = r.last /\ x.forced = r.forced /\ x.writers = r.writers - 1
             /\ x.current = r.current /\ x.needed = r.needed
<1>1. r.writers \in Nat \ {0}
  BY DEF BufferType
<1> DEFINE m == r.writers - 1
<1>2. m \in Nat
  BY <1>1
<1> HIDE DEF m
<1>3. LET x == [r EXCEPT !.writers = m, !.commits = n]
      IN  /\ x \in BufferType /\ x.page = r.page /\ x.first = r.first
          /\ x.last = r.last /\ x.forced = r.forced /\ x.writers = m
          /\ x.current = r.current /\ x.needed = r.needed
  BY <1>2 DEF BufferType
<1> QED
  BY <1>3 DEF m

LEMMA CopiedSound ==
  ASSUME LogSound, NEW s \in Sessions, Copied(s)
  PROVE  LogSound' /\ PagesMove
<1> DEFINE b      == sess[s].buf
           n      == IF sess[s].kind = "commit" THEN lbb[b].commits + 1
                                                ELSE lbb[b].commits
           M      == [lbb[b] EXCEPT !.writers = @ - 1, !.commits = n]
           forced == sess[s].kind # "plain"
           L      == [lbb EXCEPT ![b].writers = @ - 1,
                         ![b].commits = IF sess[s].kind = "commit" THEN @ + 1 ELSE @]
           count  == Cardinality(WaitersOn(b)) + 1
           last   == L[b].writers = 0 /\ OnQueue(b)
           marks  == forced /\ ~last /\ MarksForce(b, L, count)
           pc     == IF marks THEN "wake" ELSE "return"
           mine   == [sess[s] EXCEPT !.pc = pc, !.buf = None]
           lsn    == IF mine.kind = "commit" THEN mine.first ELSE mine.last
           done   == IF forced THEN SuspendOn(mine, b, lsn) ELSE mine
<1>1. /\ sess[s].pc = "copy" /\ io[s] = NoIo /\ lbb[b].owner = None
      /\ \/ last /\ QueueWrite(s, b, L, forced)
         \/ ~last /\ forced /\ ForceOut(s, b, L, count)
         \/ ~last /\ ~forced /\ lbb' = L /\ UNCHANGED <<wq, lw, io>>
      /\ sess' = [sess EXCEPT ![s] = done]
      /\ setup' = setup /\ current' = current /\ fq' = fq /\ eof' = eof
      /\ lastLsn' = lastLsn
  BY DEF Copied, At, free, log
<1>2. /\ b \in Buffers /\ lbb[b].writers \in Nat \ {0} /\ Placed(b) /\ lbb[b].page <= eof
      /\ Cardinality(Copiers(b) \ {s}) = lbb[b].writers - 1
      /\ \A t \in Threads : b \notin InHand(t)
      /\ ~lbb[b].needed
  BY <1>1, CopierLeaves
<1>3. /\ sess \in [Sessions -> CallType] /\ sess[s] \in CallType
      /\ lbb \in [Buffers -> BufferType] /\ lbb[b] \in BufferType
      /\ s \in Threads \ LogWriters
  BY <1>2, ThreadsAssumption DEF LogSound, Shape, Threads
<1>4. sess[s].lwq = None /\ sess[s].last <= lastLsn
  BY <1>1 DEF LogSound, WaitersPlaced, LsnsGiven
<1>5. n \in Nat
  BY <1>3 DEF BufferType
<1>6. /\ M \in BufferType /\ M.page = lbb[b].page /\ M.first = lbb[b].first
      /\ M.last = lbb[b].last /\ M.forced = lbb[b].forced
      /\ M.writers = lbb[b].writers - 1
      /\ M.current = lbb[b].current /\ ~M.needed
  <2> HIDE DEF n
  <2> QED
    BY <1>2, <1>3, <1>5, WriterLeaves
<1>7. L = [lbb EXCEPT ![b] = M]
  BY <1>3
<1>8. /\ done \in CallType /\ done.pc \in {"wake", "return"}
      /\ done.last = sess[s].last
      /\ done.lwq # None => done.lwq = b /\ done.wait
  <2>1. pc \in {"wake", "return"}
    OBVIOUS
  <2> HIDE DEF pc
  <2>2. /\ mine \in CallType /\ mine.pc = pc /\ mine.last = sess[s].last
        /\ mine.lwq = sess[s].lwq
    BY <1>3, <2>1 DEF CallType, Steps
  <2> HIDE DEF mine
  <2>3. lsn \in Nat
    BY <2>2 DEF CallType
  <2> HIDE DEF lsn
  <2>4. CASE forced
    <3> DEFINE w == SuspendOn(mine, b, lsn)
    <3>1. w \in CallType /\ w.pc = mine.pc /\ w.last = mine.last /\ w.wait /\ w.lwq = b
      BY <1>2, <2>2, <2>3, SuspendOnCall
    <3>2. done = w
      BY <2>4
    <3> HIDE DEF w, done
    <3> QED
      BY <2>1, <2>2, <3>1, <3>2
  <2>5. CASE ~forced
    <3>1. done = mine
      BY <2>5
    <3> HIDE DEF done
    <3> QED
      BY <1>4, <2>1, <2>2, <3>1
  <2> QED
    BY <2>4, <2>5
<1>9. forced \in BOOLEAN
  OBVIOUS
<1> HIDE DEF M, n, L, count, last, marks, pc, mine, lsn, done, forced
<1>10. L[b] = M /\ L \in [Buffers -> BufferType] /\ \A x \in Buffers \ {b} : L[x] = lbb[x]
  BY <1>2, <1>3, <1>6, <1>7
<1>11. PageStep(b) /\ lbb'[b].writers = M.writers
  <2>1. CASE QueueWrite(s, b, L, forced)
    <3>1. Handled(s, b, L)
      BY <1>9, <2>1, Zenon DEF Handled
    <3>2. /\ L[b].page = lbb[b].page /\ L[b].first = lbb[b].first
          /\ L[b].last = lbb[b].last /\ L[b].forced = lbb[b].forced
          /\ L[b].needed => L[b].writers = 0
      BY <1>6, <1>10
    <3> QED
      BY <1>1, <1>2, <1>3, <1>10, <3>1, <3>2, PageQueued
  <2>2. CASE ForceOut(s, b, L, count)
    BY <1>1, <1>2, <1>6, <1>7, <2>2, ForceOutPage
  <2>3. CASE lbb' = L /\ UNCHANGED <<wq, lw, io>>
    <3>1. lbb' \in [Buffers -> BufferType] /\ lbb'[b] = M
          /\ \A x \in Buffers \ {b} : lbb'[x] = lbb[x]
      BY <1>10, <2>3
    <3>2. PageStep(b)
      BY <1>1, <1>2, <1>6, <2>3, <3>1, PageKept
    <3> QED
      BY <3>1, <3>2
  <2> QED
    BY <1>1, <2>1, <2>2, <2>3
<1>12. sess'[s] = done /\ \A u \in Sessions \ {s} : sess'[u] = sess[u]
  BY <1>1, <1>3
<1>13. \A x \in Buffers : lbb'[x].writers = Cardinality(Copiers(x)')
  <2>1. ASSUME NEW x \in Buffers, x = b PROVE Copiers(x)' = Copiers(b) \ {s}
    BY <1>1, <1>8, <1>12, <2>1 DEF Copiers
  <2>2. \A x \in Buffers \ {b} : Copiers(x)' = Copiers(x)
    BY <1>1, <1>8, <1>12 DEF Copiers
  <2>3. \A x \in Buffers \ {b} : lbb'[x].writers = lbb[x].writers
    BY <1>11 DEF PageStep
  <2> QED
    <3>1. \A x \in Buffers \ {b} : lbb'[x].writers = Cardinality(Copiers(x)')
      BY <2>2, <2>3 DEF LogSound, CopiersCounted
    <3>2. ASSUME NEW x \in Buffers, x = b PROVE lbb'[x].writers = Cardinality(Copiers(x)')
      <4>1. Copiers(x)' = Copiers(b) \ {s}
        BY <2>1, <3>2
      <4>2. lbb'[x].writers = lbb[b].writers - 1
        BY <1>6, <1>11, <3>2
      <4> QED
        BY <1>2, <4>1, <4>2
    <3> QED
      BY <3>1, <3>2
<1>14. \A u \in Sessions : BesidePage(u, b)
  BY <1>1, <1>4, <1>8, <1>12 DEF BesidePage, Busy
<1>15. sess' \in [Sessions -> CallType]
  BY <1>1, <1>3, <1>8, <1>12
<1>16. PagesMove
  BY <1>2, <1>11 DEF PagesMove
<1> QED
  BY <1>1, <1>2, <1>11, <1>13, <1>14, <1>15, <1>16, PageStepSound

LEMMA SpanReleaseSound ==
  ASSUME LogSound, NEW s \in Sessions, SpanRelease(s)
  PROVE  LogSound' /\ PagesMove
<1> DEFINE b == sess[s].head
           r == [sess[s] EXCEPT !.head = None, !.pc = "place"]
<1>1. /\ sess[s].pc = "release" /\ io[s] = NoIo
      /\ QueueWrite(s, b, lbb, FALSE)
      /\ sess' = [sess EXCEPT ![s].head = None, ![s].pc = "place"]
      /\ setup' = setup /\ current' = current /\ fq' = fq /\ eof' = eof
      /\ lastLsn' = lastLsn
  BY DEF SpanRelease, At, free, log
<1>2. /\ b # None /\ OnQueue(b) /\ lbb[b].current /\ lbb[b].owner = s
      /\ sess[s].buf = current /\ ~OnQueue(current)
      /\ lbb[current].current /\ lbb[current].owner = s
  BY <1>1 DEF LogSound, SpansAlone
<1>3. /\ Members(wq) \subseteq Buffers /\ current \in Buffers
      /\ sess \in [Sessions -> CallType] /\ sess[s] \in CallType
      /\ lbb \in [Buffers -> BufferType]
      /\ s \in Threads \ LogWriters
  BY ThreadsAssumption DEF LogSound, Shape, Members, Threads
<1>4. b \in Buffers /\ Placed(b) /\ b # current /\ lbb[b].page <= eof
  BY <1>2, <1>3 DEF OnQueue, Placed, LogSound, WithinLog
<1>5. /\ r \in CallType /\ r.pc = "place" /\ r.buf = sess[s].buf /\ r.last = sess[s].last
      /\ r.lwq = sess[s].lwq /\ r.wait = sess[s].wait
  BY <1>3 DEF CallType, Steps
<1>6. sess' = [sess EXCEPT ![s] = r]
  BY <1>1, <1>3
<1> HIDE DEF r
<1>7. sess'[s] = r /\ \A u \in Sessions \ {s} : sess'[u] = sess[u]
  BY <1>3, <1>6
<1>8. /\ PageStep(b) /\ lbb'[b].writers = lbb[b].writers
      /\ Members(wq') = Members(wq) \cup {b} /\ ~lbb'[b].current
  <2>1. Handled(s, b, lbb)
    BY <1>1, Zenon DEF Handled
  <2>2. \A u \in Threads : b \notin InHand(u)
    BY <1>2, NotInHand
  <2>3. lbb[b].needed => lbb[b].writers = 0
    BY <1>4 DEF LogSound, WritersApart
  <2> HIDE DEF b
  <2> QED
    BY <1>1, <1>3, <1>4, <2>1, <2>2, <2>3, PageQueued
<1>9. Members(wq') = Members(wq)
  BY <1>2, <1>8 DEF OnQueue
<1> HIDE DEF b
<1>10. /\ CurrentLast' /\ FreeApart'
       /\ \A x \in Members(wq') : lbb'[x].page <= eof
       /\ \A x \in Buffers : lbb'[x].current /\ (lbb'[x].first # 0 \/ lbb'[x].force)
                                => lbb'[x].page <= eof
       /\ \A x \in Buffers : /\ lbb'[x].page = lbb[x].page
                             /\ lbb'[x].first <= lastLsn /\ lbb'[x].last <= lastLsn
                             /\ lbb'[x].forced <= lastLsn
  BY <1>4, <1>8, PageStepPages
<1>11. Ascending' /\ WritersApart' /\ \A x \in Buffers \ {b} : lbb'[x] = lbb[x]
  BY <1>8 DEF PageStep
<1>12. sess' \in [Sessions -> CallType]
  BY <1>3, <1>5, <1>6
<1>13. Shape'
  BY <1>8, <1>12 DEF LogSound, Shape, PageStep
<1>14. LsnsGiven'
  BY <1>1, <1>5, <1>7, <1>10 DEF LogSound, LsnsGiven
<1>15. WithinLog'
  <2>1. ASSUME NEW u \in Sessions, sess'[u].pc \in {"release", "place", "copy"}
        PROVE  sess'[u].buf # None /\ lbb'[sess'[u].buf].page <= eof
    <3>1. sess'[u].buf = sess[u].buf /\ sess[u].pc \in {"release", "place", "copy"}
      BY <1>1, <1>5, <1>7, <2>1
    <3>2. sess[u].buf # None /\ lbb[sess[u].buf].page <= eof
      BY <3>1 DEF LogSound, WithinLog
    <3>3. sess[u].buf \in Buffers
      BY <3>2 DEF LogSound, Shape, CallType
    <3> QED
      BY <1>10, <3>1, <3>2, <3>3
  <2> QED
    BY <1>1, <1>10, <2>1 DEF WithinLog
<1>16. SpansAlone'
  <2>1. ASSUME NEW u \in Sessions, sess'[u].pc \in {"span", "release"}
        PROVE  /\ sess'[u].head # None
               /\ sess'[u].head \in Members(wq') /\ lbb'[sess'[u].head].current
               /\ lbb'[sess'[u].head].owner = u
               /\ sess'[u].pc = "span" => sess'[u].head = current
    <3>1. u # s /\ sess'[u] = sess[u]
      BY <1>5, <1>7, <2>1
    <3>2. /\ sess[u].head # None /\ OnQueue(sess[u].head) /\ lbb[sess[u].head].current
          /\ lbb[sess[u].head].owner = u
          /\ sess[u].pc = "span" => sess[u].head = current
      BY <2>1, <3>1 DEF LogSound, SpansAlone
    <3>3. sess[u].head \in Buffers \ {b}
      BY <1>2, <1>3, <3>1, <3>2 DEF OnQueue
    <3> QED
      BY <1>9, <1>11, <3>1, <3>2, <3>3 DEF OnQueue
  <2>2. ASSUME NEW u \in Sessions, sess'[u].pc \in {"release", "place"}
        PROVE  /\ sess'[u].buf = current /\ current \notin Members(wq')
               /\ lbb'[current].current /\ lbb'[current].owner = u
    <3>1. sess'[u].buf = sess[u].buf /\ sess[u].pc \in {"release", "place"}
      BY <1>1, <1>5, <1>7, <2>2
    <3>2. /\ sess[u].buf = current /\ ~OnQueue(current)
          /\ lbb[current].current /\ lbb[current].owner = u
      BY <3>1 DEF LogSound, SpansAlone
    <3> QED
      BY <1>3, <1>4, <1>9, <1>11, <3>1, <3>2 DEF OnQueue
  <2>3. ASSUME NEW x \in Buffers, lbb'[x].current, x \in Members(wq')
        PROVE  \E u \in Sessions : /\ sess'[u].pc \in {"span", "release"}
                                   /\ sess'[u].head = x /\ lbb'[x].owner = u
    <3>1. x # b /\ lbb[x].current /\ OnQueue(x)
      BY <1>8, <1>9, <1>11, <2>3 DEF OnQueue
    <3>2. PICK u \in Sessions : /\ sess[u].pc \in {"span", "release"}
                                /\ sess[u].head = x /\ lbb[x].owner = u
      BY <3>1 DEF LogSound, SpansAlone
    <3>3. u # s
      BY <3>1, <3>2 DEF b
    <3> QED
      BY <1>7, <1>11, <3>1, <3>2, <3>3
  <2> QED
    BY <1>1, <2>1, <2>2, <2>3 DEF SpansAlone, OnQueue
<1>17. CopiersCounted'
  <2>1. \A x \in Buffers : Copiers(x)' = Copiers(x)
    BY <1>1, <1>5, <1>7 DEF Copiers
  <2>2. \A x \in Buffers : lbb'[x].writers = lbb[x].writers
    BY <1>8, <1>11
  <2>3. ASSUME NEW u \in Sessions, sess'[u].pc = "copy"
        PROVE  \/ sess'[u].buf \in Members(wq')
               \/ sess'[u].buf = current /\ lbb'[current].current
    <3>1. sess'[u] = sess[u]
      BY <1>5, <1>7, <2>3
    <3>2. \/ OnQueue(sess[u].buf)
          \/ sess[u].buf = current /\ lbb[current].current
      BY <2>3, <3>1 DEF LogSound, CopiersCounted
    <3> QED
      BY <1>3, <1>4, <1>9, <1>11, <3>1, <3>2 DEF OnQueue
  <2> QED
    BY <1>1, <2>1, <2>2, <2>3 DEF LogSound, CopiersCounted, OnQueue
<1>18. WaitersPlaced'
  <2>1. SUFFICES ASSUME NEW u \in Sessions, sess'[u].lwq # None
                 PROVE  /\ sess'[u].wait /\ sess'[u].pc \in {"wake", "return", "idle"}
                        /\ \/ sess'[u].lwq \in Members(wq')
                           \/ sess'[u].lwq = current /\ lbb'[current].current
    BY <1>1 DEF WaitersPlaced, OnQueue
  <2>2. u # s
    BY <1>1, <1>5, <1>7, <2>1 DEF LogSound, WaitersPlaced
  <2>3. sess'[u] = sess[u]
    BY <1>7, <2>2
  <2>4. /\ sess[u].wait /\ sess[u].pc \in {"wake", "return", "idle"}
        /\ \/ OnQueue(sess[u].lwq)
           \/ sess[u].lwq = current /\ lbb[current].current
    BY <2>1, <2>3 DEF LogSound, WaitersPlaced
  <2> QED
    BY <1>3, <1>4, <1>9, <1>11, <2>3, <2>4 DEF OnQueue
<1>19. PagesMove
  BY <1>4, <1>8 DEF PagesMove
<1> QED
  BY <1>19, <1>10, <1>11, <1>13, <1>14, <1>15, <1>16, <1>17, <1>18 DEF LogSound

-------------------------------------------------------------------------------
(* A buffer from the free queue.                                           *)

LEMMA FreeUnused ==
  ASSUME LogSound, NEW b \in fq
  PROVE  /\ b \in Buffers /\ ~OnQueue(b) /\ ~lbb[b].current
         /\ \A t \in Threads : b \notin InHand(t) /\ b \notin io[t].freed
         /\ Copiers(b) = {}
         /\ \A u \in Sessions : /\ sess[u].pc \in {"release", "place", "copy"}
                                      => sess[u].buf # b
                                /\ sess[u].pc \in {"span", "release"} => sess[u].head # b
                                /\ sess[u].lwq # b
<1>1. b \in Buffers /\ ~OnQueue(b) /\ ~lbb[b].current
  BY DEF LogSound, Shape, FreeApart
<1>2. \A t \in Threads : b \notin InHand(t)
  BY <1>1 DEF LogSound, WritersApart
<1>3. \A t \in Threads : b \notin io[t].freed
  BY DEF LogSound, FreeApart
<1>4. \A u \in Sessions : sess[u].pc = "copy" => sess[u].buf # b
  BY <1>1 DEF LogSound, CopiersCounted
<1>5. Copiers(b) = {}
  BY <1>4 DEF Copiers
<1>6. \A u \in Sessions : sess[u].pc \in {"release", "place"} => sess[u].buf # b
  BY <1>1 DEF LogSound, SpansAlone
<1>7. \A u \in Sessions : sess[u].pc \in {"span", "release"} => sess[u].head # b
  BY <1>1 DEF LogSound, SpansAlone
<1>8. \A u \in Sessions : sess[u].lwq # b
  BY <1>1, ThreadsAssumption DEF LogSound, WaitersPlaced
<1> QED
  BY <1>1, <1>2, <1>3, <1>4, <1>5, <1>6, <1>7, <1>8

LEMMA AsleepCall ==
  ASSUME NEW r \in CallType
  PROVE  /\ Asleep(r) \in CallType /\ Asleep(r).pc = "sleep" /\ Asleep(r).last = r.last
         /\ Asleep(r).lwq = r.lwq
BY DEF Asleep, CallType, Steps

LEMMA LoggingSession ==
  ASSUME LogSound, NEW s \in Sessions, Logging(s)
  PROVE  /\ sess[s].pc \in {"log", "sleep"} /\ sess[s].lwq = None /\ io[s] = NoIo
         /\ sess[s] \in CallType /\ sess[s].last <= lastLsn
<1>1. sess[s].pc \in {"log", "sleep"} /\ io[s] = NoIo
  BY DEF Logging, At
<1>2. sess[s].lwq = None
  BY <1>1 DEF LogSound, WaitersPlaced
<1> QED
  BY <1>1, <1>2 DEF LogSound, LsnsGiven, Shape

LEMMA AllocateSound ==
  ASSUME LogSound, NEW s \in Sessions, Allocate(s)
  PROVE  LogSound'
<1>1. /\ sess[s].pc \in {"log", "sleep"} /\ sess[s].lwq = None
      /\ sess[s] \in CallType /\ sess[s].last <= lastLsn
  BY LoggingSession DEF Allocate
<1>2. /\ ~lbb[current].current /\ setup' = setup /\ wq' = wq /\ lw' = lw /\ io' = io
      /\ eof' = eof /\ lastLsn' = lastLsn
  BY DEF Allocate, log
<1>3. sess \in [Sessions -> CallType] /\ lbb \in [Buffers -> BufferType] /\ eof \in Nat
      /\ Members(wq) \subseteq Buffers
  BY DEF LogSound, Shape, Members
<1>4. CASE sess' = [sess EXCEPT ![s] = Asleep(@)] /\ UNCHANGED <<lbb, current, free>>
  <2> DEFINE r == Asleep(sess[s])
  <2>1. r \in CallType /\ r.pc = "sleep" /\ r.last = sess[s].last /\ r.lwq = sess[s].lwq
    BY <1>1, AsleepCall
  <2>2. sess' = [sess EXCEPT ![s] = r]
    BY <1>3, <1>4
  <2> HIDE DEF r
  <2>3. sess'[s] = r /\ \A t \in Sessions \ {s} : sess'[t] = sess[t]
    BY <1>3, <2>2
  <2>4. OnlySession(s)
    BY <1>1, <1>2, <1>3, <1>4, <2>1, <2>2, <2>3 DEF OnlySession, free
  <2>5. MayWait(s)
    BY <1>1, <2>1, <2>3 DEF MayWait
  <2> QED
    BY <1>1, <2>1, <2>3, <2>4, <2>5, SessionStep DEF Busy
<1>5. ASSUME NEW b \in fq,
             lbb' = [lbb EXCEPT ![b] = [Fresh(eof + 1) EXCEPT
                                          !.current = TRUE, !.owner = s]],
             current' = b, fq' = fq \ {b},
             sess' = [sess EXCEPT ![s].pc = "log", ![s].cs = FALSE]
      PROVE  LogSound'
  <2> DEFINE M == [Fresh(eof + 1) EXCEPT !.current = TRUE, !.owner = s]
             r == [sess[s] EXCEPT !.pc = "log", !.cs = FALSE]
  <2>1. /\ b \in Buffers /\ ~OnQueue(b) /\ ~lbb[b].current
        /\ \A t \in Threads : b \notin InHand(t) /\ b \notin io[t].freed
        /\ Copiers(b) = {}
        /\ \A u \in Sessions : /\ sess[u].pc \in {"release", "place", "copy"}
                                     => sess[u].buf # b
                               /\ sess[u].pc \in {"span", "release"} => sess[u].head # b
                               /\ sess[u].lwq # b
    BY FreeUnused
  <2>2. eof + 1 \in Nat
    BY <1>3
  <2>3. /\ M \in BufferType /\ M.page = eof + 1 /\ M.first = 0 /\ M.last = 0
        /\ M.forced = 0 /\ M.writers = 0 /\ ~M.needed /\ M.current /\ ~M.force
        /\ M.owner = s
    <3> DEFINE F == Fresh(eof + 1)
    <3>1. /\ F \in BufferType /\ F.page = eof + 1
          /\ F.first = 0 /\ F.last = 0 /\ F.forced = 0
          /\ F.writers = 0 /\ ~F.needed /\ ~F.force
      BY <2>2, FreshPage
    <3> HIDE DEF F
    <3>2. LET x == [F EXCEPT !.current = TRUE, !.owner = s]
          IN  /\ x \in BufferType /\ x.page = F.page /\ x.first = F.first
              /\ x.last = F.last /\ x.forced = F.forced /\ x.writers = F.writers
              /\ x.needed = F.needed /\ x.current /\ x.force = F.force /\ x.owner = s
      BY <3>1 DEF BufferType
    <3> QED
      BY <3>1, <3>2 DEF F
  <2>4. /\ r \in CallType /\ r.pc = "log" /\ r.last = sess[s].last
        /\ r.lwq = sess[s].lwq
    BY <1>1 DEF CallType, Steps
  <2>5. sess' = [sess EXCEPT ![s] = r]
    BY <1>3, <1>5
  <2> HIDE DEF M, r
  <2>6. /\ lbb' \in [Buffers -> BufferType] /\ lbb'[b] = M
        /\ \A x \in Buffers \ {b} : lbb'[x] = lbb[x]
    BY <1>3, <1>5, <2>1, <2>3 DEF M
  <2>7. /\ sess' \in [Sessions -> CallType] /\ sess'[s] = r
        /\ \A u \in Sessions \ {s} : sess'[u] = sess[u]
    BY <1>3, <2>4, <2>5
  <2>8. \A u \in Sessions : sess[u].pc \notin {"span", "release", "place"}
    BY <1>2 DEF LogSound, SpansAlone
  <2>9. \A u \in Sessions : /\ sess'[u].pc \notin {"span", "release", "place"}
                            /\ sess'[u].pc = "copy" => sess'[u] = sess[u]
    BY <2>4, <2>7, <2>8
  <2>10. Shape'
    BY <1>2, <1>5, <2>1, <2>6, <2>7 DEF LogSound, Shape
  <2>11. LsnsGiven'
    <3>1. lastLsn \in Nat
      BY DEF LogSound, Shape
    <3> QED
      BY <1>2, <2>3, <2>4, <2>6, <2>7, <3>1 DEF LogSound, LsnsGiven
  <2>12. Ascending'
    <3>1. \A x \in Members(wq) : lbb'[x].page = lbb[x].page
      BY <1>3, <2>1, <2>6 DEF OnQueue
    <3> QED
      BY <1>2, <3>1, StaysAscending DEF LogSound
  <2>13. WithinLog'
    <3>1. \A x \in Members(wq) : lbb'[x].page <= eof
      BY <1>3, <2>1, <2>6 DEF OnQueue, LogSound, WithinLog
    <3>2. \A x \in Buffers : lbb'[x].current /\ (lbb'[x].first # 0 \/ lbb'[x].force)
                                => lbb'[x].page <= eof
      BY <2>3, <2>6 DEF LogSound, WithinLog
    <3>3. ASSUME NEW u \in Sessions, sess'[u].pc = "copy"
          PROVE  sess'[u].buf # None /\ lbb'[sess'[u].buf].page <= eof
      <4>1. sess'[u] = sess[u] /\ sess[u].buf # None /\ lbb[sess[u].buf].page <= eof
        BY <2>9, <3>3 DEF LogSound, WithinLog
      <4>2. sess[u].buf \in Buffers \ {b}
        BY <2>1, <3>3, <4>1 DEF LogSound, Shape, CallType
      <4> QED
        BY <2>6, <4>1, <4>2
    <3> QED
      BY <1>2, <2>9, <3>1, <3>2, <3>3 DEF WithinLog
  <2>14. CurrentLast'
    <3>1. \A x \in Members(wq) : lbb'[x].page \in Nat /\ lbb'[x].page <= eof
      BY <1>3, <2>1, <2>6 DEF OnQueue, LogSound, WithinLog, BufferType
    <3>2. lbb'[b].page = eof + 1
      BY <2>3, <2>6
    <3>3. eof <= lbb'[b].page /\ \A x \in Members(wq) : lbb'[x].page < lbb'[b].page
      BY <1>3, <3>1, <3>2
    <3> QED
      BY <1>2, <1>5, <3>3 DEF CurrentLast
  <2>15. SpansAlone'
    <3>1. ASSUME NEW x \in Buffers, lbb'[x].current, x \in Members(wq') PROVE FALSE
      <4>1. x # b /\ OnQueue(x) /\ lbb[x].current
        BY <1>2, <2>1, <2>6, <3>1 DEF OnQueue
      <4> QED
        BY <2>8, <4>1 DEF LogSound, SpansAlone
    <3> QED
      BY <2>9, <3>1 DEF SpansAlone, OnQueue
  <2>16. FreeApart'
    <3>1. \A t \in Threads : io[t].freed \subseteq Buffers /\ fq \subseteq Buffers
      BY DEF LogSound, Shape, IoType
    <3> QED
      BY <1>2, <1>5, <2>1, <2>6, <3>1 DEF LogSound, FreeApart, OnQueue
  <2>17. WritersApart'
    <3>1. \A t \in Threads : InHand(t)' = InHand(t)
      BY <1>2 DEF InHand
    <3>2. \A t \in Threads : \A x \in InHand(t)' :
            x \in Members(wq') /\ lbb'[x].taken /\ lbb'[x].writers = 0 /\ ~lbb'[x].current
      BY <1>2, <1>3, <2>1, <2>6, <3>1 DEF LogSound, WritersApart, OnQueue
    <3>3. \A x \in Buffers : lbb'[x].needed => lbb'[x].writers = 0 /\ ~lbb'[x].current
      BY <2>3, <2>6 DEF LogSound, WritersApart
    <3> QED
      BY <1>2, <3>1, <3>2, <3>3 DEF LogSound, WritersApart, OnQueue
  <2>18. CopiersCounted'
    <3>1. \A x \in Buffers : Copiers(x)' = Copiers(x)
      BY <1>1, <2>4, <2>7 DEF Copiers
    <3>2. \A x \in Buffers : lbb'[x].writers = Cardinality(Copiers(x))
      <4>1. Cardinality({}) = 0
        BY FS_EmptySet
      <4> QED
        <5>1. \A x \in Buffers \ {b} : lbb'[x].writers = Cardinality(Copiers(x))
          BY <2>6 DEF LogSound, CopiersCounted
        <5>2. lbb'[b].writers = Cardinality(Copiers(b))
          BY <2>1, <2>3, <2>6, <4>1
        <5> QED
          BY <5>1, <5>2
    <3>3. \A u \in Sessions : sess'[u].pc = "copy" => sess'[u].buf \in Members(wq')
      BY <1>2, <2>9 DEF LogSound, CopiersCounted, OnQueue
    <3> QED
      BY <3>1, <3>2, <3>3 DEF CopiersCounted, OnQueue
  <2>19. WaitersPlaced'
    <3>1. SUFFICES ASSUME NEW u \in Sessions, sess'[u].lwq # None
                   PROVE  /\ sess'[u].wait /\ sess'[u].pc \in {"wake", "return", "idle"}
                          /\ sess'[u].lwq \in Members(wq')
      BY DEF WaitersPlaced, OnQueue
    <3>2. u # s /\ sess'[u] = sess[u]
      BY <1>1, <2>4, <2>7, <3>1
    <3> QED
      BY <1>2, <3>1, <3>2 DEF LogSound, WaitersPlaced, OnQueue
  <2> QED
    BY <2>10, <2>11, <2>12, <2>13, <2>14, <2>15, <2>16, <2>17, <2>18, <2>19 DEF LogSound
<1> QED
  BY <1>4, <1>5 DEF Allocate

-------------------------------------------------------------------------------
(* A record enters the current page.                                       *)

(* Session s alone is at the current page, which is not queued yet: it     *)
(* leaves it, or copies into it, or begins to span.                        *)
CurrentStep(s) ==
  /\ sess' \in [Sessions -> CallType]
  /\ \A u \in Sessions \ {s} : sess'[u] = sess[u]
  /\ sess'[s].pc \in {"sleep", "copy", "span"} /\ sess'[s].lwq = None
  /\ sess'[s].last <= lastLsn'
  /\ sess'[s].pc = "copy" => sess'[s].buf = current
  /\ lbb' \in [Buffers -> BufferType]
  /\ \A x \in Buffers \ {current} : lbb'[x] = lbb[x]
  /\ lbb'[current].page = lbb[current].page
  /\ lbb'[current].first <= lastLsn' /\ lbb'[current].last <= lastLsn'
  /\ lbb'[current].forced <= lastLsn'
  /\ lbb'[current].needed = lbb[current].needed
  /\ \/ wq' = wq /\ lbb'[current].current /\ sess'[s].pc # "span"
     \/ /\ wq' = Enqueue(current) /\ lbb[current].page <= eof'
        /\ \/ ~lbb'[current].current /\ sess'[s].pc # "span"
           \/ /\ sess'[s].pc = "span" /\ sess'[s].head = current
              /\ lbb'[current].current /\ lbb'[current].owner = s
  /\ (\/ lbb'[current].first # 0
      \/ lbb'[current].force
      \/ sess'[s].pc = "copy") => lbb[current].page <= eof'
  /\ lastLsn' \in Nat /\ lastLsn <= lastLsn'
  /\ eof' \in Nat /\ eof <= eof' /\ eof' <= lbb[current].page
  /\ setup' = setup /\ current' = current /\ fq' = fq /\ io' = io /\ lw' = lw

LEMMA CurrentStepSound ==
  ASSUME LogSound, NEW s \in Sessions, CurrentStep(s),
         lbb[current].current, ~OnQueue(current),
         sess[s].pc \notin {"span", "release"},
         \A u \in Sessions \ {s} : sess[u].pc \notin {"span", "release", "place"},
         \A x \in Buffers : lbb'[x].writers = Cardinality(Copiers(x)')
  PROVE  LogSound'
<1>1. /\ Members(wq) \subseteq Buffers /\ current \in Buffers
      /\ lbb \in [Buffers -> BufferType] /\ io \in [Threads -> IoType]
      /\ wq \in Seq(Buffers)
  BY DEF LogSound, Shape, Members
<1>2. /\ wq' \in Seq(Buffers)
      /\ Members(wq') = Members(wq) \/ Members(wq') = Members(wq) \cup {current}
  BY <1>1, EnqueueQueue DEF CurrentStep
<1>3. /\ \A x \in Buffers \ {current} : lbb'[x] = lbb[x]
      /\ lbb'[current].page = lbb[current].page
  BY DEF CurrentStep
<1>4. \A x \in Members(wq) : x # current /\ x \in Buffers
  BY <1>1 DEF OnQueue
<1>5. \A u \in Sessions \ {s} :
         sess'[u] = sess[u] /\ sess'[u].pc \notin {"span", "release", "place"}
  BY DEF CurrentStep
<1>6. /\ setup' = setup /\ current' = current /\ fq' = fq /\ io' = io /\ lw' = lw
      /\ lastLsn' \in Nat /\ lastLsn <= lastLsn' /\ eof' \in Nat /\ eof <= eof'
      /\ eof' <= lbb[current].page /\ eof \in Nat /\ lastLsn \in Nat
  BY DEF CurrentStep, LogSound, Shape
<1>7. /\ sess'[s].pc \in {"sleep", "copy", "span"} /\ sess'[s].lwq = None
      /\ sess'[s].last <= lastLsn'
      /\ sess'[s].pc = "copy" => sess'[s].buf = current
  BY DEF CurrentStep
<1>8. \/ current \in Members(wq') 
      \/ wq' = wq /\ lbb'[current].current
  BY <1>1, EnqueueQueue DEF CurrentStep
<1>9. Shape'
  BY <1>2, <1>6 DEF LogSound, Shape, CurrentStep
<1>10. LsnsGiven'
  <2>1. /\ lbb'[current].first <= lastLsn' /\ lbb'[current].last <= lastLsn'
        /\ lbb'[current].forced <= lastLsn'
    BY DEF CurrentStep
  <2>2. \A x \in Buffers : /\ lbb[x].first \in Nat /\ lbb[x].last \in Nat
                           /\ lbb[x].forced \in Nat
    BY <1>1 DEF BufferType
  <2>3. \A x \in Buffers : /\ lbb'[x].first <= lastLsn' /\ lbb'[x].last <= lastLsn'
                           /\ lbb'[x].forced <= lastLsn'
    BY <1>3, <1>6, <2>1, <2>2 DEF LogSound, LsnsGiven
  <2>4. \A u \in Sessions : sess'[u].last <= lastLsn'
    <3>1. \A u \in Sessions : sess[u].last \in Nat
      BY DEF LogSound, Shape, CallType
    <3> QED
      BY <1>5, <1>6, <1>7, <3>1 DEF LogSound, LsnsGiven
  <2> QED
    BY <2>3, <2>4 DEF LsnsGiven
<1>11. Ascending'
  <2>1. \A x \in Members(wq) : lbb'[x].page = lbb[x].page
    BY <1>3, <1>4
  <2>2. \A x \in Members(wq) : lbb[x].page < lbb'[current].page
    BY <1>3 DEF LogSound, CurrentLast, CurrentStep
  <2>3. CASE wq' = wq
    BY <2>1, <2>3, StaysAscending DEF LogSound
  <2>4. CASE wq' = Enqueue(current)
    BY <1>1, <2>1, <2>2, <2>4, EnqueueAscends DEF LogSound
  <2> QED
    BY <2>3, <2>4 DEF CurrentStep
<1>12. WithinLog'
  <2>1. \A x \in Buffers : lbb[x].page \in Nat
    BY <1>1 DEF BufferType
  <2>2. \A x \in Members(wq) : lbb'[x].page <= eof'
    BY <1>3, <1>4, <1>6, <2>1 DEF LogSound, WithinLog
  <2>3. current \in Members(wq') => lbb'[current].page <= eof'
    <3>1. current \in Members(wq') => wq' # wq
      BY DEF OnQueue
    <3> QED
      BY <3>1 DEF CurrentStep
  <2>4. \A x \in Buffers : lbb'[x].current /\ (lbb'[x].first # 0 \/ lbb'[x].force)
                              => lbb'[x].page <= eof'
    <3>1. ASSUME NEW x \in Buffers \ {current},
                 lbb'[x].current /\ (lbb'[x].first # 0 \/ lbb'[x].force)
          PROVE  lbb'[x].page <= eof'
      BY <1>3, <1>6, <2>1, <3>1 DEF LogSound, WithinLog
    <3>2. lbb'[current].first # 0 \/ lbb'[current].force => lbb'[current].page <= eof'
      BY DEF CurrentStep
    <3> QED
      BY <3>1, <3>2
  <2>5. ASSUME NEW u \in Sessions, sess'[u].pc \in {"release", "place", "copy"}
        PROVE  sess'[u].buf # None /\ lbb'[sess'[u].buf].page <= eof'
    <3>1. CASE u = s
      <4>1. sess'[s].buf = current /\ lbb'[current].page <= eof'
        BY <1>7, <2>5, <3>1 DEF CurrentStep
      <4> QED
        BY <1>1, <3>1, <4>1, ThreadsAssumption
    <3>2. CASE u # s
      <4>1. sess'[u] = sess[u] /\ sess[u].pc = "copy"
        BY <1>5, <2>5, <3>2
      <4>2. sess[u].buf # None /\ lbb[sess[u].buf].page <= eof
        BY <4>1 DEF LogSound, WithinLog
      <4>3. sess[u].buf \in Buffers
        BY <4>2 DEF LogSound, Shape, CallType
      <4>4. lbb'[sess[u].buf].page = lbb[sess[u].buf].page
        BY <1>3, <4>3
      <4> QED
        BY <1>6, <2>1, <4>1, <4>2, <4>3, <4>4
    <3> QED
      BY <3>1, <3>2
  <2> QED
    BY <1>2, <2>2, <2>3, <2>4, <2>5 DEF WithinLog
<1>13. CurrentLast'
  <2>1. SUFFICES ASSUME current \notin Members(wq')
                 PROVE  /\ eof' <= lbb'[current].page
                        /\ \A x \in Members(wq') : lbb'[x].page < lbb'[current].page
    BY <1>6 DEF CurrentLast, OnQueue
  <2>2. wq' = wq
    BY <1>8, <2>1
  <2> QED
    BY <1>3, <1>4, <1>6, <2>2 DEF LogSound, CurrentLast
<1>14. SpansAlone'
  <2>1. ASSUME NEW u \in Sessions, sess'[u].pc \in {"span", "release"}
        PROVE  /\ sess'[u].head # None
               /\ sess'[u].head \in Members(wq') /\ lbb'[sess'[u].head].current
               /\ lbb'[sess'[u].head].owner = u
               /\ sess'[u].pc = "span" => sess'[u].head = current
    <3>1. u = s /\ sess'[s].pc = "span"
      BY <1>5, <1>7, <2>1
    <3>2. /\ wq' = Enqueue(current) /\ sess'[s].head = current
          /\ lbb'[current].current /\ lbb'[current].owner = s
      BY <3>1 DEF CurrentStep
    <3>3. current \in Members(wq')
      BY <1>1, <3>2, EnqueueQueue
    <3> QED
      BY <1>1, <3>1, <3>2, <3>3, ThreadsAssumption
  <2>2. \A u \in Sessions : sess'[u].pc \notin {"release", "place"}
    BY <1>5, <1>7
  <2>3. ASSUME NEW x \in Buffers, lbb'[x].current, x \in Members(wq')
        PROVE  \E u \in Sessions : /\ sess'[u].pc \in {"span", "release"}
                                   /\ sess'[u].head = x /\ lbb'[x].owner = u
    <3>1. CASE x = current
      <4>1. wq' # wq
        BY <2>3, <3>1 DEF OnQueue
      <4> QED
        BY <2>3, <3>1, <4>1 DEF CurrentStep
    <3>2. CASE x # current
      <4>1. OnQueue(x) /\ lbb[x].current
        BY <1>2, <1>3, <2>3, <3>2 DEF OnQueue
      <4>2. PICK u \in Sessions : sess[u].pc \in {"span", "release"}
        BY <4>1 DEF LogSound, SpansAlone
      <4> QED
        BY <4>2
    <3> QED
      BY <3>1, <3>2
  <2> QED
    BY <1>6, <2>1, <2>2, <2>3 DEF SpansAlone, OnQueue
<1>15. FreeApart'
  <2>1. current \notin fq /\ \A t \in Threads : current \notin io[t].freed
    BY DEF LogSound, FreeApart
  <2>2. fq \subseteq Buffers /\ \A t \in Threads : io[t].freed \subseteq Buffers
    BY <1>1 DEF LogSound, Shape, IoType
  <2>3. \A x \in fq' : x \notin Members(wq') /\ ~lbb'[x].current
    BY <1>2, <1>3, <1>6, <2>1, <2>2 DEF LogSound, FreeApart, OnQueue
  <2>4. \A t \in Threads : \A x \in io'[t].freed :
          x \notin Members(wq') /\ ~lbb'[x].current /\ x \notin fq'
    BY <1>2, <1>3, <1>6, <2>1, <2>2 DEF LogSound, FreeApart, OnQueue
  <2> QED
    BY <1>6, <2>3, <2>4 DEF LogSound, FreeApart, OnQueue
<1>16. WritersApart'
  <2>1. \A t \in Threads : InHand(t)' = InHand(t)
    BY <1>6 DEF InHand
  <2>2. \A t \in Threads : \A x \in InHand(t) : x \in Buffers \ {current}
    BY <1>4 DEF LogSound, WritersApart, OnQueue
  <2>3. \A t \in Threads : \A x \in InHand(t)' :
          x \in Members(wq') /\ lbb'[x].taken /\ lbb'[x].writers = 0 /\ ~lbb'[x].current
    BY <1>2, <1>3, <2>1, <2>2 DEF LogSound, WritersApart, OnQueue
  <2>4. \A x \in Buffers : lbb'[x].needed => lbb'[x].writers = 0 /\ ~lbb'[x].current
    <3>1. ~lbb'[current].needed
      BY <1>1 DEF LogSound, WritersApart, CurrentStep
    <3> QED
      BY <1>3, <3>1 DEF LogSound, WritersApart
  <2> QED
    BY <1>6, <2>1, <2>3, <2>4 DEF LogSound, WritersApart, OnQueue
<1>17. CopiersCounted'
  <2>1. ASSUME NEW u \in Sessions, sess'[u].pc = "copy"
        PROVE  \/ sess'[u].buf \in Members(wq')
               \/ sess'[u].buf = current /\ lbb'[current].current
    <3>1. CASE u = s
      BY <1>7, <1>8, <2>1, <3>1
    <3>2. CASE u # s
      <4>1. sess'[u] = sess[u]
        BY <1>5, <3>2
      <4>2. \/ OnQueue(sess[u].buf)
            \/ sess[u].buf = current /\ lbb[current].current
        BY <2>1, <4>1 DEF LogSound, CopiersCounted
      <4> QED
        BY <1>2, <1>8, <4>1, <4>2 DEF OnQueue
    <3> QED
      BY <3>1, <3>2
  <2> QED
    BY <1>6, <2>1 DEF CopiersCounted, OnQueue
<1>18. WaitersPlaced'
  <2>1. SUFFICES ASSUME NEW u \in Sessions, sess'[u].lwq # None
                 PROVE  /\ sess'[u].wait /\ sess'[u].pc \in {"wake", "return", "idle"}
                        /\ \/ sess'[u].lwq \in Members(wq')
                           \/ sess'[u].lwq = current /\ lbb'[current].current
    BY <1>6 DEF WaitersPlaced, OnQueue
  <2>2. sess'[u] = sess[u]
    BY <1>5, <1>7, <2>1
  <2>3. /\ sess[u].wait /\ sess[u].pc \in {"wake", "return", "idle"}
        /\ \/ OnQueue(sess[u].lwq)
           \/ sess[u].lwq = current /\ lbb[current].current
    BY <2>1, <2>2 DEF LogSound, WaitersPlaced
  <2> QED
    BY <1>2, <1>8, <2>2, <2>3 DEF OnQueue
<1> QED
  BY <1>9, <1>10, <1>11, <1>12, <1>13, <1>14, <1>15, <1>16, <1>17, <1>18 DEF LogSound

(* Whoever may enter the current page finds no other session that spans.   *)
LEMMA NobodySpans ==
  ASSUME LogSound, NEW s \in Sessions, lbb[current].current,
         Free(current, s), sess[s].pc \notin {"span", "release"}
  PROVE  /\ ~OnQueue(current)
         /\ \A u \in Sessions \ {s} : sess[u].pc \notin {"span", "release", "place"}
<1>1. current \in Buffers /\ lbb[current].owner \in {None, s}
  BY DEF LogSound, Shape, Free
<1>2. ~OnQueue(current)
  BY <1>1, ThreadsAssumption DEF LogSound, SpansAlone
<1>3. ASSUME NEW u \in Sessions \ {s}, sess[u].pc \in {"span", "release", "place"}
      PROVE  FALSE
  <2>1. CASE sess[u].pc = "span"
    BY <1>2, <2>1 DEF LogSound, SpansAlone
  <2>2. CASE sess[u].pc \in {"release", "place"}
    BY <1>1, <2>2, ThreadsAssumption DEF LogSound, SpansAlone
  <2> QED
    BY <1>3, <2>1, <2>2
<1> QED
  BY <1>2, <1>3

LEMMA LoggedCall ==
  ASSUME NEW r \in CallType, NEW lsn \in Nat
  PROVE  /\ Logged(r, lsn) \in CallType
         /\ Logged(r, lsn).last = lsn /\ Logged(r, lsn).lwq = r.lwq
<1> DEFINE f == IF r.first = 0 THEN lsn ELSE r.first
           t == IF r.kind = "plain" THEN 0 ELSE lsn
<1>1. f \in Nat /\ t \in Nat
  BY DEF CallType
<1>2. Logged(r, lsn) =
        [r EXCEPT !.first = f, !.last = lsn, !.cs = FALSE, !.target = t]
  BY DEF Logged
<1> HIDE DEF f, t
<1>3. LET x == [r EXCEPT !.first = f, !.last = lsn, !.cs = FALSE, !.target = t]
      IN  x \in CallType /\ x.last = lsn /\ x.lwq = r.lwq
  BY <1>1 DEF CallType
<1> QED
  BY <1>2, <1>3

LEMMA StampedPage ==
  ASSUME NEW r \in BufferType, NEW lsn \in Nat
  PROVE  LET x == Stamped(r, lsn)
         IN  /\ x \in BufferType /\ x.page = r.page /\ x.first \in {r.first, lsn}
             /\ x.last = lsn /\ x.forced = r.forced /\ x.writers = r.writers
             /\ x.needed = r.needed /\ x.current = r.current /\ x.force = r.force
             /\ x.owner = r.owner
<1> DEFINE f == IF r.first = 0 THEN lsn ELSE r.first
<1>1. f \in Nat /\ f \in {r.first, lsn}
  BY DEF BufferType
<1>2. Stamped(r, lsn) = [r EXCEPT !.first = f, !.last = lsn]
  BY DEF Stamped
<1> HIDE DEF f
<1>3. LET x == [r EXCEPT !.first = f, !.last = lsn]
      IN  /\ x \in BufferType /\ x.page = r.page /\ x.first = f
          /\ x.last = lsn /\ x.forced = r.forced /\ x.writers = r.writers
          /\ x.needed = r.needed /\ x.current = r.current /\ x.force = r.force
          /\ x.owner = r.owner
  BY <1>1 DEF BufferType
<1> QED
  BY <1>1, <1>2, <1>3

LEMMA EnteredPage ==
  ASSUME NEW r \in BufferType, NEW full \in BOOLEAN
  PROVE  LET x == Entered(r, full)
         IN  /\ x \in BufferType /\ x.page = r.page /\ x.first = r.first
             /\ x.last = r.last /\ x.forced = r.forced
             /\ x.writers = r.writers + 1
             /\ x.needed = r.needed /\ x.current = ~full /\ x.owner = None
<1> DEFINE m == r.writers + 1
           c == ~full
           f == r.force /\ ~full
<1>1. m \in Nat /\ c \in BOOLEAN /\ f \in BOOLEAN
  BY DEF BufferType
<1>2. Entered(r, full) =
        [r EXCEPT !.writers = m, !.owner = None, !.current = c, !.force = f]
  BY DEF Entered
<1> HIDE DEF m, c, f
<1>3. LET x == [r EXCEPT !.writers = m, !.owner = None, !.current = c, !.force = f]
      IN  /\ x \in BufferType /\ x.page = r.page /\ x.first = r.first
          /\ x.last = r.last /\ x.forced = r.forced /\ x.writers = m
          /\ x.needed = r.needed /\ x.current = c /\ x.owner = None
  BY <1>1 DEF BufferType
<1> QED
  BY <1>2, <1>3 DEF m, c

(* Session s begins to copy into b.                                        *)
LEMMA CopierEnters ==
  ASSUME LogSound, NEW s \in Sessions, sess[s].pc # "copy", NEW b \in Buffers,
         sess'[s].pc = "copy", sess'[s].buf = b,
         \A u \in Sessions \ {s} : sess'[u] = sess[u],
         lbb'[b].writers = lbb[b].writers + 1,
         \A x \in Buffers \ {b} : lbb'[x].writers = lbb[x].writers
  PROVE  \A x \in Buffers : lbb'[x].writers = Cardinality(Copiers(x)')
<1>1. \A x \in Buffers \ {b} : Copiers(x)' = Copiers(x)
  BY DEF Copiers
<1>2. Copiers(b)' = Copiers(b) \cup {s} /\ s \notin Copiers(b)
  BY DEF Copiers
<1>3. IsFiniteSet(Copiers(b))
  <2>1. Copiers(b) \subseteq Sessions
    BY DEF Copiers
  <2> QED
    BY <2>1, ThreadsAssumption, FS_Subset
<1>4. Cardinality(Copiers(b) \cup {s}) = Cardinality(Copiers(b)) + 1
  BY <1>2, <1>3, FS_AddElement
<1>5. \A x \in Buffers : lbb[x].writers = Cardinality(Copiers(x))
  BY DEF LogSound, CopiersCounted
<1>6. lbb'[b].writers = Cardinality(Copiers(b)')
  BY <1>2, <1>4, <1>5
<1>7. \A x \in Buffers \ {b} : lbb'[x].writers = Cardinality(Copiers(x)')
  BY <1>1, <1>5
<1> QED
  BY <1>6, <1>7

(* Nobody begins to copy, nor ends it.                                     *)
LEMMA CopiersKept ==
  ASSUME LogSound, NEW s \in Sessions, sess[s].pc # "copy", sess'[s].pc # "copy",
         \A u \in Sessions \ {s} : sess'[u] = sess[u],
         \A x \in Buffers : lbb'[x].writers = lbb[x].writers
  PROVE  \A x \in Buffers : lbb'[x].writers = Cardinality(Copiers(x)')
<1>1. \A x \in Buffers : Copiers(x)' = Copiers(x)
  BY DEF Copiers
<1> QED
  BY <1>1 DEF LogSound, CopiersCounted

LEMMA LogOnPageSound ==
  ASSUME LogSound, NEW s \in Sessions, LogOnPage(s)
  PROVE  /\ LogSound' /\ CurrentStep(s) /\ lbb[current].current /\ ~OnQueue(current)
         /\ \A u \in Sessions : sess[u].pc # "span"
         /\ sess'[s].pc = "copy" /\ sess'[s].last = lastLsn + 1
         /\ lastLsn' = lastLsn + 1 /\ eof' = lbb[current].page
         /\ lbb'[current].forced = lastLsn + 1
<1> DEFINE b   == current
           lsn == lastLsn + 1
           r   == [Logged(sess[s], lsn) EXCEPT !.pc = "copy", !.buf = current]
<1>1. /\ sess[s].pc \in {"log", "sleep"} /\ sess[s].lwq = None
      /\ sess[s] \in CallType
  BY LoggingSession DEF LogOnPage
<1>2. /\ ~OnQueue(current) /\ lbb[current].current
      /\ \A u \in Sessions \ {s} : sess[u].pc \notin {"span", "release", "place"}
  BY <1>1, NobodySpans DEF LogOnPage
<1>3. /\ sess \in [Sessions -> CallType] /\ lbb \in [Buffers -> BufferType]
      /\ eof \in Nat /\ lastLsn \in Nat /\ lsn \in Nat
      /\ current \in Buffers /\ lbb[current] \in BufferType
  BY DEF LogSound, Shape
<1>4. PICK full \in BOOLEAN :
        /\ lbb' = [lbb EXCEPT ![current] =
                      [Entered(Stamped(@, lsn), full) EXCEPT !.forced = lsn]]
        /\ wq' = IF full THEN Enqueue(current) ELSE wq
  BY DEF LogOnPage
<1>5. /\ lastLsn' = lsn /\ eof' = lbb[current].page /\ sess' = [sess EXCEPT ![s] = r]
      /\ setup' = setup /\ current' = current /\ fq' = fq /\ io' = io /\ lw' = lw
  BY <1>3 DEF LogOnPage, free
<1> DEFINE M == [Entered(Stamped(lbb[current], lsn), full) EXCEPT !.forced = lsn]
<1>6. /\ M \in BufferType /\ M.page = lbb[current].page
      /\ M.first \in {lbb[current].first, lsn} /\ M.last = lsn /\ M.forced = lsn
      /\ M.writers = lbb[current].writers + 1 /\ M.needed = lbb[current].needed
      /\ M.current = ~full
  <2> DEFINE S == Stamped(lbb[current], lsn)
             E == Entered(S, full)
  <2>1. /\ S \in BufferType /\ S.page = lbb[current].page
        /\ S.first \in {lbb[current].first, lsn} /\ S.last = lsn
        /\ S.writers = lbb[current].writers /\ S.needed = lbb[current].needed
    BY <1>3, StampedPage
  <2> HIDE DEF S
  <2>2. /\ E \in BufferType /\ E.page = S.page /\ E.first = S.first /\ E.last = S.last
        /\ E.writers = S.writers + 1 /\ E.needed = S.needed /\ E.current = ~full
    BY <2>1, EnteredPage
  <2> HIDE DEF E
  <2>3. LET x == [E EXCEPT !.forced = lsn]
        IN  /\ x \in BufferType /\ x.page = E.page /\ x.first = E.first
            /\ x.last = E.last /\ x.forced = lsn /\ x.writers = E.writers
            /\ x.needed = E.needed /\ x.current = E.current
    <3> HIDE DEF lsn
    <3> QED
      BY <1>3, <2>2 DEF BufferType
  <2>4. M = [E EXCEPT !.forced = lsn]
    BY DEF E, S
  <2> QED
    BY <2>1, <2>2, <2>3, <2>4
<1>7. /\ r \in CallType /\ r.pc = "copy" /\ r.buf = current /\ r.lwq = None /\ r.last = lsn
  <2> DEFINE g == Logged(sess[s], lsn)
  <2>1. g \in CallType /\ g.last = lsn /\ g.lwq = sess[s].lwq
    BY <1>1, <1>3, LoggedCall
  <2> HIDE DEF g
  <2>2. LET x == [g EXCEPT !.pc = "copy", !.buf = current]
        IN  /\ x \in CallType /\ x.pc = "copy" /\ x.buf = current
            /\ x.lwq = g.lwq /\ x.last = g.last
    BY <1>3, <2>1 DEF CallType, Steps
  <2> QED
    BY <1>1, <2>1, <2>2 DEF g
<1>8. lbb' = [lbb EXCEPT ![current] = M]
  BY <1>3, <1>4
<1> HIDE DEF r, M
<1>9. /\ lbb' \in [Buffers -> BufferType] /\ lbb'[current] = M
      /\ \A x \in Buffers \ {current} : lbb'[x] = lbb[x]
  BY <1>3, <1>6, <1>8
<1>10. /\ sess' \in [Sessions -> CallType] /\ sess'[s] = r
       /\ \A u \in Sessions \ {s} : sess'[u] = sess[u]
  BY <1>3, <1>5, <1>7
<1>11. lbb[current].page \in Nat /\ eof <= lbb[current].page
  BY <1>2, <1>3 DEF LogSound, CurrentLast, BufferType
<1>12. M.first <= lsn
  BY <1>3, <1>6 DEF LogSound, LsnsGiven, BufferType
<1>13. /\ sess'[s].pc = "copy" /\ sess'[s].lwq = None /\ sess'[s].last <= lastLsn'
       /\ sess'[s].buf = current
  BY <1>3, <1>5, <1>7, <1>10
<1>14. /\ lbb'[current].page = lbb[current].page
       /\ lbb'[current].first <= lastLsn' /\ lbb'[current].last <= lastLsn'
       /\ lbb'[current].forced <= lastLsn'
       /\ lbb'[current].needed = lbb[current].needed
  BY <1>3, <1>5, <1>6, <1>9, <1>12
<1>15. \/ wq' = wq /\ lbb'[current].current
       \/ /\ wq' = Enqueue(current) /\ lbb[current].page <= eof'
          /\ ~lbb'[current].current
  <2>1. lbb[current].page <= eof'
    BY <1>5, <1>11
  <2>2. CASE full
    <3>1. ~lbb'[current].current /\ wq' = Enqueue(current)
      BY <1>4, <1>6, <1>9, <2>2
    <3> QED
      BY <2>1, <3>1
  <2>3. CASE ~full
    <3>1. lbb'[current].current /\ wq' = wq
      BY <1>4, <1>6, <1>9, <2>3
    <3> QED
      BY <3>1
  <2> QED
    BY <2>2, <2>3
<1>16. /\ lastLsn' \in Nat /\ lastLsn <= lastLsn'
       /\ eof' \in Nat /\ eof <= eof' /\ eof' <= lbb[current].page
       /\ lbb[current].page <= eof'
  BY <1>3, <1>5, <1>11
<1>17. CurrentStep(s)
  BY <1>5, <1>9, <1>10, <1>13, <1>14, <1>15, <1>16 DEF CurrentStep
<1>18. \A x \in Buffers : lbb'[x].writers = Cardinality(Copiers(x)')
  <2>1. \A x \in Buffers \ {current} : lbb'[x].writers = lbb[x].writers
    BY <1>9
  <2>2. lbb'[current].writers = lbb[current].writers + 1
    BY <1>6, <1>9
  <2>3. sess[s].pc # "copy"
    BY <1>1
  <2> QED
    BY <1>3, <1>10, <1>13, <2>1, <2>2, <2>3, CopierEnters
<1>19. sess'[s].last = lsn /\ lbb'[current].forced = lsn
  BY <1>6, <1>7, <1>9, <1>10
<1>20. \A u \in Sessions : sess[u].pc # "span"
  BY <1>1, <1>2
<1> QED
  BY <1>1, <1>2, <1>5, <1>13, <1>17, <1>18, <1>19, <1>20, CurrentStepSound

LEMMA LogSpanSound ==
  ASSUME LogSound, NEW s \in Sessions, LogSpan(s)
  PROVE  /\ LogSound' /\ CurrentStep(s) /\ lbb[current].current /\ ~OnQueue(current)
         /\ \A u \in Sessions : sess[u].pc # "span"
         /\ \/ sess'[s].pc = "sleep" /\ UNCHANGED log
               /\ lbb'[current].forced = lbb[current].forced
            \/ /\ sess'[s].pc = "span" /\ sess'[s].last = lastLsn + 1
               /\ lastLsn' = lastLsn + 1 /\ eof' = lbb[current].page
               /\ rec' = Append(rec, <<lbb[current].page, 0>>)
               /\ lbb'[current].forced = lbb[current].last
<1> DEFINE lsn == lastLsn + 1
<1>1. /\ sess[s].pc \in {"log", "sleep"} /\ sess[s].lwq = None
      /\ sess[s] \in CallType /\ sess[s].last <= lastLsn
  BY LoggingSession DEF LogSpan
<1>2. /\ ~OnQueue(current) /\ lbb[current].current
      /\ \A u \in Sessions \ {s} : sess[u].pc \notin {"span", "release", "place"}
  BY <1>1, NobodySpans DEF LogSpan
<1>3. /\ sess \in [Sessions -> CallType] /\ lbb \in [Buffers -> BufferType]
      /\ eof \in Nat /\ lastLsn \in Nat /\ lsn \in Nat
      /\ current \in Buffers /\ lbb[current] \in BufferType
  BY DEF LogSound, Shape
<1>4. /\ setup' = setup /\ current' = current /\ fq' = fq /\ io' = io /\ lw' = lw
  BY DEF LogSpan
<1>5. lbb[current].page \in Nat /\ eof <= lbb[current].page
  BY <1>2, <1>3 DEF LogSound, CurrentLast, BufferType
<1>6. CASE /\ sess' = [sess EXCEPT ![s] = Asleep(@)]
           /\ lbb' = [lbb EXCEPT ![current].owner = None]
           /\ UNCHANGED <<wq, fqCount, log>>
  <2> DEFINE r == Asleep(sess[s])
             M == [lbb[current] EXCEPT !.owner = None]
  <2>1. r \in CallType /\ r.pc = "sleep" /\ r.last = sess[s].last /\ r.lwq = sess[s].lwq
    BY <1>1, AsleepCall
  <2>2. /\ M \in BufferType /\ M.page = lbb[current].page
        /\ M.first = lbb[current].first /\ M.last = lbb[current].last
        /\ M.forced = lbb[current].forced /\ M.writers = lbb[current].writers
        /\ M.needed = lbb[current].needed /\ M.current = lbb[current].current
        /\ M.force = lbb[current].force
    BY <1>3 DEF BufferType
  <2>3. sess' = [sess EXCEPT ![s] = r] /\ lbb' = [lbb EXCEPT ![current] = M]
    BY <1>3, <1>6
  <2>4. wq' = wq /\ lastLsn' = lastLsn /\ eof' = eof
    BY <1>6 DEF log
  <2> HIDE DEF r, M
  <2>5. /\ lbb' \in [Buffers -> BufferType] /\ lbb'[current] = M
        /\ \A x \in Buffers \ {current} : lbb'[x] = lbb[x]
    BY <1>3, <2>2, <2>3
  <2>6. /\ sess' \in [Sessions -> CallType] /\ sess'[s] = r
        /\ \A u \in Sessions \ {s} : sess'[u] = sess[u]
    BY <1>3, <2>1, <2>3
  <2>7. /\ sess'[s].pc = "sleep" /\ sess'[s].lwq = None /\ sess'[s].last <= lastLsn'
    BY <1>1, <2>1, <2>4, <2>6
  <2>8. /\ lbb'[current].page = lbb[current].page
        /\ lbb'[current].first <= lastLsn' /\ lbb'[current].last <= lastLsn'
        /\ lbb'[current].forced <= lastLsn'
        /\ lbb'[current].needed = lbb[current].needed
        /\ lbb'[current].current
    BY <1>2, <1>3, <2>2, <2>4, <2>5 DEF LogSound, LsnsGiven
  <2>9. lbb'[current].first # 0 \/ lbb'[current].force => lbb[current].page <= eof'
    BY <1>2, <1>3, <2>2, <2>4, <2>5 DEF LogSound, WithinLog
  <2>10. /\ lastLsn' \in Nat /\ lastLsn <= lastLsn'
         /\ eof' \in Nat /\ eof <= eof' /\ eof' <= lbb[current].page
    BY <1>3, <1>5, <2>4
  <2>11. CurrentStep(s)
    BY <1>4, <2>4, <2>5, <2>6, <2>7, <2>8, <2>9, <2>10 DEF CurrentStep
  <2>12. \A x \in Buffers : lbb'[x].writers = lbb[x].writers
    BY <2>2, <2>5
  <2>13. \A x \in Buffers : lbb'[x].writers = Cardinality(Copiers(x)')
    BY <1>1, <2>6, <2>7, <2>12, CopiersKept
  <2>14. /\ sess'[s].pc = "sleep" /\ UNCHANGED log
         /\ lbb'[current].forced = lbb[current].forced
    BY <1>6, <2>2, <2>5, <2>7
  <2> QED
    BY <1>1, <1>2, <2>11, <2>13, <2>14, CurrentStepSound
<1>7. ASSUME NEW n \in 1..setup.span,
             lastLsn' = lsn, eof' = lbb[current].page,
             rec' = Append(rec, <<eof', 0>>),
             lbb' = [lbb EXCEPT ![current] =
                       [Stamped(@, lsn) EXCEPT !.forced = lbb[current].last,
                                               !.owner = s]],
             wq' = Enqueue(current),
             sess' = [sess EXCEPT ![s] = [Logged(@, lsn) EXCEPT
                        !.pc = "span", !.n = n, !.head = current]]
      PROVE  /\ LogSound' /\ CurrentStep(s)
             /\ sess'[s].pc = "span" /\ sess'[s].last = lastLsn + 1
             /\ lastLsn' = lastLsn + 1 /\ eof' = lbb[current].page
             /\ rec' = Append(rec, <<lbb[current].page, 0>>)
             /\ lbb'[current].forced = lbb[current].last
  <2> DEFINE r == [Logged(sess[s], lsn) EXCEPT !.pc = "span", !.n = n, !.head = current]
             p == lbb[current].last
             M == [Stamped(lbb[current], lsn) EXCEPT !.forced = p, !.owner = s]
  <2>1. /\ r \in CallType /\ r.pc = "span" /\ r.head = current /\ r.lwq = None
        /\ r.last = lsn
    <3> DEFINE g == Logged(sess[s], lsn)
    <3>1. g \in CallType /\ g.last = lsn /\ g.lwq = sess[s].lwq
      BY <1>1, <1>3, LoggedCall
    <3>2. n \in Nat
      BY SetupsAssumption DEF LogSound, Shape
    <3> HIDE DEF g
    <3>3. LET x == [g EXCEPT !.pc = "span", !.n = n, !.head = current]
          IN  /\ x \in CallType /\ x.pc = "span" /\ x.head = current
              /\ x.lwq = g.lwq /\ x.last = g.last
      BY <1>3, <3>1, <3>2 DEF CallType, Steps
    <3> QED
      BY <1>1, <3>1, <3>3 DEF g
  <2>2. /\ M \in BufferType /\ M.page = lbb[current].page
        /\ M.first \in {lbb[current].first, lsn} /\ M.last = lsn /\ M.forced = p
        /\ M.writers = lbb[current].writers /\ M.needed = lbb[current].needed
        /\ M.current = lbb[current].current /\ M.owner = s
    <3> DEFINE S == Stamped(lbb[current], lsn)
    <3>1. /\ S \in BufferType /\ S.page = lbb[current].page
          /\ S.first \in {lbb[current].first, lsn} /\ S.last = lsn
          /\ S.writers = lbb[current].writers /\ S.needed = lbb[current].needed
          /\ S.current = lbb[current].current
      BY <1>3, StampedPage
    <3>2. p \in Nat
      BY <1>3 DEF BufferType
    <3> HIDE DEF S, p
    <3>3. LET x == [S EXCEPT !.forced = p, !.owner = s]
          IN  /\ x \in BufferType /\ x.page = S.page /\ x.first = S.first
              /\ x.last = S.last /\ x.forced = p /\ x.writers = S.writers
              /\ x.needed = S.needed /\ x.current = S.current /\ x.owner = s
      BY <3>1, <3>2 DEF BufferType
    <3> QED
      BY <3>1, <3>3 DEF S
  <2>3. sess' = [sess EXCEPT ![s] = r] /\ lbb' = [lbb EXCEPT ![current] = M]
    BY <1>3, <1>7
  <2>4. lastLsn' = lsn /\ eof' = lbb[current].page
    BY <1>7
  <2> HIDE DEF r, M
  <2>5. /\ lbb' \in [Buffers -> BufferType] /\ lbb'[current] = M
        /\ \A x \in Buffers \ {current} : lbb'[x] = lbb[x]
    BY <1>3, <2>2, <2>3
  <2>6. /\ sess' \in [Sessions -> CallType] /\ sess'[s] = r
        /\ \A u \in Sessions \ {s} : sess'[u] = sess[u]
    BY <1>3, <2>1, <2>3
  <2>7. /\ sess'[s].pc = "span" /\ sess'[s].lwq = None /\ sess'[s].last <= lastLsn'
        /\ sess'[s].head = current
    BY <1>3, <2>1, <2>6, <2>4
  <2>8. M.first <= lsn /\ p <= lsn
    BY <1>3, <2>2 DEF LogSound, LsnsGiven, BufferType
  <2>9. /\ lbb'[current].page = lbb[current].page
        /\ lbb'[current].first <= lastLsn' /\ lbb'[current].last <= lastLsn'
        /\ lbb'[current].forced <= lastLsn'
        /\ lbb'[current].needed = lbb[current].needed
        /\ lbb'[current].current /\ lbb'[current].owner = s
    <3> HIDE DEF lsn, p
    <3>1. /\ lbb'[current].first <= lsn /\ lbb'[current].last <= lsn
          /\ lbb'[current].forced <= lsn
      BY <1>3, <2>2, <2>5, <2>8
    <3>2. /\ lbb'[current].page = lbb[current].page
          /\ lbb'[current].needed = lbb[current].needed
          /\ lbb'[current].current /\ lbb'[current].owner = s
      BY <1>2, <2>2, <2>5
    <3> QED
      BY <2>4, <3>1, <3>2
  <2>10. /\ lastLsn' \in Nat /\ lastLsn <= lastLsn'
         /\ eof' \in Nat /\ eof <= eof' /\ eof' <= lbb[current].page
         /\ lbb[current].page <= eof'
    BY <1>3, <1>5, <2>4
  <2>11. CurrentStep(s)
    BY <1>4, <1>7, <2>5, <2>6, <2>7, <2>9, <2>10 DEF CurrentStep
  <2>12. \A x \in Buffers : lbb'[x].writers = lbb[x].writers
    BY <2>2, <2>5
  <2>13. \A x \in Buffers : lbb'[x].writers = Cardinality(Copiers(x)')
    BY <1>1, <2>6, <2>7, <2>12, CopiersKept
  <2>14. sess'[s].last = lsn /\ lbb'[current].forced = p
    BY <2>1, <2>2, <2>5, <2>6
  <2>15. rec' = Append(rec, <<lbb[current].page, 0>>)
    BY <1>7
  <2> QED
    BY <1>1, <1>2, <2>4, <2>7, <2>11, <2>13, <2>14, <2>15, CurrentStepSound
<1>8. \A u \in Sessions : sess[u].pc # "span"
  BY <1>1, <1>2
<1> QED
  BY <1>2, <1>6, <1>7, <1>8 DEF LogSpan

LEMMA SpanPlaceSound ==
  ASSUME LogSound, NEW s \in Sessions, SpanPlace(s)
  PROVE  /\ LogSound' /\ CurrentStep(s) /\ lbb[current].current /\ ~OnQueue(current)
         /\ sess[s].pc = "place" /\ sess'[s].pc = "copy"
         /\ lbb'[current].forced = lbb[current].forced
<1>1. /\ sess[s].pc = "place" /\ sess[s].buf = current /\ lbb[current].current
      /\ lbb[current].owner = s /\ sess[s].lwq = None /\ sess[s].last <= lastLsn
      /\ lbb[current].page <= eof
  BY DEF SpanPlace, At, LogSound, SpansAlone, WaitersPlaced, LsnsGiven, WithinLog
<1>2. /\ ~OnQueue(current)
      /\ \A u \in Sessions \ {s} : sess[u].pc \notin {"span", "release", "place"}
  BY <1>1, NobodySpans DEF Free
<1>3. /\ sess \in [Sessions -> CallType] /\ lbb \in [Buffers -> BufferType]
      /\ sess[s] \in CallType /\ eof \in Nat /\ lastLsn \in Nat
      /\ current \in Buffers /\ lbb[current] \in BufferType
  BY DEF LogSound, Shape
<1>4. PICK full \in BOOLEAN :
        /\ lbb' = [lbb EXCEPT ![current] = Entered(@, full)]
        /\ wq' = IF full THEN Enqueue(current) ELSE wq
  BY <1>1 DEF SpanPlace
<1> DEFINE r == [sess[s] EXCEPT !.pc = "copy"]
           M == Entered(lbb[current], full)
<1>5. /\ sess' = [sess EXCEPT ![s] = r] /\ lbb' = [lbb EXCEPT ![current] = M]
      /\ setup' = setup /\ current' = current /\ fq' = fq /\ io' = io /\ lw' = lw
      /\ lastLsn' = lastLsn /\ eof' = eof
  BY <1>3, <1>4 DEF SpanPlace, free, log
<1>6. /\ M \in BufferType /\ M.page = lbb[current].page /\ M.first = lbb[current].first
      /\ M.last = lbb[current].last /\ M.forced = lbb[current].forced
      /\ M.writers = lbb[current].writers + 1
      /\ M.needed = lbb[current].needed /\ M.current = ~full
  BY <1>3, EnteredPage
<1>7. /\ r \in CallType /\ r.pc = "copy" /\ r.buf = sess[s].buf
      /\ r.lwq = sess[s].lwq /\ r.last = sess[s].last
  BY <1>3 DEF CallType, Steps
<1> HIDE DEF r, M
<1>8. /\ lbb' \in [Buffers -> BufferType] /\ lbb'[current] = M
      /\ \A x \in Buffers \ {current} : lbb'[x] = lbb[x]
  BY <1>3, <1>5, <1>6
<1>9. /\ sess' \in [Sessions -> CallType] /\ sess'[s] = r
      /\ \A u \in Sessions \ {s} : sess'[u] = sess[u]
  BY <1>3, <1>5, <1>7
<1>10. /\ sess'[s].pc = "copy" /\ sess'[s].lwq = None /\ sess'[s].last <= lastLsn'
       /\ sess'[s].buf = current
  BY <1>1, <1>5, <1>7, <1>9
<1>11. /\ lbb'[current].page = lbb[current].page
       /\ lbb'[current].first <= lastLsn' /\ lbb'[current].last <= lastLsn'
       /\ lbb'[current].forced <= lastLsn'
       /\ lbb'[current].needed = lbb[current].needed
  BY <1>3, <1>5, <1>6, <1>8 DEF LogSound, LsnsGiven
<1>12. eof <= lbb[current].page /\ lbb[current].page \in Nat
  BY <1>1, <1>2, <1>3 DEF LogSound, CurrentLast, BufferType
<1>13. /\ lastLsn' \in Nat /\ lastLsn <= lastLsn'
       /\ eof' \in Nat /\ eof <= eof' /\ eof' <= lbb[current].page
       /\ lbb[current].page <= eof'
  BY <1>1, <1>3, <1>5, <1>12
<1>14. \/ wq' = wq /\ lbb'[current].current
       \/ /\ wq' = Enqueue(current) /\ lbb[current].page <= eof'
          /\ ~lbb'[current].current
  <2>1. CASE full
    <3>1. ~lbb'[current].current /\ wq' = Enqueue(current)
      BY <1>4, <1>6, <1>8, <2>1
    <3> QED
      BY <1>13, <3>1
  <2>2. CASE ~full
    <3>1. lbb'[current].current /\ wq' = wq
      BY <1>4, <1>6, <1>8, <2>2
    <3> QED
      BY <3>1
  <2> QED
    BY <2>1, <2>2
<1>15. CurrentStep(s)
  BY <1>5, <1>8, <1>9, <1>10, <1>11, <1>13, <1>14 DEF CurrentStep
<1>16. \A x \in Buffers : lbb'[x].writers = Cardinality(Copiers(x)')
  <2>1. \A x \in Buffers \ {current} : lbb'[x].writers = lbb[x].writers
    BY <1>8
  <2>2. lbb'[current].writers = lbb[current].writers + 1
    BY <1>6, <1>8
  <2>3. sess[s].pc # "copy"
    BY <1>1
  <2> QED
    BY <1>3, <1>9, <1>10, <2>1, <2>2, <2>3, CopierEnters
<1>17. lbb'[current].forced = lbb[current].forced
  BY <1>6, <1>8
<1> QED
  BY <1>1, <1>2, <1>10, <1>15, <1>16, <1>17, CurrentStepSound

-------------------------------------------------------------------------------
(* The next page of a record.                                              *)

(* Session s spans its record into the free buffer b.                      *)
SpanStep(s, b) ==
  /\ lbb' \in [Buffers -> BufferType] /\ \A x \in Buffers \ {b} : lbb'[x] = lbb[x]
  /\ lbb'[b].page = eof + 1 /\ lbb'[b].writers = 0
  /\ lbb'[b].first <= lastLsn /\ lbb'[b].last <= lastLsn /\ lbb'[b].forced <= lastLsn
  /\ sess' \in [Sessions -> CallType]
  /\ \A u \in Sessions \ {s} : sess'[u] = sess[u]
  /\ sess'[s].lwq = None /\ sess'[s].head = sess[s].head
  /\ sess'[s].last = sess[s].last
  /\ io' \in [Threads -> IoType] /\ lw' \in [LogWriters -> LwType]
  /\ \A t \in Threads : io'[t].freed = io[t].freed /\ io'[t].todo = io[t].todo
  /\ setup' = setup /\ lastLsn' = lastLsn /\ eof' = eof + 1 /\ fq' = fq \ {b}
  /\ \/ /\ wq' = Enqueue(b) /\ ~lbb'[b].current
        /\ sess'[s].pc = "span" /\ current' = current
        /\ lbb'[b].forced = 0 /\ rec' = rec
     \/ /\ wq' = wq /\ lbb'[b].current /\ lbb'[b].owner = s /\ current' = b
        /\ sess'[s].pc = "release" /\ sess'[s].buf = b
        /\ lbb'[b].forced = sess[s].last
        /\ rec' = [rec EXCEPT ![sess[s].last][2] = eof + 1]

LEMMA SpanStepSound ==
  ASSUME LogSound, NEW s \in Sessions, sess[s].pc = "span", NEW b \in fq,
         SpanStep(s, b), WritersApart'
  PROVE  LogSound'
<1>1. /\ b \in Buffers /\ ~OnQueue(b) /\ ~lbb[b].current
      /\ \A t \in Threads : b \notin InHand(t) /\ b \notin io[t].freed
      /\ Copiers(b) = {}
      /\ \A u \in Sessions : /\ sess[u].pc \in {"release", "place", "copy"}
                                   => sess[u].buf # b
                             /\ sess[u].pc \in {"span", "release"} => sess[u].head # b
                             /\ sess[u].lwq # b
  BY FreeUnused
<1>2. /\ sess[s].head = current /\ OnQueue(current) /\ lbb[current].current
      /\ lbb[current].owner = s
  BY DEF LogSound, SpansAlone
<1>3. \A u \in Sessions \ {s} : sess[u].pc \notin {"span", "release", "place"}
  BY <1>2 DEF LogSound, SpansAlone
<1>4. /\ lbb \in [Buffers -> BufferType] /\ wq \in Seq(Buffers) /\ eof \in Nat
      /\ lastLsn \in Nat /\ Members(wq) \subseteq Buffers /\ current \in Buffers
      /\ fq \subseteq Buffers
  BY DEF LogSound, Shape, Members
<1>5. /\ \A x \in Buffers \ {b} : lbb'[x] = lbb[x]
      /\ \A u \in Sessions \ {s} : sess'[u] = sess[u]
      /\ lbb'[b].page = eof + 1 /\ eof' = eof + 1 /\ lastLsn' = lastLsn
      /\ sess'[s].lwq = None
  BY DEF SpanStep
<1>6. /\ wq' \in Seq(Buffers) /\ Members(wq) \subseteq Members(wq')
      /\ Members(wq') \subseteq Members(wq) \cup {b}
      /\ b \in Members(wq') => ~lbb'[b].current
  <2>1. CASE wq' = Enqueue(b) /\ ~lbb'[b].current
    BY <1>1, <1>4, <2>1, EnqueueQueue
  <2>2. CASE wq' = wq
    BY <1>1, <1>4, <2>2 DEF OnQueue
  <2> QED
    BY <2>1, <2>2 DEF SpanStep
<1>7. \A x \in Members(wq) : x \in Buffers \ {b} /\ lbb'[x] = lbb[x]
  BY <1>1, <1>4, <1>5 DEF OnQueue
<1>8. \A x \in Members(wq) : lbb[x].page \in Nat /\ lbb[x].page <= eof
  BY <1>4 DEF LogSound, WithinLog, BufferType
<1>9. current # b /\ lbb'[current] = lbb[current] /\ current \in Members(wq')
  BY <1>1, <1>2, <1>4, <1>5, <1>6 DEF OnQueue
<1>10. Shape'
  BY <1>1, <1>4, <1>6 DEF LogSound, Shape, SpanStep
<1>11. LsnsGiven'
  <2>1. \A u \in Sessions : sess'[u].last = sess[u].last
    BY DEF SpanStep
  <2>2. \A x \in Buffers : /\ lbb'[x].first <= lastLsn /\ lbb'[x].last <= lastLsn
                           /\ lbb'[x].forced <= lastLsn
    BY DEF SpanStep, LogSound, LsnsGiven
  <2> QED
    BY <1>5, <2>1, <2>2 DEF LogSound, LsnsGiven
<1>12. Ascending'
  <2>1. \A x \in Members(wq) : lbb'[x].page = lbb[x].page
    BY <1>7
  <2>2. \A x \in Members(wq) : lbb[x].page < lbb'[b].page
    BY <1>4, <1>5, <1>8
  <2>3. CASE wq' = wq
    BY <2>1, <2>3, StaysAscending DEF LogSound
  <2>4. CASE wq' = Enqueue(b)
    BY <1>1, <2>1, <2>2, <2>4, EnqueueAscends DEF LogSound
  <2> QED
    BY <2>3, <2>4 DEF SpanStep
<1>13. WithinLog'
  <2>1. \A x \in Buffers : lbb[x].page \in Nat
    BY <1>4 DEF BufferType
  <2>2. \A x \in Members(wq') : lbb'[x].page <= eof'
    BY <1>4, <1>5, <1>6, <1>7, <1>8
  <2>3. \A x \in Buffers : lbb'[x].current /\ (lbb'[x].first # 0 \/ lbb'[x].force)
                              => lbb'[x].page <= eof'
    BY <1>4, <1>5, <2>1 DEF LogSound, WithinLog
  <2>4. ASSUME NEW u \in Sessions, sess'[u].pc \in {"release", "place", "copy"}
        PROVE  sess'[u].buf # None /\ lbb'[sess'[u].buf].page <= eof'
    <3>1. CASE u = s
      <4>1. sess'[s].buf = b
        BY <2>4, <3>1 DEF SpanStep
      <4> QED
        BY <1>1, <1>4, <1>5, <3>1, <4>1, ThreadsAssumption
    <3>2. CASE u # s
      <4>1. sess'[u] = sess[u] /\ sess[u].pc = "copy"
        BY <1>3, <1>5, <2>4, <3>2
      <4>2. sess[u].buf # None /\ lbb[sess[u].buf].page <= eof
        BY <4>1 DEF LogSound, WithinLog
      <4>3. sess[u].buf \in Buffers \ {b}
        BY <1>1, <4>1, <4>2 DEF LogSound, Shape, CallType
      <4> QED
        BY <1>4, <1>5, <2>1, <4>1, <4>2, <4>3
    <3> QED
      BY <3>1, <3>2
  <2> QED
    BY <2>2, <2>3, <2>4 DEF WithinLog
<1>14. CurrentLast'
  <2>1. CASE current' = current
    BY <1>9, <2>1 DEF CurrentLast, OnQueue
  <2>2. CASE current' = b /\ wq' = wq
    <3>1. eof' <= lbb'[b].page
      BY <1>4, <1>5
    <3>2. \A x \in Members(wq') : lbb'[x].page < lbb'[b].page
      BY <1>4, <1>5, <1>7, <1>8, <2>2
    <3> QED
      BY <2>2, <3>1, <3>2 DEF CurrentLast
  <2> QED
    BY <2>1, <2>2 DEF SpanStep
<1>15. SpansAlone'
  <2>1. ASSUME NEW u \in Sessions, sess'[u].pc \in {"span", "release"}
        PROVE  /\ sess'[u].head # None
               /\ sess'[u].head \in Members(wq') /\ lbb'[sess'[u].head].current
               /\ lbb'[sess'[u].head].owner = u
               /\ sess'[u].pc = "span" => sess'[u].head = current'
    <3>1. u = s
      BY <1>3, <1>5, <2>1
    <3>2. sess'[s].head = current /\ current # None
      BY <1>2, <1>4, ThreadsAssumption DEF SpanStep
    <3>3. sess'[s].pc = "span" => current' = current
      BY DEF SpanStep
    <3> QED
      BY <1>2, <1>9, <3>1, <3>2, <3>3
  <2>2. ASSUME NEW u \in Sessions, sess'[u].pc \in {"release", "place"}
        PROVE  /\ sess'[u].buf = current' /\ current' \notin Members(wq')
               /\ lbb'[current'].current /\ lbb'[current'].owner = u
    <3>1. u = s
      BY <1>3, <1>5, <2>2
    <3>2. /\ wq' = wq /\ lbb'[b].current /\ lbb'[b].owner = s /\ current' = b
          /\ sess'[s].buf = b
      BY <2>2, <3>1 DEF SpanStep
    <3> QED
      BY <1>1, <3>1, <3>2 DEF OnQueue
  <2>3. ASSUME NEW x \in Buffers, lbb'[x].current, x \in Members(wq')
        PROVE  \E u \in Sessions : /\ sess'[u].pc \in {"span", "release"}
                                   /\ sess'[u].head = x /\ lbb'[x].owner = u
    <3>1. x # b /\ OnQueue(x) /\ lbb[x].current /\ lbb'[x] = lbb[x]
      BY <1>5, <1>6, <2>3 DEF OnQueue
    <3>2. PICK u \in Sessions : /\ sess[u].pc \in {"span", "release"}
                                /\ sess[u].head = x /\ lbb[x].owner = u
      BY <3>1 DEF LogSound, SpansAlone
    <3>3. u = s
      BY <1>3, <3>2
    <3>4. sess'[s].pc \in {"span", "release"} /\ sess'[s].head = sess[s].head
      BY DEF SpanStep
    <3> QED
      BY <3>1, <3>2, <3>3, <3>4
  <2> QED
    BY <2>1, <2>2, <2>3 DEF SpansAlone, OnQueue
<1>16. FreeApart'
  <2>1. \A t \in Threads : io'[t].freed = io[t].freed /\ io[t].freed \subseteq Buffers
    BY DEF SpanStep, LogSound, Shape, IoType
  <2>2. fq' = fq \ {b}
    BY DEF SpanStep
  <2>3. \A x \in Buffers \ {b} : ~OnQueue(x) /\ ~lbb[x].current
                                    => x \notin Members(wq') /\ ~lbb'[x].current
    BY <1>5, <1>6 DEF OnQueue
  <2>4. \A x \in fq' : x \notin Members(wq') /\ ~lbb'[x].current
    BY <1>4, <2>2, <2>3 DEF LogSound, FreeApart
  <2>5. \A t \in Threads : \A x \in io'[t].freed :
          x \notin Members(wq') /\ ~lbb'[x].current /\ x \notin fq'
    BY <1>1, <2>1, <2>2, <2>3 DEF LogSound, FreeApart
  <2>6. \A t, u \in Threads : t # u => io'[t].freed \cap io'[u].freed = {}
    BY <2>1 DEF LogSound, FreeApart
  <2> QED
    BY <2>4, <2>5, <2>6 DEF FreeApart, OnQueue
<1>17. CopiersCounted'
  <2>1. \A x \in Buffers : Copiers(x)' = Copiers(x)
    <3>1. sess'[s].pc # "copy"
      BY DEF SpanStep
    <3> QED
      BY <1>5, <3>1 DEF Copiers
  <2>2. \A x \in Buffers \ {b} : lbb'[x].writers = Cardinality(Copiers(x))
    BY <1>5 DEF LogSound, CopiersCounted
  <2>3. lbb'[b].writers = Cardinality(Copiers(b))
    BY <1>1, FS_EmptySet DEF SpanStep
  <2>4. ASSUME NEW u \in Sessions, sess'[u].pc = "copy"
        PROVE  sess'[u].buf \in Members(wq')
    <3>1. u # s /\ sess'[u] = sess[u]
      BY <1>5, <2>4 DEF SpanStep
    <3>2. OnQueue(sess[u].buf)
      BY <1>2, <2>4, <3>1 DEF LogSound, CopiersCounted
    <3> QED
      BY <1>6, <3>1, <3>2 DEF OnQueue
  <2> QED
    BY <2>1, <2>2, <2>3, <2>4 DEF CopiersCounted, OnQueue
<1>18. WaitersPlaced'
  <2>1. SUFFICES ASSUME NEW u \in Sessions, sess'[u].lwq # None
                 PROVE  /\ sess'[u].wait /\ sess'[u].pc \in {"wake", "return", "idle"}
                        /\ sess'[u].lwq \in Members(wq')
    BY DEF WaitersPlaced, OnQueue
  <2>2. sess'[u] = sess[u]
    BY <1>5, <2>1
  <2>3. /\ sess[u].wait /\ sess[u].pc \in {"wake", "return", "idle"}
        /\ OnQueue(sess[u].lwq)
    BY <1>2, <2>1, <2>2 DEF LogSound, WaitersPlaced
  <2> QED
    BY <1>6, <2>2, <2>3 DEF OnQueue
<1> QED
  BY <1>10, <1>11, <1>12, <1>13, <1>14, <1>15, <1>16, <1>17, <1>18 DEF LogSound

LEMMA SpanNextSound ==
  ASSUME LogSound, NEW s \in Sessions, SpanNext(s)
  PROVE  LogSound' /\ sess[s].pc = "span" /\ \E b \in fq : SpanStep(s, b)
<1>1. sess[s].pc = "span" /\ io[s] = NoIo
  BY DEF SpanNext, At
<1>2. /\ sess \in [Sessions -> CallType] /\ sess[s] \in CallType
      /\ lbb \in [Buffers -> BufferType] /\ eof \in Nat /\ lastLsn \in Nat
      /\ sess[s].last \in Nat /\ sess[s].n \in Nat /\ sess[s].last <= lastLsn
      /\ eof + 1 \in Nat /\ s \in Threads \ LogWriters
  BY ThreadsAssumption DEF LogSound, Shape, CallType, LsnsGiven, Threads
<1>3. sess[s].lwq = None
  BY <1>1 DEF LogSound, WaitersPlaced
<1> DEFINE l   == sess[s].last
           new == [Stamped(Fresh(eof + 1), l) EXCEPT !.owner = s]
<1>4. /\ new \in BufferType /\ new.page = eof + 1 /\ new.first \in {0, l}
      /\ new.last = l /\ new.forced = 0 /\ new.writers = 0 /\ ~new.needed
      /\ ~new.current /\ new.owner = s
  <2> DEFINE F == Fresh(eof + 1)
             S == Stamped(F, l)
  <2>1. /\ F \in BufferType /\ F.page = eof + 1 /\ F.first = 0 /\ F.forced = 0
        /\ F.writers = 0 /\ ~F.needed /\ ~F.current
    BY <1>2, FreshPage
  <2> HIDE DEF F
  <2>2. /\ S \in BufferType /\ S.page = F.page /\ S.first \in {F.first, l}
        /\ S.last = l /\ S.forced = F.forced /\ S.writers = F.writers
        /\ S.needed = F.needed /\ S.current = F.current
    BY <1>2, <2>1, StampedPage
  <2> HIDE DEF S, l
  <2>3. LET x == [S EXCEPT !.owner = s]
        IN  /\ x \in BufferType /\ x.page = S.page /\ x.first = S.first
            /\ x.last = S.last /\ x.forced = S.forced /\ x.writers = S.writers
            /\ x.needed = S.needed /\ x.current = S.current /\ x.owner = s
    BY <2>2 DEF BufferType
  <2> QED
    BY <2>1, <2>2, <2>3 DEF S, F
<1>5. PICK b \in fq :
        /\ fq' = fq \ {b} /\ eof' = eof + 1
        /\ \/ /\ sess[s].n > 1
              /\ QueueWrite(s, b, [lbb EXCEPT ![b] = new], FALSE)
              /\ sess' = [sess EXCEPT ![s].n = @ - 1]
              /\ UNCHANGED <<current, rec>>
           \/ /\ sess[s].n = 1
              /\ lbb' = [lbb EXCEPT ![b] =
                           [new EXCEPT !.forced = sess[s].last, !.current = TRUE]]
              /\ current' = b /\ rec' = [rec EXCEPT ![sess[s].last][2] = eof']
              /\ sess' = [sess EXCEPT ![s].n = 0, ![s].buf = b, ![s].pc = "release"]
              /\ UNCHANGED <<wq, lw, io>>
  BY DEF SpanNext
<1> HIDE DEF new, l
<1>6. /\ b \in Buffers /\ ~OnQueue(b) /\ ~lbb[b].current
      /\ \A t \in Threads : b \notin InHand(t)
  BY FreeUnused
<1>7. setup' = setup /\ lastLsn' = lastLsn
  BY DEF SpanNext
<1>8. new.first <= lastLsn /\ new.last <= lastLsn /\ new.forced <= lastLsn
  BY <1>2, <1>4 DEF l
<1>9. CASE /\ sess[s].n > 1
           /\ QueueWrite(s, b, [lbb EXCEPT ![b] = new], FALSE)
           /\ sess' = [sess EXCEPT ![s].n = @ - 1]
           /\ UNCHANGED <<current, rec>>
  <2> DEFINE m == sess[s].n - 1
             r == [sess[s] EXCEPT !.n = m]
             L == [lbb EXCEPT ![b] = new]
  <2>1. /\ L \in [Buffers -> BufferType] /\ L[b] = new
        /\ \A x \in Buffers \ {b} : L[x] = lbb[x]
    BY <1>2, <1>4, <1>6
  <2>2. r \in CallType /\ r.pc = "span" /\ r.lwq = None /\ r.last = sess[s].last
        /\ r.head = sess[s].head
    <3>1. m \in Nat
      BY <1>2, <1>9
    <3> HIDE DEF m
    <3> QED
      BY <1>1, <1>2, <1>3, <3>1 DEF CallType
  <2>3. sess' = [sess EXCEPT ![s] = r] /\ current' = current
    BY <1>2, <1>9
  <2>4. QueueWrite(s, b, L, FALSE)
    BY <1>9
  <2> HIDE DEF r, L
  <2>5. Queued(b, L) /\ Given(b) /\ lw' \in [LogWriters -> LwType]
    BY <1>1, <1>2, <1>6, <2>1, <2>4, QueueWriteEffect DEF LogSound
  <2>6. /\ wq' = Enqueue(b) /\ lbb' \in [Buffers -> BufferType]
        /\ \A x \in Buffers \ {b} : lbb'[x] = lbb[x]
        /\ lbb'[b].page = eof + 1 /\ lbb'[b].writers = 0
        /\ lbb'[b].first <= lastLsn /\ lbb'[b].last <= lastLsn
        /\ lbb'[b].forced <= lastLsn /\ ~lbb'[b].current /\ lbb'[b].forced = 0
    BY <1>4, <1>8, <2>1, <2>5 DEF Queued, SamePage
  <2>7. Members(wq') = Members(wq) \cup {b}
    BY <1>6, <2>6, EnqueueQueue DEF LogSound, Shape
  <2>8. /\ WritersApart' /\ io' \in [Threads -> IoType]
        /\ \A t \in Threads : io'[t].freed = io[t].freed /\ io'[t].todo = io[t].todo
    BY <1>6, <2>5, <2>6, <2>7, GivenApart DEF LogSound, OnQueue
  <2>9. /\ sess' \in [Sessions -> CallType] /\ sess'[s] = r
        /\ \A u \in Sessions \ {s} : sess'[u] = sess[u]
    BY <1>2, <2>2, <2>3
  <2>10. SpanStep(s, b)
    BY <1>5, <1>7, <1>9, <2>2, <2>3, <2>5, <2>6, <2>8, <2>9 DEF SpanStep
  <2> QED
    BY <1>1, <2>8, <2>10, SpanStepSound
<1>10. CASE /\ lbb' = [lbb EXCEPT ![b] =
                         [new EXCEPT !.forced = sess[s].last, !.current = TRUE]]
            /\ current' = b /\ rec' = [rec EXCEPT ![sess[s].last][2] = eof']
            /\ sess' = [sess EXCEPT ![s].n = 0, ![s].buf = b, ![s].pc = "release"]
            /\ UNCHANGED <<wq, lw, io>>
  <2> DEFINE r == [sess[s] EXCEPT !.n = 0, !.buf = b, !.pc = "release"]
             M == [new EXCEPT !.forced = l, !.current = TRUE]
  <2>1. /\ M \in BufferType /\ M.page = new.page /\ M.first = new.first
        /\ M.last = new.last /\ M.forced = l /\ M.writers = new.writers
        /\ M.needed = new.needed /\ M.current /\ M.owner = new.owner
    <3>1. l \in Nat
      BY <1>2 DEF l
    <3> QED
      BY <1>4, <3>1 DEF BufferType
  <2>2. /\ r \in CallType /\ r.pc = "release" /\ r.lwq = None /\ r.last = sess[s].last
        /\ r.head = sess[s].head /\ r.buf = b
    BY <1>1, <1>2, <1>3, <1>6 DEF CallType, Steps
  <2>3. /\ sess' = [sess EXCEPT ![s] = r] /\ lbb' = [lbb EXCEPT ![b] = M]
        /\ current' = b /\ wq' = wq /\ lw' = lw /\ io' = io
    BY <1>2, <1>10 DEF l
  <2> HIDE DEF r, M
  <2>4. /\ lbb' \in [Buffers -> BufferType] /\ lbb'[b] = M
        /\ \A x \in Buffers \ {b} : lbb'[x] = lbb[x]
    BY <1>2, <1>6, <2>1, <2>3
  <2>5. /\ sess' \in [Sessions -> CallType] /\ sess'[s] = r
        /\ \A u \in Sessions \ {s} : sess'[u] = sess[u]
    BY <1>2, <2>2, <2>3
  <2>6. /\ lbb'[b].page = eof + 1 /\ lbb'[b].writers = 0 /\ ~lbb'[b].needed
        /\ lbb'[b].first <= lastLsn /\ lbb'[b].last <= lastLsn
        /\ lbb'[b].forced <= lastLsn /\ lbb'[b].current /\ lbb'[b].owner = s
    BY <1>2, <1>4, <1>8, <2>1, <2>4 DEF l
  <2>7. WritersApart'
    <3>1. \A t \in Threads : InHand(t)' = InHand(t)
      BY <2>3 DEF InHand
    <3>2. \A t \in Threads : \A x \in InHand(t) : x \in Buffers \ {b}
      BY <1>6 DEF LogSound, WritersApart, OnQueue, Shape, Members
    <3>3. \A t \in Threads : \A x \in InHand(t)' :
            x \in Members(wq') /\ lbb'[x].taken /\ lbb'[x].writers = 0 /\ ~lbb'[x].current
      BY <2>3, <2>4, <3>1, <3>2 DEF LogSound, WritersApart, OnQueue
    <3>4. \A x \in Buffers : lbb'[x].needed => lbb'[x].writers = 0 /\ ~lbb'[x].current
      BY <2>4, <2>6 DEF LogSound, WritersApart
    <3> QED
      BY <2>3, <3>1, <3>3, <3>4 DEF LogSound, WritersApart, OnQueue
  <2>8. /\ io' \in [Threads -> IoType] /\ lw' \in [LogWriters -> LwType]
        /\ \A t \in Threads : io'[t].freed = io[t].freed /\ io'[t].todo = io[t].todo
    BY <2>3 DEF LogSound, Shape
  <2>10. /\ rec' = [rec EXCEPT ![sess[s].last][2] = eof + 1]
         /\ lbb'[b].forced = sess[s].last
    BY <1>5, <1>10, <2>1, <2>4 DEF l
  <2>11. SpanStep(s, b)
    BY <1>5, <1>7, <2>10, <2>2, <2>3, <2>4, <2>5, <2>6, <2>8 DEF SpanStep
  <2> QED
    BY <1>1, <2>7, <2>11, SpanStepSound
<1> QED
  BY <1>5, <1>9, <1>10

-------------------------------------------------------------------------------
(* The theorems.                                                           *)

LEMMA InitSound == Init => LogSound
<1>1. SUFFICES ASSUME Init PROVE LogSound
  OBVIOUS
<1>2. /\ setup \in Setups /\ wq = <<>> /\ current \in Buffers /\ fq = Buffers
      /\ eof = 0 /\ lastLsn = 0
      /\ lbb = [b \in Buffers |-> Fresh(0)]
      /\ sess = [s \in Sessions |-> NewSess]
      /\ lw = [w \in LogWriters |-> [pc |-> "asleep", found |-> None]]
      /\ io = [t \in Threads |-> NoIo]
  BY <1>1 DEF Init
<1>3. \A b \in Buffers :
         /\ lbb[b] \in BufferType /\ lbb[b].first = 0 /\ lbb[b].last = 0
         /\ lbb[b].forced = 0 /\ lbb[b].writers = 0 /\ ~lbb[b].needed
         /\ ~lbb[b].current /\ ~lbb[b].force
  BY <1>2, FreshPage
<1>4. \A s \in Sessions : /\ sess[s] \in CallType /\ sess[s].pc = "idle"
                          /\ sess[s].last = 0 /\ sess[s].lwq = None
  BY <1>2 DEF NewSess, CallType, Steps, Kinds
<1>5. NoIo \in IoType /\ NoIo.buf = None /\ NoIo.todo = <<>> /\ NoIo.freed = {}
  <2>1. <<>> \in Seq(Buffers)
    OBVIOUS
  <2> QED
    BY <2>1 DEF NoIo, IoType
<1>6. /\ wq \in Seq(Buffers) /\ Members(wq) = {}
      /\ \A t \in Threads : /\ io[t] = NoIo /\ InHand(t) = {}
                            /\ io[t].freed = {}
  <2>1. wq \in Seq(Buffers) /\ Members(wq) = {}
    BY <1>2 DEF Members
  <2>2. \A t \in Threads : io[t] = NoIo
    BY <1>2
  <2>3. \A t \in Threads : InHand(t) = {} /\ io[t].freed = {}
    <3>1. Members(<<>>) = {}
      BY DEF Members
    <3> QED
      BY <1>5, <2>2, <3>1 DEF InHand
  <2> QED
    BY <2>1, <2>2, <2>3
<1>7. Shape
  <2>1. lw \in [LogWriters -> LwType]
    BY <1>2 DEF LwType
  <2>2. lbb \in [Buffers -> BufferType]
    BY <1>2, <1>3
  <2>3. sess \in [Sessions -> CallType]
    BY <1>2, <1>4
  <2>4. io \in [Threads -> IoType]
    BY <1>2, <1>5
  <2> QED
    BY <1>2, <1>6, <2>1, <2>2, <2>3, <2>4 DEF Shape
<1>8. LsnsGiven
  BY <1>2, <1>3, <1>4 DEF LsnsGiven
<1>9. Ascending
  BY <1>2 DEF Ascending
<1>10. WithinLog /\ CurrentLast
  BY <1>2, <1>3, <1>4, <1>6 DEF WithinLog, CurrentLast
<1>11. SpansAlone
  BY <1>3, <1>4 DEF SpansAlone
<1>12. FreeApart
  BY <1>2, <1>3, <1>6 DEF FreeApart, OnQueue
<1>13. WritersApart
  BY <1>3, <1>5, <1>6 DEF WritersApart, Threads
<1>14. CopiersCounted
  <2>1. \A b \in Buffers : Copiers(b) = {}
    BY <1>4 DEF Copiers
  <2> QED
    BY <1>3, <1>4, <2>1, FS_EmptySet DEF CopiersCounted
<1>15. WaitersPlaced
  BY <1>4 DEF WaitersPlaced
<1> QED
  BY <1>7, <1>8, <1>9, <1>10, <1>11, <1>12, <1>13, <1>14, <1>15 DEF LogSound

LEMMA StepSound == LogSound /\ [Next]_vars => LogSound'
<1> SUFFICES ASSUME LogSound, [Next]_vars PROVE LogSound'
  OBVIOUS
<1>1. ASSUME NEW s \in Sessions, InCall(s) PROVE LogSound'
  BY <1>1, AllocateSound, LogOnPageSound, LogSpanSound, SpanNextSound,
     SpanReleaseSound, SpanPlaceSound, CopiedSound, WakeGcmtSound, AttachSound,
     ReturnSound DEF InCall
<1>2. ASSUME NEW s \in Sessions, StartWrite(s) \/ LGforce(s) \/ StrayResume(s)
      PROVE  LogSound'
  BY <1>2, StartWriteSound, LGforceSound, StrayResumeSound
<1>3. ASSUME NEW t \in Threads, Writing(t) PROVE LogSound'
  BY <1>3, WriteBlockSound, CompleteSound, ReturnBuffersSound DEF Writing
<1>4. ASSUME NEW w \in LogWriters, LogWriter(w) PROVE LogSound'
  BY <1>4, ScanSound, RecheckSound, ParkSound DEF LogWriter
<1>5. CASE CheckDead
  BY <1>5, CheckDeadSound
<1>6. CASE GcmtWrite \/ GcmtSleep
  BY <1>6, GcmtWriteSound, GcmtSleepSound
<1>7. CASE UNCHANGED vars
  BY <1>7, StutterSound
<1> QED
  BY <1>1, <1>2, <1>3, <1>4, <1>5, <1>6, <1>7 DEF Next

(* However sessions, logwriters and the group commit thread interleave,    *)
(* the log buffers keep the inductive invariant: what LG_queue_write,      *)
(* write_block, write_complete, LGwrite and LGforce rely on when they take *)
(* a buffer's mutex.                                                       *)
THEOREM LogStaysSound == Spec => []LogSound
<1>1. Init => LogSound
  BY InitSound
<1>2. LogSound /\ [Next]_vars => LogSound'
  BY StepSound
<1> QED
  BY <1>1, <1>2, PTL DEF Spec

(* The write queue is in ascending order of the pages, so no page is on it *)
(* twice: LG_queue_write adds at the end, and the current page comes after *)
(* all that are queued, also while a record is being spanned.              *)
THEOREM QueueOrdered == Spec => []WriteQueueOrder
<1>1. LogSound => WriteQueueOrder
  BY DEF LogSound, Ascending, WriteQueueOrder
<1> QED
  BY <1>1, LogStaysSound, PTL

(* A page is in the hand of one thread, on the write queue, and nobody     *)
(* copies into it or can enter it any more: of the logwriters,             *)
(* LG_check_dead, the sessions and the group commit thread, only one       *)
(* assigns a buffer, and only when lbb_writers is zero.                    *)
THEOREM WrittenWhole == Spec => []PagesWrittenWhole
<1>1. LogSound => PagesWrittenWhole
  BY DEF LogSound, WritersApart, PagesWrittenWhole
<1> QED
  BY <1>1, LogStaysSound, PTL

(* A session on a buffer's wait queue waits for the current page or for    *)
(* one on the write queue: LGforce, Attach and write_complete never leave  *)
(* it on a buffer that was freed or is used again.                         *)
THEOREM WaitersNotStranded == Spec => []NoWaiterInLimbo
<1>1. LogSound => NoWaiterInLimbo
  BY DEF LogSound, WaitersPlaced, NoWaiterInLimbo
<1> QED
  BY <1>1, LogStaysSound, PTL

-------------------------------------------------------------------------------
(* What is on disk.                                                        *)

(* Each record has its pages; only the one that a session spans has no     *)
(* last page yet.                                                          *)
Recorded ==
  /\ rec \in Seq(Nat \X Nat) /\ Len(rec) = lastLsn
  /\ \A l \in 1..lastLsn :
        /\ rec[l][1] \in 1..eof /\ rec[l][2] <= eof
        /\ rec[l][2] = 0 =>
              \E s \in Sessions : sess[s].pc = "span" /\ sess[s].last = l
  /\ \A s \in Sessions : sess[s].pc = "span" =>
        sess[s].last \in 1..lastLsn /\ rec[sess[s].last][2] = 0

(* The pages of the log are in the buffers until they are on disk.         *)
PagesKept ==
  /\ \A p \in 1..eof : p \in disk \/ \E b \in Buffers : Placed(b) /\ lbb[b].page = p
  /\ \A b \in Buffers : lbb[b].current => lbb[b].page \in 1..(eof + 1)

(* A buffer whose I/O is done is on disk.                                  *)
IoDone == \A t \in Threads : \A b \in Members(io[t].todo) : lbb[b].page \in disk

(* lbb_forced_lsn: up to it, records are complete and lie on disk or on    *)
(* pages up to this one.                                                   *)
Covered(l, p) == rec[l][2] # 0 /\ rec[l][1]..rec[l][2] \subseteq disk \cup 0..p

ForcedComplete ==
  \A b \in Buffers : Placed(b) =>
     \A l \in 1..lbb[b].forced : Covered(l, lbb[b].page)

(* lfb_forced_lsn.                                                         *)
ForcedWritten == forcedLsn \in 0..lastLsn /\ \A l \in 1..forcedLsn : OnDisk(l)

DiskSound == Recorded /\ PagesKept /\ IoDone /\ ForcedComplete /\ ForcedWritten

SameRecords ==
  rec' = rec /\ lastLsn' = lastLsn /\ eof' = eof /\ forcedLsn' = forcedLsn

(* No record that is being spanned is left.                                *)
SpansGoOn ==
  \A s \in Sessions : sess[s].pc = "span" =>
     sess'[s].pc = "span" /\ sess'[s].last = sess[s].last

(* Nor is one begun.                                                       *)
NoNewSpan ==
  \A s \in Sessions : sess'[s].pc = "span" =>
     sess[s].pc = "span" /\ sess'[s].last = sess[s].last

LEMMA SpansSame ==
  ASSUME LogSound, LogSound', current' = current, SpansGoOn,
         lbb'[current].current /\ current \in Members(wq')
            => lbb[current].current /\ OnQueue(current)
  PROVE  NoNewSpan
<1>1. SUFFICES ASSUME NEW s \in Sessions, sess'[s].pc = "span"
               PROVE  sess[s].pc = "span" /\ sess'[s].last = sess[s].last
  BY DEF NoNewSpan
<1>2. /\ current \in Members(wq') /\ lbb'[current].current
      /\ lbb'[current].owner = s
  BY <1>1 DEF LogSound, SpansAlone, OnQueue
<1>3. current \in Buffers /\ lbb[current].current /\ OnQueue(current)
  BY <1>2 DEF LogSound, Shape
<1>4. PICK u \in Sessions : sess[u].pc \in {"span", "release"} /\ sess[u].head = current
  BY <1>3 DEF LogSound, SpansAlone
<1>5. sess[u].pc = "span"
  BY <1>3, <1>4 DEF LogSound, SpansAlone
<1>6. sess'[u].pc = "span" /\ sess'[u].last = sess[u].last
  BY <1>5 DEF SpansGoOn
<1>7. lbb'[current].owner = u
  BY <1>6 DEF LogSound, SpansAlone
<1> QED
  BY <1>2, <1>5, <1>6, <1>7

LEMMA DiskStays ==
  ASSUME Shape, DiskSound, SameRecords, SpansGoOn, NoNewSpan, disk \subseteq disk',
         \A x \in Buffers : Placed(x) => Placed(x)' /\ lbb'[x].page = lbb[x].page,
         \A x \in Buffers : Placed(x)' => \/ Placed(x) /\ lbb'[x].forced = lbb[x].forced
                                          \/ lbb'[x].forced = 0,
         \A x \in Buffers : lbb'[x].current =>
            \/ lbb[x].current /\ lbb'[x].page = lbb[x].page
            \/ lbb'[x].page = eof + 1,
         \A t \in Threads : \A b \in Members(io'[t].todo) : lbb'[b].page \in disk'
  PROVE  DiskSound'
<1>1. rec' = rec /\ lastLsn' = lastLsn /\ eof' = eof /\ forcedLsn' = forcedLsn
  BY DEF SameRecords
<1>2. Recorded'
  BY <1>1 DEF DiskSound, Recorded, SpansGoOn, NoNewSpan
<1>3. PagesKept'
  <2>1. ASSUME NEW p \in 1..eof
        PROVE  p \in disk' \/ \E b \in Buffers : Placed(b)' /\ lbb'[b].page = p
    BY DEF DiskSound, PagesKept
  <2>2. \A b \in Buffers : lbb'[b].current => lbb'[b].page \in 1..(eof + 1)
    BY DEF DiskSound, PagesKept, Shape
  <2> QED
    BY <1>1, <2>1, <2>2 DEF PagesKept
<1>4. IoDone'
  BY DEF IoDone
<1>5. ForcedComplete'
  <2>1. ASSUME NEW b \in Buffers, Placed(b)', NEW l \in 1..(lbb'[b].forced)
        PROVE  /\ rec'[l][2] # 0
               /\ rec'[l][1]..rec'[l][2] \subseteq disk' \cup 0..lbb'[b].page
    <3>1. Placed(b) /\ lbb'[b].forced = lbb[b].forced /\ lbb'[b].page = lbb[b].page
      BY <2>1
    <3>2. Covered(l, lbb[b].page)
      BY <2>1, <3>1 DEF DiskSound, ForcedComplete
    <3> QED
      BY <1>1, <3>1, <3>2 DEF Covered
  <2> QED
    BY <2>1 DEF ForcedComplete, Covered
<1>6. ForcedWritten'
  BY <1>1 DEF DiskSound, ForcedWritten, OnDisk
<1> QED
  BY <1>2, <1>3, <1>4, <1>5, <1>6 DEF DiskSound

(* The pages stand still.                                                  *)
LEMMA PagesStand ==
  ASSUME LogSound, LogSound', DiskSound, SameRecords, SpansGoOn, disk' = disk,
         wq' = wq, current' = current,
         \A x \in Buffers : /\ lbb'[x].page = lbb[x].page
                            /\ lbb'[x].forced = lbb[x].forced
                            /\ lbb'[x].current = lbb[x].current,
         \A t \in Threads : io'[t].todo = io[t].todo
  PROVE  DiskSound'
<1>1. \A x \in Buffers : Placed(x)' <=> Placed(x)
  BY DEF Placed, OnQueue, LogSound, Shape
<1>2. \A t \in Threads : Members(io[t].todo) \subseteq Buffers
  BY DEF LogSound, Shape, IoType, Members
<1>3. \A t \in Threads : \A b \in Members(io'[t].todo) : lbb'[b].page \in disk'
  BY <1>2 DEF DiskSound, IoDone
<1>4. NoNewSpan
  <2>1. lbb'[current].current => lbb[current].current
    BY DEF LogSound, Shape
  <2> QED
    BY <2>1, SpansSame DEF OnQueue
<1> QED
  BY <1>1, <1>3, <1>4, DiskStays DEF LogSound

LEMMA PagesMoveOn ==
  ASSUME LogSound, LogSound', DiskSound, SameRecords, SpansGoOn, disk' = disk, PagesMove
  PROVE  DiskSound'
<1>1. CASE lbb' = lbb /\ wq' = wq /\ io' = io /\ current' = current
  BY <1>1, PagesStand
<1>2. ASSUME NEW b \in Buffers, Placed(b), PageStep(b) PROVE DiskSound'
  <2>1. /\ \A x \in Buffers : /\ lbb'[x].page = lbb[x].page
                              /\ lbb'[x].forced = lbb[x].forced
                              /\ lbb'[x].current => lbb[x].current
        /\ \A x \in Buffers \ {b} : lbb'[x] = lbb[x]
        /\ \A t \in Threads : io'[t].todo = io[t].todo
        /\ current' = current /\ current \in Buffers
    BY <1>2 DEF PageStep, LogSound, Shape, BufferType
  <2>2. /\ Members(wq) \subseteq Members(wq') /\ Members(wq') \subseteq Members(wq) \cup {b}
        /\ b \in Members(wq') \/ (b = current /\ lbb'[current].current)
    BY <1>2 DEF PageStep, Placed, OnQueue
  <2>3. \A x \in Buffers : Placed(x)' <=> Placed(x)
    <3>1. Placed(b)'
      BY <2>1, <2>2 DEF Placed, OnQueue
    <3>2. \A x \in Buffers \ {b} : Placed(x)' <=> Placed(x)
      BY <2>1, <2>2 DEF Placed, OnQueue
    <3> QED
      BY <1>2, <3>1, <3>2
  <2>4. \A t \in Threads : Members(io[t].todo) \subseteq Buffers
    BY DEF LogSound, Shape, IoType, Members
  <2>5. \A t \in Threads : \A x \in Members(io'[t].todo) : lbb'[x].page \in disk'
    BY <2>1, <2>4 DEF DiskSound, IoDone
  <2>6. NoNewSpan
    <3>1. lbb'[b].current => Members(wq') = Members(wq)
      BY <1>2 DEF PageStep
    <3>2. lbb'[current].current /\ current \in Members(wq')
             => lbb[current].current /\ OnQueue(current)
      BY <2>1, <2>2, <3>1 DEF OnQueue
    <3> QED
      BY <2>1, <3>2, SpansSame
  <2> QED
    BY <2>1, <2>3, <2>5, <2>6, DiskStays DEF LogSound
<1> QED
  BY <1>1, <1>2 DEF PagesMove

(* Steps of sessions and threads that leave the log and the disk alone.    *)
LEMMA CallsKeepDisk ==
  ASSUME LogSound, LogSound', DiskSound, NEW s \in Sessions,
         StartWrite(s) \/ WakeGcmt(s) \/ Attach(s) \/ Return(s) \/ StrayResume(s)
  PROVE  DiskSound'
<1>1. sess \in [Sessions -> CallType] /\ Shape
  BY DEF LogSound, Shape
<1>2. /\ lbb' = lbb /\ wq' = wq /\ io' = io /\ current' = current
      /\ SameRecords /\ disk' = disk
  BY DEF StartWrite, WakeGcmt, Attach, Return, StrayResume, queues, log, SameRecords
<1>3. SpansGoOn
  <2>1. CASE StrayResume(s)
    BY <1>1, <2>1 DEF StrayResume, SpansGoOn
  <2>2. CASE StartWrite(s) \/ WakeGcmt(s) \/ Attach(s) \/ Return(s)
    <3>1. sess[s].pc # "span"
      BY <2>2 DEF StartWrite, WakeGcmt, Attach, Return, At
    <3>2. \A u \in Sessions \ {s} : sess'[u] = sess[u]
      BY <1>1, <2>2 DEF StartWrite, WakeGcmt, Attach, Return
    <3> QED
      BY <3>1, <3>2 DEF SpansGoOn
  <2> QED
    BY <2>1, <2>2
<1> QED
  BY <1>1, <1>2, <1>3, PagesStand

LEMMA WritersKeepDisk ==
  ASSUME LogSound, LogSound', DiskSound, NEW s \in Sessions,
         LGforce(s) \/ Copied(s) \/ SpanRelease(s)
  PROVE  DiskSound'
<1>1. PagesMove
  BY LGforceSound, CopiedSound, SpanReleaseSound
<1>2. SameRecords /\ disk' = disk
  BY DEF LGforce, Copied, SpanRelease, log, SameRecords
<1>3. SpansGoOn
  <2>1. sess[s].pc # "span"
    BY DEF LGforce, Copied, SpanRelease, At
  <2>2. \A u \in Sessions \ {s} : sess'[u] = sess[u]
    BY DEF LGforce, Copied, SpanRelease, LogSound, Shape
  <2> QED
    BY <2>1, <2>2 DEF SpansGoOn
<1> QED
  BY <1>1, <1>2, <1>3, PagesMoveOn

LEMMA GcmtKeepsDisk ==
  ASSUME LogSound, LogSound', DiskSound, GcmtWrite \/ GcmtSleep \/ UNCHANGED vars
  PROVE  DiskSound'
<1>1. PagesMove
  BY GcmtWriteSound DEF GcmtSleep, vars, PagesMove, queues
<1>2. SameRecords /\ disk' = disk /\ sess' = sess
  BY DEF GcmtWrite, GcmtSleep, vars, log, SameRecords
<1> QED
  BY <1>1, <1>2, PagesMoveOn DEF SpansGoOn

LEMMA LogWritersKeepDisk ==
  ASSUME LogSound, LogSound', DiskSound, (\E w \in LogWriters : LogWriter(w)) \/ CheckDead
  PROVE  DiskSound'
<1>1. /\ SameRecords /\ disk' = disk /\ sess' = sess /\ wq' = wq /\ current' = current
  BY DEF LogWriter, Scan, Recheck, Park, CheckDead, log, SameRecords
<1>2. lbb \in [Buffers -> BufferType] /\ io \in [Threads -> IoType] /\ Shape
  BY DEF LogSound, Shape
<1>3. /\ \A x \in Buffers : /\ lbb'[x].page = lbb[x].page
                            /\ lbb'[x].forced = lbb[x].forced
                            /\ lbb'[x].current = lbb[x].current
      /\ \A t \in Threads : io'[t].todo = io[t].todo
  <2>1. CASE lbb' = lbb /\ io' = io
    BY <2>1
  <2>2. ASSUME NEW b, NEW w, lbb' = [lbb EXCEPT ![b].taken = TRUE],
               io' = [io EXCEPT ![w].buf = b]
        PROVE  <1>3!1 /\ <1>3!2
    <3>1. \A x \in Buffers : lbb'[x] = lbb[x] \/ lbb'[x] = [lbb[x] EXCEPT !.taken = TRUE]
      BY <1>2, <2>2
    <3>2. \A t \in Threads : io'[t] = io[t] \/ io'[t] = [io[t] EXCEPT !.buf = b]
      BY <1>2, <2>2
    <3>3. ASSUME NEW x \in Buffers
          PROVE  /\ lbb'[x].page = lbb[x].page
                 /\ lbb'[x].forced = lbb[x].forced
                 /\ lbb'[x].current = lbb[x].current
      <4>1. CASE lbb'[x] = lbb[x]
        BY <4>1
      <4>2. CASE lbb'[x] = [lbb[x] EXCEPT !.taken = TRUE]
        <5>1. lbb[x] \in BufferType
          BY <1>2
        <5> QED
          BY <4>2, <5>1, MadeTaken DEF SamePage
      <4> QED
        BY <3>1, <4>1, <4>2
    <3>4. ASSUME NEW t \in Threads PROVE io'[t].todo = io[t].todo
      <4>1. io[t] \in IoType
        BY <1>2
      <4>2. LET x == [io[t] EXCEPT !.buf = b] IN x.todo = io[t].todo
        BY <4>1 DEF IoType
      <4> QED
        BY <3>2, <4>2
    <3> QED
      BY <3>3, <3>4
  <2> QED
    BY <2>1, <2>2 DEF LogWriter, Scan, Recheck, Park, CheckDead
<1> QED
  BY <1>1, <1>2, <1>3, PagesStand DEF SpansGoOn

LEMMA ReturnBuffersKeepsDisk ==
  ASSUME LogSound, LogSound', DiskSound, NEW t \in Threads, ReturnBuffers(t)
  PROVE  DiskSound'
<1>1. /\ SameRecords /\ disk' = disk /\ wq' = wq /\ current' = current /\ lbb' = lbb
      /\ io[t].todo = <<>> /\ io' = [io EXCEPT ![t] = NoIo]
  BY DEF ReturnBuffers, log, SameRecords
<1>2. sess \in [Sessions -> CallType] /\ io \in [Threads -> IoType] /\ Shape
  BY DEF LogSound, Shape
<1>3. \A u \in Threads : io'[u].todo = io[u].todo
  BY <1>1, <1>2 DEF NoIo
<1>4. SpansGoOn
  <2>1. \A s \in Sessions : sess[s].pc = "span" => sess'[s] = sess[s]
    BY <1>2 DEF ReturnBuffers
  <2> QED
    BY <2>1 DEF SpansGoOn
<1> QED
  BY <1>1, <1>2, <1>3, <1>4, PagesStand

(* The pages of a write are on disk when its I/O is done.                  *)
LEMMA WriteBlockDisk ==
  ASSUME LogSound, LogSound', DiskSound, NEW t \in Threads, WriteBlock(t)
  PROVE  DiskSound'
<1>1. /\ sess \in [Sessions -> CallType] /\ io \in [Threads -> IoType] /\ Shape
      /\ lbb \in [Buffers -> BufferType] /\ wq \in Seq(Buffers)
  BY DEF LogSound, Shape
<1>2. SameRecords /\ wq' = wq /\ current' = current
  BY DEF WriteBlock, log, SameRecords
<1>3. PICK lo \in DOMAIN wq, hi \in DOMAIN wq :
         LET run == SubSeq(wq, lo, hi)
         IN  /\ Superblock(io[t].buf, lo, hi)
             /\ lbb' = [b \in Buffers |-> IF b \in Members(run)
                                            THEN [lbb[b] EXCEPT !.taken = TRUE] ELSE lbb[b]]
             /\ io' = [io EXCEPT ![t] = [NoIo EXCEPT !.todo = run]]
             /\ disk' = disk \cup {lbb[b].page : b \in Members(run)}
  BY DEF WriteBlock
<1> DEFINE run == SubSeq(wq, lo, hi)
<1>4. Members(run) \subseteq Buffers
  <2>1. io[t].buf # None /\ io[t].buf \in InHand(t)
    BY DEF WriteBlock, InHand
  <2>2. Position(io[t].buf) \in DOMAIN wq
    BY <2>1, PositionOf DEF LogSound, WritersApart
  <2>3. lo <= hi
    BY <1>1, <1>3, <2>2 DEF Superblock
  <2>4. run \in Seq(Buffers)
    BY <1>1, <2>3, RunOfQueue
  <2> HIDE DEF run
  <2> QED
    BY <2>4 DEF Members
<1> HIDE DEF run
<1>5. /\ io' = [io EXCEPT ![t] = [NoIo EXCEPT !.todo = run]]
      /\ disk' = disk \cup {lbb[b].page : b \in Members(run)}
  BY <1>3 DEF run
<1>6. \A x \in Buffers : /\ lbb'[x].page = lbb[x].page
                         /\ lbb'[x].forced = lbb[x].forced
                         /\ lbb'[x].current = lbb[x].current
  <2>1. \A x \in Buffers : lbb'[x] = lbb[x] \/ lbb'[x] = [lbb[x] EXCEPT !.taken = TRUE]
    BY <1>1, <1>3
  <2> QED
    BY <1>1, <2>1 DEF BufferType
<1>7. \A u \in Threads : \A b \in Members(io'[u].todo) : lbb'[b].page \in disk'
  <2>1. \A u \in Threads \ {t} : io'[u].todo = io[u].todo
    BY <1>1, <1>5
  <2>2. \A u \in Threads : Members(io[u].todo) \subseteq Buffers
    BY <1>1 DEF IoType, Members
  <2>3. io'[t].todo = run
    BY <1>1, <1>5 DEF NoIo
  <2>4. \A u \in Threads \ {t} : \A b \in Members(io'[u].todo) : lbb'[b].page \in disk'
    BY <1>5, <1>6, <2>1, <2>2 DEF DiskSound, IoDone
  <2>5. \A b \in Members(io'[t].todo) : lbb'[b].page \in disk'
    BY <1>4, <1>5, <1>6, <2>3
  <2> QED
    BY <2>4, <2>5
<1>8. SpansGoOn
  <2>1. CASE t \in Sessions
    <3> DEFINE r == [sess[t] EXCEPT !.synch = TRUE]
    <3>1. r.pc = sess[t].pc /\ r.last = sess[t].last
      BY <1>1, <2>1 DEF CallType
    <3>2. sess' = [sess EXCEPT ![t] = r]
      BY <1>1, <2>1 DEF WriteBlock
    <3> HIDE DEF r
    <3>3. \A s \in Sessions : sess'[s].pc = sess[s].pc /\ sess'[s].last = sess[s].last
      BY <1>1, <3>1, <3>2
    <3> QED
      BY <3>3 DEF SpansGoOn
  <2>2. CASE t \notin Sessions
    BY <2>2 DEF WriteBlock, SpansGoOn
  <2> QED
    BY <2>1, <2>2
<1>9. \A x \in Buffers : Placed(x)' <=> Placed(x)
  BY <1>1, <1>2, <1>6 DEF Placed, OnQueue, Shape
<1>10. NoNewSpan
  BY <1>1, <1>2, <1>6, <1>8, SpansSame DEF OnQueue, Shape
<1> QED
  BY <1>1, <1>2, <1>5, <1>6, <1>7, <1>8, <1>9, <1>10, DiskStays

(* A new current page is empty, and comes after the end of the log.        *)
LEMMA AllocateDisk ==
  ASSUME LogSound, LogSound', DiskSound, NEW s \in Sessions, Allocate(s)
  PROVE  DiskSound'
<1>1. sess[s].pc \in {"log", "sleep"} /\ sess[s] \in CallType
  BY LoggingSession DEF Allocate
<1>2. /\ SameRecords /\ disk' = disk /\ wq' = wq /\ io' = io
      /\ ~lbb[current].current
  BY DEF Allocate, log, SameRecords
<1>3. /\ sess \in [Sessions -> CallType] /\ lbb \in [Buffers -> BufferType]
      /\ eof \in Nat /\ current \in Buffers
  BY DEF LogSound, Shape
<1>4. CASE sess' = [sess EXCEPT ![s] = Asleep(@)] /\ UNCHANGED <<lbb, current, free>>
  <2>1. \A u \in Sessions \ {s} : sess'[u] = sess[u]
    BY <1>3, <1>4
  <2>2. SpansGoOn
    BY <1>1, <2>1 DEF SpansGoOn
  <2> QED
    BY <1>2, <1>4, <2>2, PagesStand
<1>5. ASSUME NEW b \in fq,
             lbb' = [lbb EXCEPT ![b] = [Fresh(eof + 1) EXCEPT
                                          !.current = TRUE, !.owner = s]],
             current' = b,
             sess' = [sess EXCEPT ![s].pc = "log", ![s].cs = FALSE]
      PROVE  DiskSound'
  <2>1. /\ b \in Buffers /\ ~OnQueue(b)
        /\ \A t \in Threads : b \notin InHand(t)
    BY FreeUnused
  <2>2. \A x \in Buffers \ {b} : lbb'[x] = lbb[x]
    BY <1>3, <1>5
  <2>3. lbb'[b].page = eof + 1 /\ lbb'[b].forced = 0
    <3> DEFINE F == Fresh(eof + 1)
    <3>1. F \in BufferType /\ F.page = eof + 1 /\ F.forced = 0
      BY <1>3, FreshPage
    <3>2. lbb'[b] = [F EXCEPT !.current = TRUE, !.owner = s]
      BY <1>3, <1>5, <2>1
    <3> HIDE DEF F
    <3> QED
      BY <3>1, <3>2 DEF BufferType
  <2>4. \A x \in Buffers : Placed(x) => x # b /\ Placed(x)'
    BY <1>2, <2>1 DEF Placed, OnQueue
  <2>5. \A x \in Buffers : Placed(x)' => x = b \/ (x # b /\ Placed(x))
    BY <1>2, <1>5 DEF Placed, OnQueue
  <2>6. \A t \in Threads : \A x \in Members(io'[t].todo) : lbb'[x].page \in disk'
    <3>1. \A t \in Threads : Members(io[t].todo) \subseteq Buffers \ {b}
      BY <2>1 DEF InHand, LogSound, Shape, IoType, Members
    <3> QED
      BY <1>2, <2>2, <3>1 DEF DiskSound, IoDone
  <2>7. sess'[s].pc = "log" /\ \A u \in Sessions \ {s} : sess'[u] = sess[u]
    <3>1. sess' = [sess EXCEPT ![s] = [sess[s] EXCEPT !.pc = "log", !.cs = FALSE]]
      BY <1>3, <1>5
    <3>2. LET r == [sess[s] EXCEPT !.pc = "log", !.cs = FALSE] IN r.pc = "log"
      BY <1>1 DEF CallType
    <3> QED
      BY <1>3, <3>1, <3>2
  <2>8. SpansGoOn /\ NoNewSpan
    BY <1>1, <2>7 DEF SpansGoOn, NoNewSpan
  <2> QED
    BY <1>2, <2>2, <2>3, <2>4, <2>5, <2>6, <2>8, DiskStays DEF LogSound
<1> QED
  BY <1>4, <1>5 DEF Allocate

(* Whatever enters the current page, the pages stay where they are, or the *)
(* current one goes on the queue.                                          *)
LEMMA CurrentStepPlaces ==
  ASSUME LogSound, NEW s \in Sessions, CurrentStep(s),
         lbb[current].current, ~OnQueue(current)
  PROVE  /\ \A x \in Buffers : Placed(x)' <=> Placed(x)
         /\ \A x \in Buffers : /\ lbb'[x].page = lbb[x].page
                               /\ lbb'[x].current => lbb[x].current
         /\ \A x \in Buffers \ {current} : lbb'[x] = lbb[x]
         /\ Placed(current) /\ current \in Buffers
         /\ lbb[current].page \in Nat /\ eof \in Nat
         /\ eof <= lbb[current].page /\ current' = current /\ io' = io
<1>1. /\ current \in Buffers /\ lbb \in [Buffers -> BufferType] /\ wq \in Seq(Buffers)
      /\ eof \in Nat
  BY DEF LogSound, Shape
<1>2. /\ \A x \in Buffers \ {current} : lbb'[x] = lbb[x]
      /\ lbb'[current].page = lbb[current].page /\ current' = current /\ io' = io
  BY DEF CurrentStep
<1>3. \/ wq' = wq /\ lbb'[current].current
      \/ Members(wq') = Members(wq) \cup {current}
  BY <1>1, EnqueueQueue DEF CurrentStep
<1>4. \A x \in Buffers : Placed(x)' <=> Placed(x)
  BY <1>2, <1>3 DEF Placed, OnQueue
<1> QED
  BY <1>1, <1>2, <1>4 DEF Placed, LogSound, CurrentLast, BufferType

LEMMA SpanPlaceDisk ==
  ASSUME LogSound, LogSound', DiskSound, NEW s \in Sessions, SpanPlace(s)
  PROVE  DiskSound'
<1>1. /\ CurrentStep(s) /\ lbb[current].current /\ ~OnQueue(current)
      /\ sess[s].pc = "place" /\ sess'[s].pc = "copy"
      /\ lbb'[current].forced = lbb[current].forced
  BY SpanPlaceSound
<1>2. SameRecords /\ disk' = disk
  BY DEF SpanPlace, log, SameRecords
<1>3. \A u \in Sessions \ {s} : sess'[u] = sess[u]
  BY <1>1 DEF CurrentStep
<1>4. SpansGoOn /\ NoNewSpan
  BY <1>1, <1>3 DEF SpansGoOn, NoNewSpan
<1>5. /\ \A x \in Buffers : Placed(x)' <=> Placed(x)
      /\ \A x \in Buffers : /\ lbb'[x].page = lbb[x].page
                            /\ lbb'[x].current => lbb[x].current
      /\ \A x \in Buffers \ {current} : lbb'[x] = lbb[x]
      /\ io' = io
  BY <1>1, CurrentStepPlaces
<1>6. \A x \in Buffers : lbb'[x].forced = lbb[x].forced
  BY <1>1, <1>5
<1>7. \A t \in Threads : Members(io[t].todo) \subseteq Buffers
  BY DEF LogSound, Shape, IoType, Members
<1>8. \A t \in Threads : \A x \in Members(io'[t].todo) : lbb'[x].page \in disk'
  BY <1>2, <1>5, <1>7 DEF DiskSound, IoDone
<1> QED
  BY <1>2, <1>4, <1>5, <1>6, <1>8, DiskStays DEF LogSound

(* A new record enters the current page: its last page is q, or is not     *)
(* known yet (0), because session s spans it.                              *)
LEMMA RecordEnters ==
  ASSUME LogSound, DiskSound, NEW s \in Sessions, CurrentStep(s),
         lbb[current].current, ~OnQueue(current),
         \A u \in Sessions : sess[u].pc # "span",
         NEW q \in {0, lbb[current].page},
         rec' = Append(rec, <<lbb[current].page, q>>),
         eof' = lbb[current].page, lastLsn' = lastLsn + 1,
         sess'[s].pc = "span" <=> q = 0,
         sess'[s].last = lastLsn + 1,
         lbb'[current].forced \in Nat, lbb'[current].forced <= lastLsn + 1,
         q = 0 => lbb'[current].forced <= lastLsn,
         forcedLsn' = forcedLsn, disk' = disk
  PROVE  DiskSound'
<1> DEFINE p == lbb[current].page
<1>1. /\ \A x \in Buffers : Placed(x)' <=> Placed(x)
      /\ \A x \in Buffers : /\ lbb'[x].page = lbb[x].page
                            /\ lbb'[x].current => lbb[x].current
      /\ \A x \in Buffers \ {current} : lbb'[x] = lbb[x]
      /\ Placed(current) /\ current \in Buffers
      /\ p \in Nat /\ eof \in Nat /\ eof <= p /\ current' = current /\ io' = io
  BY CurrentStepPlaces
<1>2. p \in 1..(eof + 1)
  BY <1>1 DEF DiskSound, PagesKept
<1>3. /\ rec \in Seq(Nat \X Nat) /\ Len(rec) = lastLsn /\ lastLsn \in Nat
      /\ rec' \in Seq(Nat \X Nat) /\ Len(rec') = lastLsn + 1
      /\ \A l \in 1..lastLsn : rec'[l] = rec[l]
      /\ rec'[lastLsn + 1] = <<p, q>>
  BY <1>1 DEF DiskSound, Recorded, LogSound, Shape
<1>4. \A u \in Sessions \ {s} : sess'[u] = sess[u]
  BY DEF CurrentStep
<1> HIDE DEF p
<1>5. eof' = p /\ p \in Nat
  BY <1>1 DEF p
<1>6. \A l \in 1..lastLsn : /\ rec[l][1] \in 1..eof /\ rec[l][2] <= eof
                            /\ rec[l][1] \in Nat /\ rec[l][2] \in Nat /\ rec[l][2] # 0
  <2>1. ASSUME NEW l \in 1..lastLsn PROVE rec[l][1] \in Nat /\ rec[l][2] \in Nat
    <3>1. rec[l] \in Nat \X Nat
      BY <1>3
    <3> QED
      BY <3>1
  <2>2. \A l \in 1..lastLsn : /\ rec[l][1] \in 1..eof /\ rec[l][2] <= eof
                              /\ rec[l][2] # 0
    BY DEF DiskSound, Recorded
  <2> QED
    BY <2>1, <2>2
<1>7. Recorded'
  <2>1. ASSUME NEW l \in 1..(lastLsn + 1)
        PROVE  /\ rec'[l][1] \in 1..p /\ rec'[l][2] <= p
               /\ rec'[l][2] = 0 =>
                    \E u \in Sessions : sess'[u].pc = "span" /\ sess'[u].last = l
    <3>1. CASE l = lastLsn + 1
      BY <1>2, <1>3, <3>1 DEF p
    <3>2. CASE l # lastLsn + 1
      <4>1. l \in 1..lastLsn
        BY <1>3, <3>2
      <4> QED
        BY <1>1, <1>3, <1>6, <4>1 DEF p
    <3> QED
      BY <3>1, <3>2
  <2>2. ASSUME NEW u \in Sessions, sess'[u].pc = "span"
        PROVE  sess'[u].last \in 1..(lastLsn + 1) /\ rec'[sess'[u].last][2] = 0
    <3>1. u = s
      BY <1>4, <2>2
    <3> QED
      BY <1>3, <2>2, <3>1
  <2> QED
    BY <1>3, <1>5, <2>1, <2>2 DEF Recorded
<1>8. PagesKept'
  <2>1. ASSUME NEW x \in 1..p
        PROVE  x \in disk' \/ \E b \in Buffers : Placed(b)' /\ lbb'[b].page = x
    <3>1. CASE x \in 1..eof
      BY <1>1, <3>1 DEF DiskSound, PagesKept
    <3>2. CASE x \notin 1..eof
      <4>1. x = p
        BY <1>1, <1>2, <3>2 DEF p
      <4> QED
        BY <1>1, <4>1 DEF p
    <3> QED
      BY <3>1, <3>2
  <2>2. \A b \in Buffers : lbb'[b].current => lbb'[b].page \in 1..(p + 1)
    BY <1>1 DEF DiskSound, PagesKept, p
  <2> QED
    BY <1>5, <2>1, <2>2 DEF PagesKept
<1>9. IoDone'
  <2>1. \A t \in Threads : Members(io[t].todo) \subseteq Buffers
    BY DEF LogSound, Shape, IoType, Members
  <2> QED
    BY <1>1, <2>1 DEF DiskSound, IoDone
<1>10. \A l \in 1..lastLsn : \A c \in Nat : Covered(l, c) =>
          rec'[l][2] # 0 /\ rec'[l][1]..rec'[l][2] \subseteq disk' \cup 0..c
  BY <1>3 DEF Covered
<1>11. ForcedComplete'
  <2>1. ASSUME NEW b \in Buffers \ {current}, Placed(b)', NEW l \in 1..(lbb'[b].forced)
        PROVE  rec'[l][2] # 0 /\ rec'[l][1]..rec'[l][2] \subseteq disk' \cup 0..lbb'[b].page
    <3>1. /\ Placed(b) /\ lbb'[b] = lbb[b] /\ lbb[b].forced <= lastLsn
          /\ lbb[b].forced \in Nat /\ lbb[b].page \in Nat
      BY <1>1, <2>1 DEF LogSound, LsnsGiven, Shape, BufferType
    <3>2. Covered(l, lbb[b].page) /\ l \in 1..lastLsn
      BY <1>3, <2>1, <3>1 DEF DiskSound, ForcedComplete
    <3> QED
      BY <1>10, <3>1, <3>2
  <2>2. ASSUME NEW l \in 1..(lbb'[current].forced)
        PROVE  rec'[l][2] # 0 /\ rec'[l][1]..rec'[l][2] \subseteq disk' \cup 0..p
    <3>1. CASE l \in 1..lastLsn
      <4>1. rec'[l][1]..rec'[l][2] \subseteq 0..p /\ rec'[l][2] # 0
        BY <1>1, <1>3, <1>6, <3>1 DEF p
      <4> QED
        BY <4>1
    <3>2. CASE l \notin 1..lastLsn
      <4>1. l = lastLsn + 1 /\ q # 0
        BY <1>3, <2>2, <3>2
      <4>2. rec'[l] = <<p, p>>
        BY <1>3, <4>1 DEF p
      <4>3. rec'[l][1] = p /\ rec'[l][2] = p
        <5>1. p \in Nat
          BY <1>1
        <5>2. <<p, p>>[1] = p /\ <<p, p>>[2] = p
          BY <5>1
        <5> QED
          BY <4>2, <5>2, Zenon
      <4>4. p \in Nat /\ p # 0
        BY <1>1, <1>2 DEF p
      <4>5. p..p \subseteq 0..p
        BY <4>4
      <4>6. rec'[l][1]..rec'[l][2] \subseteq 0..p
        BY <4>3, <4>5, Zenon
      <4> QED
        BY <4>3, <4>4, <4>6
    <3> QED
      BY <3>1, <3>2
  <2>3. lbb'[current].page = p
    BY <1>1 DEF p
  <2> QED
    BY <2>1, <2>2, <2>3 DEF ForcedComplete, Covered
<1>12. ForcedWritten'
  BY <1>3 DEF DiskSound, ForcedWritten, OnDisk
<1> QED
  BY <1>7, <1>8, <1>9, <1>11, <1>12 DEF DiskSound

LEMMA LogOnPageDisk ==
  ASSUME LogSound, DiskSound, NEW s \in Sessions, LogOnPage(s)
  PROVE  DiskSound'
<1>1. /\ CurrentStep(s) /\ lbb[current].current /\ ~OnQueue(current)
      /\ \A u \in Sessions : sess[u].pc # "span"
      /\ sess'[s].pc = "copy" /\ sess'[s].last = lastLsn + 1
      /\ lastLsn' = lastLsn + 1 /\ eof' = lbb[current].page
      /\ lbb'[current].forced = lastLsn + 1
  BY LogOnPageSound
<1> DEFINE q == lbb[current].page
<1>2. rec' = Append(rec, <<lbb[current].page, q>>)
  BY <1>1 DEF LogOnPage
<1>3. forcedLsn' = forcedLsn /\ disk' = disk /\ lastLsn \in Nat
  BY DEF LogOnPage, LogSound, Shape
<1>4. q # 0
  <2>1. current \in Buffers /\ eof \in Nat
    BY DEF LogSound, Shape
  <2>2. q \in 1..(eof + 1)
    BY <1>1, <2>1 DEF DiskSound, PagesKept
  <2> QED
    BY <2>1, <2>2
<1>5. q \in {0, lbb[current].page}
  OBVIOUS
<1> HIDE DEF q
<1> QED
  BY <1>1, <1>2, <1>3, <1>4, <1>5, RecordEnters

LEMMA LogSpanDisk ==
  ASSUME LogSound, LogSound', DiskSound, NEW s \in Sessions, LogSpan(s)
  PROVE  DiskSound'
<1>1. /\ CurrentStep(s) /\ lbb[current].current /\ ~OnQueue(current)
      /\ \A u \in Sessions : sess[u].pc # "span"
  BY LogSpanSound
<1>2. /\ forcedLsn' = forcedLsn /\ disk' = disk /\ current \in Buffers
      /\ lbb \in [Buffers -> BufferType]
  BY DEF LogSpan, LogSound, Shape
<1>3. CASE /\ sess'[s].pc = "sleep" /\ UNCHANGED log
           /\ lbb'[current].forced = lbb[current].forced
  <2>1. \A u \in Sessions \ {s} : sess'[u] = sess[u]
    BY <1>1 DEF CurrentStep
  <2>2. SpansGoOn /\ NoNewSpan
    BY <1>1, <1>3, <2>1 DEF SpansGoOn, NoNewSpan
  <2>3. /\ \A x \in Buffers : Placed(x)' <=> Placed(x)
        /\ \A x \in Buffers : /\ lbb'[x].page = lbb[x].page
                              /\ lbb'[x].current => lbb[x].current
        /\ \A x \in Buffers \ {current} : lbb'[x] = lbb[x]
        /\ io' = io
    BY <1>1, CurrentStepPlaces
  <2>4. \A x \in Buffers : lbb'[x].forced = lbb[x].forced
    BY <1>3, <2>3
  <2>5. \A t \in Threads : Members(io[t].todo) \subseteq Buffers
    BY DEF LogSound, Shape, IoType, Members
  <2>6. \A t \in Threads : \A x \in Members(io'[t].todo) : lbb'[x].page \in disk'
    BY <1>2, <2>3, <2>5 DEF DiskSound, IoDone
  <2>7. SameRecords
    BY <1>2, <1>3 DEF log, SameRecords
  <2> QED
    BY <1>2, <2>2, <2>3, <2>4, <2>6, <2>7, DiskStays DEF LogSound
<1>4. CASE /\ sess'[s].pc = "span" /\ sess'[s].last = lastLsn + 1
           /\ lastLsn' = lastLsn + 1 /\ eof' = lbb[current].page
           /\ rec' = Append(rec, <<lbb[current].page, 0>>)
           /\ lbb'[current].forced = lbb[current].last
  <2> DEFINE q == 0
  <2>1. /\ lbb'[current].forced \in Nat /\ lbb'[current].forced <= lastLsn
        /\ lastLsn \in Nat
    BY <1>2, <1>4 DEF LogSound, Shape, LsnsGiven, BufferType
  <2>2. lbb'[current].forced <= lastLsn + 1
    BY <2>1
  <2>3. /\ q \in {0, lbb[current].page} /\ sess'[s].pc = "span" <=> q = 0
        /\ rec' = Append(rec, <<lbb[current].page, q>>)
    BY <1>4
  <2> HIDE DEF q
  <2> QED
    BY <1>1, <1>2, <1>4, <2>1, <2>2, <2>3, RecordEnters
<1> QED
  BY <1>3, <1>4, LogSpanSound

LEMMA PairExcept ==
  ASSUME NEW p \in Nat \X Nat, NEW e \in Nat
  PROVE  /\ [p EXCEPT ![2] = e] \in Nat \X Nat
         /\ [p EXCEPT ![2] = e][1] = p[1] /\ [p EXCEPT ![2] = e][2] = e
<1>1. PICK x \in Nat, y \in Nat : p = <<x, y>>
  OBVIOUS
<1>2. [p EXCEPT ![2] = e] = <<x, e>>
  BY <1>1
<1> QED
  BY <1>1, <1>2

(* A record that is spanned gets its next page, or its last.               *)
LEMMA SpanNextDisk ==
  ASSUME LogSound, DiskSound, NEW s \in Sessions, SpanNext(s)
  PROVE  DiskSound'
<1>1. PICK b \in fq : SpanStep(s, b)
  BY SpanNextSound
<1>2. /\ sess[s].pc = "span" /\ OnQueue(current) /\ lbb[current].current
      /\ lbb[current].owner = s
  BY SpanNextSound DEF LogSound, SpansAlone
<1>3. \A u \in Sessions \ {s} : sess[u].pc # "span" /\ sess'[u] = sess[u]
  BY <1>1, <1>2 DEF LogSound, SpansAlone, SpanStep
<1>4. b \in Buffers /\ ~OnQueue(b) /\ \A t \in Threads : b \notin InHand(t)
  BY FreeUnused
<1> DEFINE l == sess[s].last
<1>5. /\ l \in 1..lastLsn /\ rec[l][2] = 0 /\ lastLsn \in Nat /\ eof \in Nat
      /\ rec \in Seq(Nat \X Nat) /\ Len(rec) = lastLsn /\ wq \in Seq(Buffers)
      /\ lbb \in [Buffers -> BufferType]
  BY <1>2 DEF DiskSound, Recorded, LogSound, Shape
<1>6. /\ lastLsn' = lastLsn /\ eof' = eof + 1 /\ forcedLsn' = forcedLsn /\ disk' = disk
      /\ lbb'[b].page = eof + 1 /\ sess'[s].last = l
      /\ \A x \in Buffers \ {b} : lbb'[x] = lbb[x]
      /\ \A t \in Threads : io'[t].todo = io[t].todo
  BY <1>1 DEF SpanNext, SpanStep
<1> HIDE DEF l
<1>7. \/ /\ wq' = Enqueue(b) /\ current' = current
         /\ lbb'[b].forced = 0 /\ rec' = rec /\ sess'[s].pc = "span"
      \/ /\ wq' = wq /\ current' = b /\ lbb'[b].current /\ lbb'[b].forced = l
         /\ rec' = [rec EXCEPT ![l][2] = eof + 1] /\ sess'[s].pc = "release"
  BY <1>1 DEF SpanStep, l
<1>8. /\ rec' \in Seq(Nat \X Nat) /\ Len(rec') = lastLsn
      /\ \A k \in 1..lastLsn : rec'[k][1] = rec[k][1] /\ (k # l => rec'[k] = rec[k])
      /\ \/ sess'[s].pc = "span" /\ rec'[l][2] = 0
         \/ sess'[s].pc = "release" /\ rec'[l][2] = eof + 1
  <2>1. CASE rec' = rec /\ sess'[s].pc = "span"
    BY <1>5, <2>1
  <2>2. CASE rec' = [rec EXCEPT ![l][2] = eof + 1] /\ sess'[s].pc = "release"
    <3> DEFINE r == [rec[l] EXCEPT ![2] = eof + 1]
    <3>1. rec[l] \in Nat \X Nat /\ eof + 1 \in Nat
      BY <1>5
    <3>2. r \in Nat \X Nat /\ r[1] = rec[l][1] /\ r[2] = eof + 1
      BY <3>1, PairExcept
    <3>3. rec' = [rec EXCEPT ![l] = r]
      BY <2>2
    <3> HIDE DEF r
    <3>4. rec' \in Seq(Nat \X Nat) /\ Len(rec') = Len(rec)
      BY <1>5, <3>2, <3>3
    <3>5. rec'[l] = r /\ \A k \in 1..lastLsn : k # l => rec'[k] = rec[k]
      BY <1>5, <3>3
    <3> QED
      BY <1>5, <2>2, <3>2, <3>4, <3>5
  <2> QED
    BY <1>7, <2>1, <2>2
<1>9. /\ Placed(b)' /\ ~Placed(b) /\ \A x \in Buffers : Placed(x) => Placed(x)'
      /\ \A x \in Buffers : Placed(x)' => x = b \/ Placed(x)
  <2>1. \/ Members(wq') = Members(wq) \cup {b} /\ current' = current
        \/ wq' = wq /\ current' = b /\ lbb'[b].current
    BY <1>4, <1>5, <1>7, EnqueueQueue
  <2>2. current # b
    BY <1>2, <1>4
  <2> QED
    BY <1>2, <1>4, <2>1, <2>2 DEF Placed, OnQueue
<1>10. \A k \in 1..lastLsn : /\ rec[k][1] \in 1..eof /\ rec[k][2] <= eof
                             /\ k # l => rec[k][2] # 0
                             /\ rec[k][1] \in Nat /\ rec[k][2] \in Nat
  <2>1. ASSUME NEW k \in 1..lastLsn PROVE rec[k][1] \in Nat /\ rec[k][2] \in Nat
    <3>1. rec[k] \in Nat \X Nat
      BY <1>5
    <3> QED
      BY <3>1
  <2>2. \A k \in 1..lastLsn : /\ rec[k][1] \in 1..eof /\ rec[k][2] <= eof
                              /\ k # l => rec[k][2] # 0
    BY <1>3 DEF DiskSound, Recorded, l
  <2> QED
    BY <2>1, <2>2
<1>11. Recorded'
  <2>1. ASSUME NEW k \in 1..lastLsn
        PROVE  /\ rec'[k][1] \in 1..(eof + 1) /\ rec'[k][2] <= eof + 1
               /\ rec'[k][2] = 0 =>
                    \E u \in Sessions : sess'[u].pc = "span" /\ sess'[u].last = k
    <3>1. rec'[k][1] \in 1..(eof + 1)
      BY <1>5, <1>8, <1>10
    <3>2. CASE k = l
      BY <1>5, <1>6, <1>8, <3>1, <3>2
    <3>3. CASE k # l
      BY <1>5, <1>8, <1>10, <3>1, <3>3
    <3> QED
      BY <3>2, <3>3
  <2>2. ASSUME NEW u \in Sessions, sess'[u].pc = "span"
        PROVE  sess'[u].last \in 1..lastLsn /\ rec'[sess'[u].last][2] = 0
    BY <1>3, <1>5, <1>6, <1>8, <2>2
  <2> QED
    BY <1>6, <1>8, <2>1, <2>2 DEF Recorded
<1>12. PagesKept'
  <2>1. ASSUME NEW p \in 1..(eof + 1)
        PROVE  p \in disk \/ \E x \in Buffers : Placed(x)' /\ lbb'[x].page = p
    <3>1. CASE p = eof + 1
      BY <1>4, <1>6, <1>9, <3>1
    <3>2. CASE p # eof + 1
      <4>1. p \in 1..eof
        BY <1>5, <3>2
      <4> QED
        BY <1>6, <1>9, <4>1 DEF DiskSound, PagesKept
    <3> QED
      BY <3>1, <3>2
  <2>2. ASSUME NEW x \in Buffers, lbb'[x].current PROVE lbb'[x].page \in 1..(eof + 2)
    <3>1. CASE x = b
      BY <1>5, <1>6, <3>1
    <3>2. CASE x # b
      <4>1. lbb[x].page \in 1..(eof + 1) /\ lbb'[x] = lbb[x]
        BY <1>6, <2>2, <3>2 DEF DiskSound, PagesKept
      <4> QED
        BY <1>5, <4>1
    <3> QED
      BY <3>1, <3>2
  <2> QED
    BY <1>5, <1>6, <2>1, <2>2 DEF PagesKept
<1>13. IoDone'
  <2>1. \A t \in Threads : Members(io[t].todo) \subseteq Buffers \ {b}
    BY <1>4 DEF InHand, LogSound, Shape, IoType, Members
  <2> QED
    BY <1>6, <2>1 DEF DiskSound, IoDone
<1>14. ForcedComplete'
  <2>1. ASSUME NEW x \in Buffers \ {b}, Placed(x)', NEW k \in 1..(lbb'[x].forced)
        PROVE  rec'[k][2] # 0 /\ rec'[k][1]..rec'[k][2] \subseteq disk' \cup 0..lbb'[x].page
    <3>1. /\ Placed(x) /\ lbb'[x] = lbb[x] /\ lbb[x].forced <= lastLsn
          /\ lbb[x].forced \in Nat
      BY <1>5, <1>6, <1>9, <2>1 DEF LogSound, LsnsGiven, BufferType
    <3>2. k \in 1..lastLsn
      BY <1>5, <2>1, <3>1
    <3>3. rec[k][2] # 0 /\ rec[k][1]..rec[k][2] \subseteq disk \cup 0..lbb[x].page
      BY <2>1, <3>1 DEF DiskSound, ForcedComplete, Covered
    <3>4. rec'[k] = rec[k]
      BY <1>5, <1>8, <3>2, <3>3
    <3> QED
      BY <1>6, <3>1, <3>3, <3>4
  <2>2. ASSUME NEW k \in 1..(lbb'[b].forced)
        PROVE  rec'[k][2] # 0 /\ rec'[k][1]..rec'[k][2] \subseteq disk' \cup 0..lbb'[b].page
    <3>6. lbb'[b].forced # 0
      BY <2>2
    <3>1. sess'[s].pc = "release" /\ lbb'[b].forced = l
      BY <1>7, <3>6
    <3>2. k \in 1..l /\ l \in 1..lastLsn
      BY <1>5, <2>2, <3>1
    <3>5. k \in 1..lastLsn
      BY <1>5, <3>2
    <3>3. /\ rec'[k][1] \in Nat /\ rec'[k][2] \in Nat /\ rec'[k][2] <= eof + 1
          /\ rec'[k][2] # 0
      <4>1. CASE k = l
        <5>1. rec'[k][1] = rec[k][1] /\ rec'[k][2] = eof + 1
          BY <1>8, <3>1, <3>5, <4>1
        <5> QED
          BY <1>5, <1>10, <3>5, <5>1
      <4>2. CASE k # l
        <5>1. rec'[k] = rec[k]
          BY <1>8, <3>5, <4>2
        <5> QED
          BY <1>5, <1>10, <3>5, <4>2, <5>1
      <4> QED
        BY <4>1, <4>2
    <3>4. rec'[k][1]..rec'[k][2] \subseteq 0..(eof + 1)
      <4>1. ASSUME NEW x \in Nat, NEW y \in Nat, y <= eof + 1 PROVE x..y \subseteq 0..(eof + 1)
        BY <1>5, <4>1
      <4> QED
        BY <3>3, <4>1
    <3> QED
      BY <1>6, <3>3, <3>4
  <2> QED
    BY <2>1, <2>2 DEF ForcedComplete, Covered
<1>15. ForcedWritten'
  <2>1. forcedLsn \in 0..lastLsn
    BY DEF DiskSound, ForcedWritten
  <2>2. ASSUME NEW k \in 1..forcedLsn
        PROVE  rec'[k][2] # 0 /\ rec'[k][1]..rec'[k][2] \subseteq disk
    <3>1. k \in 1..lastLsn /\ rec[k][2] # 0 /\ rec[k][1]..rec[k][2] \subseteq disk
      BY <1>5, <2>1 DEF DiskSound, ForcedWritten, OnDisk
    <3> QED
      BY <1>5, <1>8, <3>1
  <2> QED
    BY <1>6, <2>1, <2>2 DEF ForcedWritten, OnDisk
<1> QED
  BY <1>11, <1>12, <1>13, <1>14, <1>15 DEF DiskSound

-------------------------------------------------------------------------------
(* A written buffer leaves the queue.                                      *)

(* When page b is on disk, so are those that come before it in the log, up *)
(* to the page before it on the queue.                                     *)
LEMMA PagesBefore ==
  ASSUME LogSound, DiskSound, NEW b \in Buffers, OnQueue(b), lbb[b].page \in disk,
         NEW p \in Nat \ {0}, p <= lbb[b].page,
         Before(b) # None => lbb[Before(b)].page < p
  PROVE  p \in disk
<1>1. /\ wq \in Seq(Buffers) /\ Position(b) \in 1..Len(wq) /\ wq[Position(b)] = b
      /\ Len(wq) \in Nat /\ lbb \in [Buffers -> BufferType] /\ eof \in Nat
      /\ lbb[b].page \in Nat /\ lbb[b].page <= eof
  <2>1. /\ wq \in Seq(Buffers) /\ lbb \in [Buffers -> BufferType] /\ eof \in Nat
    BY DEF LogSound, Shape
  <2>2. Position(b) \in 1..Len(wq) /\ wq[Position(b)] = b /\ Len(wq) \in Nat
    BY <2>1, PositionOf
  <2>3. lbb[b].page <= eof
    BY DEF LogSound, WithinLog, OnQueue
  <2>4. lbb[b].page \in Nat
    BY <2>1 DEF BufferType
  <2> QED
    BY <2>1, <2>2, <2>3, <2>4
<1>2. SUFFICES ASSUME p # lbb[b].page, NEW x \in Buffers, Placed(x), lbb[x].page = p
               PROVE  FALSE
  BY <1>1 DEF DiskSound, PagesKept
<1>3. OnQueue(x)
  BY <1>1, <1>2 DEF Placed, LogSound, CurrentLast, OnQueue
<1>4. Position(x) \in 1..Len(wq) /\ wq[Position(x)] = x
  BY <1>1, <1>3, PositionOf
<1>5. Position(x) < Position(b)
  BY <1>1, <1>2, <1>4 DEF LogSound, Ascending
<1> DEFINE i == Position(x)
           j == Position(b) - 1
<1>6. i \in 1..Len(wq) /\ j \in 1..Len(wq) /\ i <= j /\ Position(b) # 1
  BY <1>1, <1>4, <1>5
<1>7. Before(b) = wq[j]
  BY <1>6 DEF Before
<1>8. wq[j] \in Buffers /\ wq[j] # None
  BY <1>1, <1>6, ThreadsAssumption
<1>9. lbb[wq[j]].page < p /\ lbb[wq[j]].page \in Nat
  BY <1>1, <1>7, <1>8 DEF BufferType
<1>10. wq[i] = x
  BY <1>4
<1> HIDE DEF i, j
<1>11. i = j \/ lbb[wq[i]].page < lbb[wq[j]].page
  BY <1>1, <1>6 DEF LogSound, Ascending
<1> QED
  BY <1>2, <1>9, <1>10, <1>11

LEMMA CompleteDisk ==
  ASSUME LogSound, LogSound', DiskSound, NEW t \in Threads, Complete(t)
  PROVE  DiskSound'
<1> DEFINE b == Head(io[t].todo)
           g == Before(b)
<1>1. Completed(t, b)
  BY CompleteSound
<1>2. /\ lastLsn' = lastLsn /\ eof' = eof /\ rec' = rec /\ disk' = disk
      /\ forcedLsn' = IF g = None /\ lbb[b].forced # 0 THEN lbb[b].forced ELSE forcedLsn
  BY DEF Complete, log, NowForced
<1> HIDE DEF b, g
<1>3. /\ b \in Buffers /\ OnQueue(b) /\ ~lbb[b].current /\ b \in Members(io[t].todo)
      /\ Members(wq') = Members(wq) \ {b} /\ current' = current
      /\ \A x \in Buffers \ {b} :
            /\ lbb'[x].page = lbb[x].page /\ lbb'[x].current = lbb[x].current
            /\ lbb'[x].forced = IF x = g THEN Higher(lbb[b].forced, lbb[x].forced)
                                         ELSE lbb[x].forced
      /\ ~lbb'[b].current
  BY <1>1 DEF Completed, g
<1>4. /\ Members(io'[t].todo) = Members(io[t].todo) \ {b}
      /\ \A u \in Threads \ {t} : io'[u] = io[u]
      /\ \A s \in Sessions : sess'[s].pc = sess[s].pc /\ sess'[s].last = sess[s].last
  BY <1>1 DEF Completed
<1>5. /\ lbb \in [Buffers -> BufferType] /\ current \in Buffers /\ eof \in Nat
      /\ lastLsn \in Nat
  BY DEF LogSound, Shape
<1>6. lbb[b].page \in disk
  BY <1>3 DEF DiskSound, IoDone
<1>7. \A x \in Buffers : Placed(x)' <=> (Placed(x) /\ x # b)
  <2>1. ASSUME NEW x \in Buffers
        PROVE  /\ x \in Members(wq') <=> (x \in Members(wq) /\ x # b)
               /\ (x = current /\ lbb'[current].current)
                     <=> (x = current /\ lbb[current].current /\ x # b)
    <3>1. x \in Members(wq') <=> (x \in Members(wq) /\ x # b)
      BY <1>3
    <3>2. CASE x = b
      BY <1>3, <3>1, <3>2
    <3>3. CASE x # b
      BY <1>3, <3>1, <3>3
    <3> QED
      BY <3>2, <3>3
  <2>2. ASSUME NEW x \in Buffers
        PROVE  Placed(x)' <=> (x \in Members(wq') \/ (x = current /\ lbb'[current].current))
    BY <1>3 DEF Placed, OnQueue
  <2>3. ASSUME NEW x \in Buffers
        PROVE  Placed(x) <=> (x \in Members(wq) \/ (x = current /\ lbb[current].current))
    BY DEF Placed, OnQueue
  <2>4. ASSUME NEW x \in Buffers PROVE Placed(x)' <=> (Placed(x) /\ x # b)
    <3>1. Placed(x)' <=> \/ x \in Members(wq) /\ x # b
                         \/ x = current /\ lbb[current].current /\ x # b
      BY <2>1, <2>2
    <3> QED
      BY <2>3, <3>1
  <2> QED
    BY <2>4
<1>8. Recorded'
  <2>1. lastLsn' = lastLsn /\ eof' = eof /\ rec' = rec
    BY <1>2
  <2>2. SpansGoOn /\ NoNewSpan
    BY <1>4 DEF SpansGoOn, NoNewSpan
  <2> QED
    BY <2>1, <2>2 DEF DiskSound, Recorded, SpansGoOn, NoNewSpan
<1>9. PagesKept'
  <2>1. ASSUME NEW p \in 1..eof
        PROVE  p \in disk \/ \E x \in Buffers : Placed(x)' /\ lbb'[x].page = p
    <3>1. CASE p \in disk
      BY <3>1
    <3>2. CASE p \notin disk
      <4>1. PICK x \in Buffers : Placed(x) /\ lbb[x].page = p
        BY <3>2 DEF DiskSound, PagesKept
      <4>2. x # b
        BY <1>6, <3>2, <4>1
      <4> QED
        BY <1>3, <1>7, <4>1, <4>2
    <3> QED
      BY <3>1, <3>2
  <2>2. \A x \in Buffers : lbb'[x].current => lbb'[x].page \in 1..(eof + 1)
    BY <1>3 DEF DiskSound, PagesKept
  <2> QED
    BY <1>2, <2>1, <2>2 DEF PagesKept
<1>10. IoDone'
  <2>1. ASSUME NEW u \in Threads, NEW x \in Members(io'[u].todo)
        PROVE  lbb'[x].page \in disk
    <3>1. x \in Members(io[u].todo) /\ x # b
      <4>1. CASE u = t
        BY <1>4, <2>1, <4>1
      <4>2. CASE u # t
        <5>1. x \in Members(io[u].todo)
          BY <1>4, <2>1, <4>2
        <5>2. x \in InHand(u) /\ b \in InHand(t)
          BY <1>3, <5>1 DEF InHand
        <5>3. InHand(t) \cap InHand(u) = {}
          BY <4>2 DEF LogSound, WritersApart
        <5> QED
          BY <5>1, <5>2, <5>3
      <4> QED
        BY <4>1, <4>2
    <3>2. x \in Buffers
      BY <3>1 DEF LogSound, Shape, IoType, Members
    <3> QED
      BY <1>3, <3>1, <3>2 DEF DiskSound, IoDone
  <2> QED
    BY <1>2, <2>1 DEF IoDone
<1>11. \A l \in 1..lastLsn : rec[l][1] \in Nat \ {0} /\ rec[l][2] \in Nat
  <2>1. \A l \in 1..lastLsn : rec[l] \in Nat \X Nat /\ rec[l][1] \in 1..eof
    BY DEF DiskSound, Recorded
  <2> QED
    BY <2>1
<1>12. ASSUME NEW l \in 1..lbb[b].forced
       PROVE  /\ l \in 1..lastLsn /\ rec[l][2] # 0
              /\ IF g = None THEN rec[l][1]..rec[l][2] \subseteq disk
                             ELSE rec[l][1]..rec[l][2] \subseteq disk \cup 0..lbb[g].page
  <2>1. rec[l][2] # 0 /\ rec[l][1]..rec[l][2] \subseteq disk \cup 0..lbb[b].page
    BY <1>3 DEF Placed, DiskSound, ForcedComplete, Covered
  <2>2. l \in 1..lastLsn
    BY <1>3, <1>5 DEF LogSound, LsnsGiven, BufferType
  <2>3. /\ rec[l][1] \in Nat \ {0} /\ rec[l][2] \in Nat
        /\ \A p \in rec[l][1]..rec[l][2] : p \in Nat \ {0}
    BY <1>11, <2>2
  <2>4. lbb[b].page \in Nat /\ (g # None => lbb[g].page \in Nat)
    BY <1>3, <1>5, BeforeQueued DEF LogSound, BufferType, g
  <2>5. ASSUME NEW p \in rec[l][1]..rec[l][2], g # None => lbb[g].page < p PROVE p \in disk
    <3>1. p \in Nat \ {0} /\ (p \in disk \/ p <= lbb[b].page)
      BY <2>1, <2>3, <2>4
    <3> QED
      BY <1>3, <1>6, <2>5, <3>1, PagesBefore DEF g
  <2>6. CASE g = None
    BY <2>1, <2>2, <2>5, <2>6
  <2>7. CASE g # None
    <3>1. ASSUME NEW p \in rec[l][1]..rec[l][2] PROVE p \in disk \cup 0..lbb[g].page
      BY <2>3, <2>4, <2>5, <2>7
    <3> QED
      BY <2>1, <2>2, <2>7, <3>1
  <2> QED
    BY <2>6, <2>7
<1>13. ForcedComplete'
  <2>1. ASSUME NEW x \in Buffers, Placed(x)', NEW l \in 1..(lbb'[x].forced)
        PROVE  rec[l][2] # 0 /\ rec[l][1]..rec[l][2] \subseteq disk \cup 0..lbb[x].page
    <3>1. Placed(x) /\ x # b
      BY <1>7, <2>1
    <3>2. \A k \in 1..lbb[x].forced :
             rec[k][2] # 0 /\ rec[k][1]..rec[k][2] \subseteq disk \cup 0..lbb[x].page
      BY <3>1 DEF DiskSound, ForcedComplete, Covered
    <3>3. CASE x # g
      BY <1>3, <2>1, <3>1, <3>2, <3>3
    <3>4. CASE x = g
      <4>1. x # None
        BY ThreadsAssumption
      <4>2. lbb'[x].forced \in {lbb[b].forced, lbb[x].forced}
        BY <1>3, <3>1, <3>4 DEF Higher
      <4> QED
        BY <1>12, <2>1, <3>2, <3>4, <4>1, <4>2
    <3> QED
      BY <3>3, <3>4
  <2>2. \A x \in Buffers : Placed(x)' => lbb'[x].page = lbb[x].page
    BY <1>3, <1>7
  <2> QED
    BY <1>2, <2>1, <2>2 DEF ForcedComplete, Covered
<1>14. ForcedWritten'
  <2>1. CASE g = None /\ lbb[b].forced # 0
    <3>1. forcedLsn' = lbb[b].forced /\ lbb[b].forced \in 0..lastLsn
      BY <1>2, <1>3, <1>5, <2>1 DEF LogSound, LsnsGiven, BufferType
    <3>2. \A l \in 1..lbb[b].forced : rec[l][2] # 0 /\ rec[l][1]..rec[l][2] \subseteq disk
      BY <1>12, <2>1
    <3> QED
      BY <1>2, <3>1, <3>2 DEF ForcedWritten, OnDisk
  <2>2. CASE ~(g = None /\ lbb[b].forced # 0)
    BY <1>2, <2>2 DEF DiskSound, ForcedWritten, OnDisk
  <2> QED
    BY <2>1, <2>2
<1> QED
  BY <1>8, <1>9, <1>10, <1>13, <1>14 DEF DiskSound

-------------------------------------------------------------------------------
(* The last forced LSN.                                                    *)

LEMMA InitDisk == Init => DiskSound
<1>1. SUFFICES ASSUME Init PROVE DiskSound
  OBVIOUS
<1>2. /\ wq = <<>> /\ eof = 0 /\ lastLsn = 0 /\ forcedLsn = 0 /\ rec = <<>>
      /\ lbb = [b \in Buffers |-> Fresh(0)] /\ current \in Buffers
      /\ sess = [s \in Sessions |-> NewSess] /\ io = [t \in Threads |-> NoIo]
  BY <1>1 DEF Init
<1>3. \A b \in Buffers : ~lbb[b].current /\ lbb[b].forced = 0
  BY <1>2, FreshPage
<1>4. \A s \in Sessions : sess[s].pc = "idle"
  BY <1>2 DEF NewSess
<1>5. \A t \in Threads : io[t].todo = <<>>
  BY <1>2 DEF NoIo
<1>6. Recorded
  <2>1. rec \in Seq(Nat \X Nat) /\ Len(rec) = lastLsn
    BY <1>2
  <2> QED
    BY <1>2, <1>4, <2>1 DEF Recorded
<1>7. PagesKept
  BY <1>2, <1>3 DEF PagesKept
<1>8. IoDone
  BY <1>5 DEF IoDone, Members
<1>9. ForcedComplete
  BY <1>3 DEF ForcedComplete
<1>10. ForcedWritten
  BY <1>2 DEF ForcedWritten
<1> QED
  BY <1>6, <1>7, <1>8, <1>9, <1>10 DEF DiskSound

LEMMA DiskStep == LogSound /\ LogSound' /\ DiskSound /\ [Next]_vars => DiskSound'
<1> SUFFICES ASSUME LogSound, LogSound', DiskSound, [Next]_vars PROVE DiskSound'
  OBVIOUS
<1>1. ASSUME NEW s \in Sessions, InCall(s) PROVE DiskSound'
  BY <1>1, AllocateDisk, LogOnPageDisk, LogSpanDisk, SpanNextDisk, SpanPlaceDisk,
     WritersKeepDisk, CallsKeepDisk DEF InCall
<1>2. ASSUME NEW s \in Sessions, StartWrite(s) \/ LGforce(s) \/ StrayResume(s)
      PROVE  DiskSound'
  BY <1>2, CallsKeepDisk, WritersKeepDisk
<1>3. ASSUME NEW t \in Threads, Writing(t) PROVE DiskSound'
  BY <1>3, WriteBlockDisk, CompleteDisk, ReturnBuffersKeepsDisk DEF Writing
<1>4. CASE (\E w \in LogWriters : LogWriter(w)) \/ CheckDead
  BY <1>4, LogWritersKeepDisk
<1>5. CASE GcmtWrite \/ GcmtSleep \/ UNCHANGED vars
  BY <1>5, GcmtKeepsDisk
<1> QED
  BY <1>1, <1>2, <1>3, <1>4, <1>5 DEF Next

(* The LSN that LGforce returns as the last forced one is never ahead of   *)
(* the disk, in whatever order threads write the pages and complete their  *)
(* I/Os: write_complete hands lbb_forced_lsn to the page before, and only  *)
(* the head of the write queue moves lfb_forced_lsn.                       *)
THEOREM ForcedOnDisk == Spec => []ForcedLsnDurable
<1>1. Init => LogSound /\ DiskSound
  BY InitSound, InitDisk
<1>2. LogSound /\ DiskSound /\ [Next]_vars => (LogSound /\ DiskSound)'
  BY StepSound, DiskStep
<1>3. LogSound /\ DiskSound => ForcedLsnDurable
  <2>1. SUFFICES ASSUME LogSound, DiskSound PROVE forcedLsn <= Durable
    BY DEF ForcedLsnDurable
  <2> DEFINE S == {l \in 1..lastLsn : \A k \in 1..l : OnDisk(k)}
  <2>2. lastLsn \in Nat /\ forcedLsn \in 0..lastLsn /\ \A l \in 1..forcedLsn : OnDisk(l)
    <3>1. lastLsn \in Nat
      BY <2>1 DEF LogSound, Shape
    <3>2. forcedLsn \in 0..lastLsn /\ \A l \in 1..forcedLsn : OnDisk(l)
      BY <2>1 DEF DiskSound, ForcedWritten
    <3> QED
      BY <3>1, <3>2
  <2>3. S \subseteq 0..lastLsn
    BY <2>2
  <2>4. CASE forcedLsn = 0
    <3>1. Highest(S) \in Nat
      <4> HIDE DEF S
      <4>1. CASE S = {}
        <5>1. Highest(S) = 0
          BY <4>1, Zenon DEF Highest
        <5> QED
          BY <5>1
      <4>2. CASE S # {}
        <5>1. lastLsn \in Nat
          BY <2>2
        <5>2. Highest(S) \in S
          BY <2>3, <4>2, <5>1, HighestIsMember, Zenon
        <5>3. Highest(S) \in 0..lastLsn
          BY <2>3, <5>2, Zenon
        <5>4. \A x \in 0..lastLsn : x \in Nat
          BY <5>1
        <5> QED
          BY <5>3, <5>4, Zenon
      <4> QED
        BY <4>1, <4>2
    <3> QED
      BY <2>4, <3>1 DEF Durable
  <2>5. CASE forcedLsn # 0
    <3>1. forcedLsn \in S
      BY <2>2, <2>5
    <3> HIDE DEF S
    <3>2. forcedLsn <= Highest(S)
      BY <2>2, <2>3, <3>1, HighestIsMember
    <3> QED
      BY <3>2 DEF Durable, S
  <2> QED
    BY <2>4, <2>5
<1> QED
  BY <1>1, <1>2, <1>3, PTL DEF Spec
=============================================================================
