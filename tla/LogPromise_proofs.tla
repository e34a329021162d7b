--------------------------- MODULE LogPromise_proofs -------------------------
(***************************************************************************)
(* Proof that LogForce implements LogDurable for any number of sessions,   *)
(* logwriters and buffers, while nothing else resumes the sessions: a call *)
(* that asks for records to be on disk returns when they are.              *)
(***************************************************************************)
EXTENDS LogForce_proofs

-------------------------------------------------------------------------------
(* What the pages say of the records.                                      *)

(* Record l has a place on page p; one that is being spanned goes on at    *)
(* the end of the log.                                                     *)
Spread(l, p) ==
  rec[l][1] <= p /\ p <= IF rec[l][2] = 0 THEN eof ELSE rec[l][2]

(* The current buffer while nobody spans from it: records enter here.      *)
Open(x) == x = current /\ lbb[x].current /\ ~OnQueue(x)

OnlyLastSpans == \A l \in 1..lastLsn : rec[l][2] = 0 => l = lastLsn

(* Every page of the log has a record, every buffer in use a page.         *)
PagesFilled ==
  /\ \A x \in Buffers : Placed(x) => lbb[x].page # 0
  /\ \A p \in 1..eof : \E l \in 1..lastLsn : Spread(l, p)

(* lbb_first_lsn is the first record of the page, and rises with the pages. *)
FirstsRise ==
  /\ \A x \in Buffers : \A l \in 1..lastLsn :
        Placed(x) /\ Spread(l, lbb[x].page) => lbb[x].first # 0 /\ lbb[x].first <= l
  /\ \A x, y \in Buffers :
        /\ Placed(x) /\ Placed(y) /\ lbb[x].page < lbb[y].page
        /\ lbb[x].first # 0 /\ lbb[y].first # 0
        => lbb[x].first <= lbb[y].first

(* Of the pages with records up to l, the last one in the buffers vouches  *)
(* for l.                                                                  *)
Starts(x, l) == Placed(x) /\ lbb[x].first # 0 /\ lbb[x].first <= l

LastVouches ==
  \A l \in 1..lastLsn : rec[l][2] # 0 =>
     \A x \in Buffers : Starts(x, l) =>
        \/ l <= lbb[x].forced
        \/ \E y \in Buffers : Starts(y, l) /\ lbb[x].page < lbb[y].page

(* The open page ends the log, and has not been written.                   *)
OpenEndsLog ==
  \A x \in Buffers : Open(x) =>
     /\ lbb[x].page \notin disk
     /\ lbb[x].first # 0 => lbb[x].last = lastLsn /\ lbb[x].forced = lastLsn
     /\ lbb[x].first = 0 => lbb[x].forced = 0

WrittenInLog == disk \subseteq 0..eof

PagesTell ==
  /\ OnlyLastSpans /\ PagesFilled /\ FirstsRise /\ LastVouches
  /\ OpenEndsLog /\ WrittenInLog

(* What a call knows of the record it wants on disk.                       *)
Safe(l) == \A k \in 1..l : OnDisk(k)

Awaits(s) ==
  /\ sess[s].wait /\ sess[s].lwq # None
  /\ sess[s].target <= lbb[sess[s].lwq].forced
  /\ sess[s].wlsn <= sess[s].target
  /\ ~sess[s].cs
  /\ sess[s].synch => sess[s].lwq \in Members(io[s].todo)
  /\ io[s].buf # None => io[s].buf = sess[s].lwq

Served(s) ==
  /\ ~sess[s].wait /\ sess[s].lwq = None /\ Safe(sess[s].target)
  /\ ~(sess[s].cs /\ sess[s].synch) /\ io[s].buf = None

Seeks(s) ==
  /\ sess[s].target # 0 /\ rec[sess[s].target][2] # 0
  /\ sess[s].wlsn <= sess[s].target /\ sess[s].buf # None
  /\ \A x \in Buffers : Starts(x, sess[s].target) => OnQueue(x)
  /\ Starts(sess[s].buf, sess[s].target) => sess[s].target <= lbb[sess[s].buf].forced

CallSound(s) ==
  LET r == sess[s]
  IN  /\ r.first <= r.last /\ r.target <= lastLsn
      /\ r.pc = "sleep" => r.lwq = None
      /\ r.pc \notin {"sleep", "wake", "return"} => ~r.wait /\ ~r.cs
      /\ r.pc \in {"log", "sleep"} \cup Busy => r.kind # "force"
      /\ r.pc \in Busy => r.target = IF r.kind = "plain" THEN 0 ELSE r.last
      /\ r.pc \in {"release", "place", "copy"} => r.target <= lbb[r.buf].forced
      /\ r.pc = "attach" => r.kind = "force" /\ Seeks(s)
      /\ r.pc \in {"wake", "return"} =>
            IF r.kind = "plain" THEN ~r.wait /\ ~r.cs /\ r.target = 0
                                ELSE Awaits(s) \/ Served(s)

PromiseSound == PagesTell /\ \A s \in Sessions : CallSound(s)

-------------------------------------------------------------------------------
(* Steps that leave the pages and their records alone.                     *)

SamePages ==
  /\ rec' = rec /\ lastLsn' = lastLsn /\ eof' = eof /\ current' = current
  /\ \A x \in Buffers :
        /\ lbb'[x].page = lbb[x].page /\ lbb'[x].first = lbb[x].first
        /\ lbb'[x].last = lbb[x].last /\ lbb'[x].forced = lbb[x].forced
        /\ Placed(x)' <=> Placed(x)
        /\ lbb'[x].current => lbb[x].current
        /\ OnQueue(x) => OnQueue(x)'

LEMMA PagesStillTell ==
  ASSUME PagesTell, SamePages, WrittenInLog',
         \A x \in Buffers : Open(x) => lbb[x].page \notin disk'
  PROVE  PagesTell'
<1>1. OnlyLastSpans'
  BY DEF PagesTell, OnlyLastSpans, SamePages
<1>2. \A l, p : Spread(l, p)' <=> Spread(l, p)
  BY DEF Spread, SamePages
<1>3. PagesFilled'
  <2>1. \A x \in Buffers : Placed(x)' => lbb'[x].page # 0
    BY DEF PagesTell, PagesFilled, SamePages
  <2>2. \A p \in 1..eof : \E l \in 1..lastLsn : Spread(l, p)'
    BY <1>2 DEF PagesTell, PagesFilled
  <2>3. eof' = eof /\ lastLsn' = lastLsn
    BY DEF SamePages
  <2> QED
    BY <2>1, <2>2, <2>3 DEF PagesFilled
<1>4. FirstsRise'
  <2>1. \A x \in Buffers : \A l \in 1..lastLsn :
          Placed(x)' /\ Spread(l, lbb[x].page)' => lbb[x].first # 0 /\ lbb[x].first <= l
    BY <1>2 DEF PagesTell, FirstsRise, SamePages
  <2> QED
    BY DEF PagesTell, FirstsRise, SamePages, Spread
<1>5. LastVouches'
  <2>1. \A x \in Buffers : \A l : Starts(x, l)' <=> Starts(x, l)
    BY DEF Starts, SamePages
  <2>2. ASSUME NEW l \in 1..lastLsn, rec[l][2] # 0, NEW x \in Buffers, Starts(x, l)'
        PROVE  \/ l <= lbb'[x].forced
               \/ \E y \in Buffers : Starts(y, l)' /\ lbb'[x].page < lbb'[y].page
    BY <2>1, <2>2 DEF PagesTell, LastVouches, SamePages
  <2>3. lastLsn' = lastLsn /\ rec' = rec
    BY DEF SamePages
  <2> QED
    BY <2>2, <2>3 DEF LastVouches
<1>6. OpenEndsLog'
  <2>1. \A x \in Buffers : Open(x)' => Open(x)
    BY DEF Open, SamePages
  <2> QED
    BY <2>1 DEF PagesTell, OpenEndsLog, SamePages
<1> QED
  BY <1>1, <1>3, <1>4, <1>5, <1>6 DEF PagesTell

(* What a step may do to the records and pages: records are given their    *)
(* last page once; a page stays in use, on the queue if it is there, or    *)
(* gets its first record after all that are complete.                      *)
RecordsAge ==
  /\ lastLsn <= lastLsn' /\ disk \subseteq disk'
  /\ \A l \in 1..lastLsn : rec[l][2] # 0 => rec'[l] = rec[l]

PagesAge ==
  \A x \in Buffers : Placed(x)' =>
     /\ Placed(x) => lbb[x].forced <= lbb'[x].forced /\ (OnQueue(x) => OnQueue(x)')
     /\ \/ Placed(x) /\ lbb'[x].first = lbb[x].first
        \/ lbb'[x].first = 0
        \/ \A l \in 1..lastLsn : rec[l][2] # 0 => l < lbb'[x].first

(* No record comes to be on disk, nor is a new one there.                  *)
LogGrows == \A l \in 1..lastLsn' : OnDisk(l)' <=> (l <= lastLsn /\ OnDisk(l))

LEMMA SamePagesAge ==
  ASSUME Shape, SamePages, disk \subseteq disk'
  PROVE  RecordsAge /\ PagesAge
<1>1. lastLsn \in Nat /\ \A x \in Buffers : lbb[x].forced \in Nat
  BY DEF Shape, BufferType
<1> QED
  BY <1>1 DEF SamePages, RecordsAge, PagesAge

LEMMA StaysSafe ==
  ASSUME RecordsAge, lastLsn \in Nat, NEW l \in Nat, l <= lastLsn, Safe(l)
  PROVE  Safe(l)'
BY DEF RecordsAge, Safe, OnDisk

(* A session that waits for what it waited for, and does not find out that *)
(* it need not; and one that stays where it is in its call.                *)
WaitStays(t) ==
  /\ sess'[t].target = sess[t].target
  /\ sess'[t].wlsn = sess[t].wlsn /\ sess'[t].wait = sess[t].wait
  /\ sess'[t].lwq = sess[t].lwq /\ sess'[t].cs = sess[t].cs
  /\ sess'[t].synch => sess[t].synch
  /\ io'[t].buf \in {None, io[t].buf}
  /\ sess'[t].synch /\ sess[t].lwq \in Members(io[t].todo)
        => sess[t].lwq \in Members(io'[t].todo)

CallStays(t) ==
  /\ sess'[t].pc = sess[t].pc /\ sess'[t].kind = sess[t].kind
  /\ sess'[t].first = sess[t].first /\ sess'[t].last = sess[t].last
  /\ sess'[t].buf = sess[t].buf /\ WaitStays(t)

(* The buffer a session copies into or waits on is in use.                 *)
LEMMA BufferInUse ==
  ASSUME LogSound, NEW t \in Sessions
  PROVE  /\ sess[t].pc \in {"release", "place", "copy"}
               => sess[t].buf \in Buffers /\ Placed(sess[t].buf)
         /\ sess[t].lwq # None => sess[t].lwq \in Buffers /\ Placed(sess[t].lwq)
<1>1. current \in Buffers /\ Members(wq) \subseteq Buffers
  BY DEF LogSound, Shape, Members
<1>2. sess[t].pc \in {"release", "place"} => sess[t].buf = current /\ lbb[current].current
  BY DEF LogSound, SpansAlone
<1>3. sess[t].pc = "copy" => Placed(sess[t].buf)
  BY DEF LogSound, CopiersCounted, Placed
<1>4. sess[t].lwq # None => Placed(sess[t].lwq)
  BY DEF LogSound, WaitersPlaced, Placed
<1>5. \A x : Placed(x) => x \in Buffers
  BY <1>1 DEF Placed, OnQueue
<1> QED
  BY <1>1, <1>2, <1>3, <1>4, <1>5 DEF Placed

(* Such a session still waits for a page that vouches for its record, or   *)
(* has its record on disk.                                                 *)
LEMMA AwaitsAges ==
  ASSUME LogSound, LogSound', PagesAge, RecordsAge, NEW t \in Sessions,
         WaitStays(t), sess[t].target <= lastLsn, Awaits(t)
  PROVE  Awaits(t)'
<1>1. /\ lastLsn \in Nat /\ lastLsn' \in Nat /\ sess[t] \in CallType
      /\ sess[t].target \in Nat
      /\ \A x \in Buffers : lbb[x].forced \in Nat /\ lbb'[x].forced \in Nat
  BY DEF LogSound, Shape, BufferType, CallType
<1>2. \A x \in Buffers : Placed(x) /\ Placed(x)' => lbb[x].forced <= lbb'[x].forced
  BY DEF PagesAge
<1> DEFINE old == sess[t]
           new == sess'[t]
<1>3. /\ new.target = old.target /\ new.wlsn = old.wlsn /\ new.lwq = old.lwq
      /\ new.wait <=> old.wait
      /\ new.cs <=> old.cs
      /\ new.synch => old.synch
      /\ io'[t].buf \in {None, io[t].buf}
      /\ new.synch /\ old.lwq \in Members(io[t].todo)
              => old.lwq \in Members(io'[t].todo)
  BY DEF WaitStays
<1>4. PICK b \in Buffers : b = old.lwq /\ Placed(b)
  BY BufferInUse DEF Awaits
<1>5. Placed(b)'
  <2>1. new.lwq = b /\ new.lwq # None
    BY <1>3, <1>4 DEF Awaits
  <2>2. new.lwq # None =>
           new.lwq \in Members(wq') \/ (new.lwq = current' /\ lbb'[current'].current)
    BY DEF LogSound, WaitersPlaced, OnQueue
  <2> QED
    BY <2>1, <2>2 DEF Placed, OnQueue
<1>6. PICK l \in Nat : l = old.target
  BY <1>1
<1>7. /\ old.wait /\ b # None /\ l <= lbb[b].forced /\ old.wlsn <= l
      /\ ~old.cs /\ (old.synch => b \in Members(io[t].todo))
      /\ io[t].buf # None => io[t].buf = b
  BY <1>4, <1>6 DEF Awaits
<1>8. lbb[b].forced <= lbb'[b].forced
  BY <1>2, <1>4, <1>5
<1>9. l <= lbb'[b].forced
  <2>1. l <= lbb[b].forced
    BY <1>7
  <2> QED
    BY <1>1, <1>4, <1>8, <2>1
<1> HIDE DEF old, new
<1>10. /\ new.wait /\ new.lwq = b /\ b # None /\ new.target = l
       /\ new.wlsn <= l
       /\ ~new.cs /\ (new.synch => b \in Members(io'[t].todo))
       /\ io'[t].buf # None => io'[t].buf = b
  BY <1>3, <1>4, <1>6, <1>7
<1> QED
  BY <1>9, <1>10 DEF Awaits, new

LEMMA ServedAges ==
  ASSUME LogSound, LogSound', PagesAge, RecordsAge, NEW t \in Sessions,
         WaitStays(t), sess[t].target <= lastLsn, Served(t)
  PROVE  Served(t)'
<1>1. /\ lastLsn \in Nat /\ lastLsn' \in Nat /\ sess[t] \in CallType
      /\ sess[t].target \in Nat
      /\ \A x \in Buffers : lbb[x].forced \in Nat /\ lbb'[x].forced \in Nat
  BY DEF LogSound, Shape, BufferType, CallType
<1>2. \A x \in Buffers : Placed(x) /\ Placed(x)' => lbb[x].forced <= lbb'[x].forced
  BY DEF PagesAge
<1> DEFINE old == sess[t]
           new == sess'[t]
<1>3. /\ new.target = old.target /\ new.wlsn = old.wlsn /\ new.lwq = old.lwq
      /\ new.wait <=> old.wait
      /\ new.cs <=> old.cs
      /\ new.synch => old.synch
      /\ io'[t].buf \in {None, io[t].buf}
      /\ new.synch /\ old.lwq \in Members(io[t].todo)
              => old.lwq \in Members(io'[t].todo)
  BY DEF WaitStays
<1>4. PICK l \in Nat : l = old.target
  BY <1>1
<1>5. Safe(l)'
  BY <1>1, <1>4, StaysSafe DEF Served
<1>6. ~old.wait /\ old.lwq = None /\ ~(old.cs /\ old.synch) /\ io[t].buf = None
  BY DEF Served
<1> HIDE DEF old, new
<1>7. ~new.wait /\ new.lwq = None /\ new.target = l /\ ~(new.cs /\ new.synch) /\ io'[t].buf = None
  BY <1>3, <1>4, <1>6
<1> QED
  BY <1>5, <1>7 DEF Served, new, Safe

LEMMA CallAges ==
  ASSUME LogSound, LogSound', PagesAge, RecordsAge, NEW t \in Sessions,
         CallStays(t), CallSound(t)
  PROVE  CallSound(t)'
<1>1. /\ lastLsn \in Nat /\ lastLsn' \in Nat /\ sess[t] \in CallType
      /\ \A x \in Buffers : lbb[x].forced \in Nat /\ lbb'[x].forced \in Nat
      /\ \A x \in Buffers : lbb[x].first \in Nat /\ lbb'[x].first \in Nat
  BY DEF LogSound, Shape, BufferType
<1>2. sess[t].target \in Nat /\ sess[t].target <= lastLsn /\ lastLsn <= lastLsn'
  BY <1>1 DEF CallSound, RecordsAge, CallType
<1>3. \A x \in Buffers : Placed(x) /\ Placed(x)' => lbb[x].forced <= lbb'[x].forced
  BY DEF PagesAge
<1>4. sess[t].pc \in {"release", "place", "copy"} =>
         sess[t].target <= lbb'[sess[t].buf].forced
  <2>1. SUFFICES ASSUME sess[t].pc \in {"release", "place", "copy"}
                 PROVE  sess[t].target <= lbb'[sess[t].buf].forced
    OBVIOUS
  <2>2. PICK b \in Buffers : b = sess[t].buf /\ Placed(b)
    BY <2>1, BufferInUse
  <2>3. Placed(b)'
    <3>1. sess'[t].buf = b /\ sess'[t].pc = sess[t].pc
      BY <2>2 DEF CallStays
    <3>2. sess'[t].pc \in {"release", "place", "copy"} =>
             sess'[t].buf \in Members(wq') \/ (sess'[t].buf = current' /\ lbb'[current'].current)
      BY DEF LogSound, SpansAlone, CopiersCounted, OnQueue
    <3> QED
      BY <2>1, <3>1, <3>2 DEF Placed, OnQueue
  <2>4. sess[t].target <= lbb[b].forced
    BY <2>1, <2>2 DEF CallSound
  <2>5. lbb[b].forced <= lbb'[b].forced
    BY <1>3, <2>2, <2>3
  <2> QED
    BY <1>1, <1>2, <2>2, <2>4, <2>5
<1>5. Awaits(t) => Awaits(t)'
  BY <1>2, AwaitsAges DEF CallStays
<1>6. Served(t) => Served(t)'
  BY <1>2, ServedAges DEF CallStays
<1>7. sess[t].pc = "attach" /\ Seeks(t) => Seeks(t)'
  <2>1. SUFFICES ASSUME sess[t].pc = "attach", Seeks(t) PROVE Seeks(t)'
    OBVIOUS
  <2>2. PICK l \in Nat : l = sess[t].target
    BY <1>2
  <2>3. l \in 1..lastLsn /\ rec[l][2] # 0 /\ rec'[l] = rec[l]
    BY <1>1, <1>2, <2>1, <2>2 DEF Seeks, RecordsAge
  <2>4. PICK b \in Buffers : b = sess[t].buf
    BY <1>1, <2>1 DEF Seeks, CallType
  <2>5. /\ \A x \in Buffers : Starts(x, l) => OnQueue(x)
        /\ Starts(b, l) => l <= lbb[b].forced
        /\ l # 0 /\ sess[t].wlsn <= l /\ b # None
    BY <2>1, <2>2, <2>4 DEF Seeks
  <2>6. ASSUME NEW x \in Buffers, Starts(x, l)'
        PROVE  Starts(x, l) /\ OnQueue(x)' /\ lbb[x].forced <= lbb'[x].forced
    <3>1. Placed(x)' /\ lbb'[x].first # 0 /\ lbb'[x].first <= l
      BY <2>6 DEF Starts
    <3>2. Placed(x) /\ lbb'[x].first = lbb[x].first
      BY <1>1, <2>3, <3>1 DEF PagesAge
    <3>3. Starts(x, l)
      BY <3>1, <3>2 DEF Starts
    <3>4. OnQueue(x)
      BY <2>5, <3>3
    <3> QED
      BY <3>1, <3>2, <3>3, <3>4 DEF PagesAge
  <2>7. Starts(b, l)' => l <= lbb'[b].forced
    BY <1>1, <2>5, <2>6
  <2>8. sess'[t].target = l /\ sess'[t].wlsn = sess[t].wlsn /\ sess'[t].buf = b
    BY <2>2, <2>4 DEF CallStays, WaitStays
  <2>9. \A x \in Buffers : Starts(x, l)' => OnQueue(x)'
    BY <2>6
  <2>10. /\ sess'[t].target # 0 /\ rec'[l][2] # 0
         /\ sess'[t].wlsn <= sess'[t].target /\ sess'[t].buf # None
    BY <2>3, <2>5, <2>8
  <2> QED
    BY <2>7, <2>8, <2>9, <2>10 DEF Seeks, Starts
<1>8. /\ sess'[t].first <= sess'[t].last /\ sess'[t].target <= lastLsn'
      /\ sess'[t].pc = "sleep" => sess'[t].lwq = None
      /\ sess'[t].pc \notin {"sleep", "wake", "return"} => ~sess'[t].wait /\ ~sess'[t].cs
      /\ sess'[t].pc \in {"log", "sleep"} \cup Busy => sess'[t].kind # "force"
      /\ sess'[t].pc \in Busy =>
           sess'[t].target = IF sess'[t].kind = "plain" THEN 0 ELSE sess'[t].last
  <2>1. sess'[t].target <= lastLsn'
    BY <1>1, <1>2 DEF CallStays, WaitStays
  <2> QED
    BY <2>1 DEF CallSound, CallStays, WaitStays
<1>9. sess'[t].pc \in {"release", "place", "copy"} => sess'[t].target <= lbb'[sess'[t].buf].forced
  BY <1>4 DEF CallStays, WaitStays
<1>10. sess'[t].pc = "attach" => sess'[t].kind = "force" /\ Seeks(t)'
  BY <1>7 DEF CallSound, CallStays, WaitStays
<1>11. sess'[t].pc \in {"wake", "return"} =>
            IF sess'[t].kind = "plain" THEN ~sess'[t].wait /\ ~sess'[t].cs /\ sess'[t].target = 0
                                ELSE Awaits(t)' \/ Served(t)'
  BY <1>5, <1>6 DEF CallSound, CallStays, WaitStays
<1> QED
  BY <1>8, <1>9, <1>10, <1>11 DEF CallSound

LEMMA StandSame ==
  ASSUME UNCHANGED log, wq' = wq, current' = current,
         \A x \in Buffers : /\ lbb'[x].page = lbb[x].page /\ lbb'[x].first = lbb[x].first
                            /\ lbb'[x].last = lbb[x].last /\ lbb'[x].forced = lbb[x].forced
                            /\ lbb'[x].current = lbb[x].current
  PROVE  SamePages
<1>1. \A x \in Buffers : Placed(x)' <=> Placed(x)
  BY DEF Placed, OnQueue
<1> QED
  BY <1>1 DEF SamePages, log, OnQueue

LEMMA MoveSame ==
  ASSUME LogSound, UNCHANGED log, PagesMove
  PROVE  SamePages
<1>1. CASE lbb' = lbb /\ wq' = wq /\ io' = io /\ current' = current
  BY <1>1, StandSame
<1>2. ASSUME NEW b \in Buffers, Placed(b), PageStep(b) PROVE SamePages
  <2>1. /\ \A x \in Buffers : /\ lbb'[x].page = lbb[x].page /\ lbb'[x].first = lbb[x].first
                              /\ lbb'[x].last = lbb[x].last
                              /\ lbb'[x].forced = lbb[x].forced
                              /\ lbb'[x].current => lbb[x].current
        /\ \A x \in Buffers \ {b} : lbb'[x] = lbb[x]
        /\ current' = current /\ current \in Buffers
    BY <1>2 DEF PageStep, LogSound, Shape, BufferType
  <2>2. /\ Members(wq) \subseteq Members(wq') /\ Members(wq') \subseteq Members(wq) \cup {b}
        /\ b \in Members(wq') \/ (b = current /\ lbb'[current].current)
    BY <1>2 DEF PageStep, Placed, OnQueue
  <2>3. \A x \in Buffers : Placed(x)' <=> Placed(x)
    <3>1. Placed(b)'
      BY <2>1, <2>2 DEF Placed, OnQueue
    <3>2. \A x \in Buffers \ {b} : Placed(x)' <=> Placed(x)
      BY <2>1, <2>2 DEF Placed, OnQueue
    <3> QED
      BY <1>2, <3>1, <3>2
  <2>4. \A x \in Buffers : OnQueue(x) => OnQueue(x)'
    BY <2>2 DEF OnQueue
  <2> QED
    BY <2>1, <2>3, <2>4 DEF SamePages, log
<1> QED
  BY <1>1, <1>2 DEF PagesMove

LEMMA SameKeepsPages ==
  ASSUME LogSound, PagesTell, SamePages, disk' = disk
  PROVE  PagesTell' /\ RecordsAge /\ PagesAge
<1>1. WrittenInLog' /\ \A x \in Buffers : Open(x) => lbb[x].page \notin disk'
  BY DEF PagesTell, WrittenInLog, OpenEndsLog, SamePages
<1> QED
  BY <1>1, PagesStillTell, SamePagesAge DEF LogSound

(* Session s goes on; the others stay.                                     *)
LEMMA OthersAge ==
  ASSUME LogSound, LogSound', PagesTell', PagesAge, RecordsAge, NEW s \in Sessions,
         \A t \in Sessions : CallSound(t),
         \A t \in Sessions \ {s} : sess'[t] = sess[t] /\ io'[t] = io[t],
         CallSound(s)'
  PROVE  PromiseSound'
<1>1. \A t \in Sessions \ {s} : CallStays(t)
  BY DEF CallStays, WaitStays
<1>2. \A t \in Sessions \ {s} : CallSound(t)'
  BY <1>1, CallAges
<1> QED
  BY <1>2 DEF PromiseSound

LEMMA AllAge ==
  ASSUME LogSound, LogSound', PagesTell', PagesAge, RecordsAge,
         \A t \in Sessions : CallSound(t),
         \A t \in Sessions : sess'[t] = sess[t] /\ io'[t] = io[t]
  PROVE  PromiseSound'
<1>1. \A t \in Sessions : CallStays(t)
  BY DEF CallStays, WaitStays
<1>2. \A t \in Sessions : CallSound(t)'
  BY <1>1, CallAges
<1> QED
  BY <1>2 DEF PromiseSound

-------------------------------------------------------------------------------
(* Calls begin and return.                                                 *)

LEMMA CallTypes ==
  ASSUME LogSound, LogSound', NEW s \in Sessions
  PROVE  /\ sess[s] \in CallType /\ sess'[s] \in CallType
         /\ lastLsn \in Nat /\ lastLsn' \in Nat /\ sess \in [Sessions -> CallType]
BY DEF LogSound, Shape

LEMMA StartWriteKeeps ==
  ASSUME LogSound, LogSound', PromiseSound, NEW s \in Sessions, StartWrite(s)
  PROVE  PromiseSound'
<1>1. /\ SamePages /\ disk' = disk /\ io' = io /\ lastLsn' = lastLsn
  BY StandSame DEF StartWrite, queues, log
<1>2. PagesTell' /\ RecordsAge /\ PagesAge
  BY <1>1, SameKeepsPages DEF PromiseSound
<1>3. PICK k \in {"plain", "forced", "commit"} :
        sess' = [sess EXCEPT ![s].pc = "log", ![s].kind = k,
                             ![s].active = TRUE, ![s].cs = FALSE]
  BY DEF StartWrite
<1>4. /\ sess[s] \in CallType /\ sess \in [Sessions -> CallType]
      /\ sess[s].pc = "idle" /\ ~sess[s].wait
  BY CallTypes DEF StartWrite, At
<1>5. sess' = [sess EXCEPT ![s] = [sess[s] EXCEPT !.pc = "log", !.kind = k,
                                                  !.active = TRUE, !.cs = FALSE]]
  BY <1>3, <1>4
<1>6. /\ sess'[s].pc = "log" /\ sess'[s].kind = k /\ ~sess'[s].cs /\ ~sess'[s].wait
      /\ sess'[s].first = sess[s].first /\ sess'[s].last = sess[s].last
      /\ sess'[s].target = sess[s].target
      /\ \A t \in Sessions \ {s} : sess'[t] = sess[t]
  BY <1>4, <1>5 DEF CallType
<1>7. CallSound(s) /\ \A t \in Sessions : CallSound(t)
  BY DEF PromiseSound
<1>8. CallSound(s)'
  BY <1>1, <1>6, <1>7 DEF CallSound, Busy
<1> QED
  BY <1>1, <1>2, <1>6, <1>7, <1>8, OthersAge

LEMMA WakeGcmtKeeps ==
  ASSUME LogSound, LogSound', PromiseSound, NEW s \in Sessions, WakeGcmt(s)
  PROVE  PromiseSound'
<1>1. /\ SamePages /\ disk' = disk /\ io' = io /\ lastLsn' = lastLsn
  BY StandSame DEF WakeGcmt, queues, log
<1>2. PagesTell' /\ RecordsAge /\ PagesAge
  BY <1>1, SameKeepsPages DEF PromiseSound
<1>3. sess' = [sess EXCEPT ![s] = [sess[s] EXCEPT !.pc = "return"]] /\ sess[s].pc = "wake"
  BY CallTypes DEF WakeGcmt, At
<1>4. sess[s] \in CallType /\ sess \in [Sessions -> CallType]
  BY CallTypes
<1>5. /\ sess'[s].pc = "return" /\ sess'[s].kind = sess[s].kind /\ sess'[s].wait = sess[s].wait
      /\ sess'[s].cs = sess[s].cs /\ sess'[s].target = sess[s].target
      /\ sess'[s].wlsn = sess[s].wlsn /\ sess'[s].lwq = sess[s].lwq
      /\ sess'[s].synch = sess[s].synch /\ sess'[s].first = sess[s].first
      /\ sess'[s].last = sess[s].last
      /\ \A t \in Sessions \ {s} : sess'[t] = sess[t]
  BY <1>3, <1>4 DEF CallType
<1>6. CallSound(s) /\ \A t \in Sessions : CallSound(t)
  BY DEF PromiseSound
<1>7. WaitStays(s)
  BY <1>1, <1>5 DEF WaitStays
<1>8. IF sess[s].kind = "plain" THEN ~sess[s].wait /\ ~sess[s].cs /\ sess[s].target = 0
                                ELSE Awaits(s)' \/ Served(s)'
  BY <1>2, <1>3, <1>6, <1>7, AwaitsAges, ServedAges DEF CallSound
<1>9. CallSound(s)'
  BY <1>1, <1>5, <1>6, <1>8 DEF CallSound, Busy
<1> QED
  BY <1>1, <1>2, <1>5, <1>6, <1>9, OthersAge


LEMMA ReturnKeeps ==
  ASSUME LogSound, LogSound', PromiseSound, NEW s \in Sessions, Return(s)
  PROVE  PromiseSound' /\ Safe(sess[s].target)
<1>1. /\ SamePages /\ disk' = disk /\ io' = io /\ lastLsn' = lastLsn
  BY StandSame DEF Return, queues, log
<1>2. PagesTell' /\ RecordsAge /\ PagesAge
  BY <1>1, SameKeepsPages DEF PromiseSound
<1>3. CallSound(s) /\ \A t \in Sessions : CallSound(t)
  BY DEF PromiseSound
<1>4. sess[s] \in CallType /\ sess \in [Sessions -> CallType]
  BY CallTypes
<1>5. sess[s].pc = "return" /\ io[s] = NoIo /\ MayReturn(sess[s])
  BY DEF Return, At
<1>6. /\ ~sess[s].wait /\ (sess[s].kind = "plain" => ~sess[s].cs)
      /\ ~(sess[s].kind # "plain" /\ sess[s].cs /\ sess[s].synch)
      /\ Safe(sess[s].target)
  <2>1. CASE sess[s].kind = "plain"
    <3>1. ~sess[s].wait /\ ~sess[s].cs /\ sess[s].target = 0
      BY <1>3, <1>5, <2>1 DEF CallSound
    <3> QED
      BY <2>1, <3>1 DEF Safe
  <2>2. CASE sess[s].kind # "plain"
    <3>1. Awaits(s) \/ Served(s)
      BY <1>3, <1>5, <2>2 DEF CallSound
    <3>2. ~Awaits(s)
      BY <1>5, <2>2 DEF Awaits, NoIo, MayReturn, Members
    <3> QED
      BY <2>2, <3>1, <3>2 DEF Served
  <2> QED
    BY <2>1, <2>2
<1> DEFINE ends == sess[s].kind = "commit"
           f == IF ends THEN 0 ELSE sess[s].first
           l == IF ends THEN 0 ELSE sess[s].last
           a == sess[s].active /\ ~ends
           c == sess[s].cs /\ (sess[s].synch \/ sess[s].kind = "plain")
<1>7. ~c /\ f <= l
  BY <1>3, <1>6 DEF CallSound
<1>8. sess' = [sess EXCEPT ![s] = [NewSess EXCEPT !.active = a, !.first = f, !.last = l,
                                     !.wait = sess[s].wait, !.lwq = sess[s].lwq, !.cs = c]]
  BY DEF Return
<1> HIDE DEF f, l, a, c
<1>9. /\ sess'[s].pc = "idle" /\ sess'[s].first = f /\ sess'[s].last = l
      /\ sess'[s].target = 0 /\ sess'[s].wait = sess[s].wait /\ sess'[s].cs = c
      /\ \A t \in Sessions \ {s} : sess'[t] = sess[t]
  BY <1>4, <1>8 DEF NewSess
<1>10. lastLsn' \in Nat
  BY CallTypes
<1>11. CallSound(s)'
  BY <1>6, <1>7, <1>9, <1>10 DEF CallSound, Busy
<1> QED
  BY <1>1, <1>2, <1>3, <1>6, <1>9, <1>11, OthersAge

-------------------------------------------------------------------------------
(* Threads write.                                                          *)

LEMMA WriteBlockKeeps ==
  ASSUME LogSound, LogSound', PromiseSound, NEW t \in Threads, WriteBlock(t)
  PROVE  PromiseSound'
<1>1. PICK lo \in DOMAIN wq, hi \in DOMAIN wq :
        /\ Superblock(io[t].buf, lo, hi)
        /\ lbb' = [b \in Buffers |-> IF b \in Members(SubSeq(wq, lo, hi))
                                       THEN [lbb[b] EXCEPT !.taken = TRUE] ELSE lbb[b]]
        /\ io' = [io EXCEPT ![t] = [NoIo EXCEPT !.todo = SubSeq(wq, lo, hi)]]
        /\ disk' = disk \cup {lbb[b].page : b \in Members(SubSeq(wq, lo, hi))}
  BY DEF WriteBlock
<1>2. /\ lbb \in [Buffers -> BufferType] /\ io \in [Threads -> IoType]
      /\ wq \in Seq(Buffers) /\ eof \in Nat /\ Sessions \subseteq Threads
      /\ sess \in [Sessions -> CallType] /\ lastLsn \in Nat
  BY DEF LogSound, Shape, Threads
<1> DEFINE run == SubSeq(wq, lo, hi)
<1>3. io[t].buf # None /\ OnQueue(io[t].buf)
  BY DEF WriteBlock, LogSound, WritersApart, InHand
<1>4. Position(io[t].buf) \in lo..hi /\ wq[Position(io[t].buf)] = io[t].buf
  BY <1>1, <1>2, <1>3, PositionOf DEF Superblock
<1>5. /\ run \in Seq(Buffers) /\ DOMAIN run = 1..(hi - lo + 1) /\ lo <= hi
      /\ \A i \in DOMAIN run : lo + i - 1 \in lo..hi /\ run[i] = wq[lo + i - 1]
  <2>1. lo <= hi
    BY <1>2, <1>4
  <2> QED
    BY <2>1, RunOfQueue DEF LogSound
<1>6. io[t].buf \in Members(run)
  <2>1. PICK p : p = Position(io[t].buf)
    OBVIOUS
  <2>2. lo \in Nat /\ hi \in Nat /\ p \in lo..hi /\ wq[p] = io[t].buf
    BY <1>2, <1>4, <2>1
  <2>3. p - lo + 1 \in 1..(hi - lo + 1) /\ lo + (p - lo + 1) - 1 = p
    BY <2>2
  <2>4. PICK i : i = p - lo + 1
    OBVIOUS
  <2>5. i \in DOMAIN run /\ run[i] = io[t].buf
    BY <1>5, <2>2, <2>3, <2>4
  <2> QED
    BY <2>5 DEF Members
<1>7. Members(run) \subseteq Members(wq)
  <2>1. ASSUME NEW i \in DOMAIN run PROVE run[i] \in Members(wq)
    <3>1. lo + i - 1 \in DOMAIN wq
      BY <1>2, <1>5
    <3> QED
      BY <1>5, <3>1 DEF Members
  <2> QED
    BY <2>1 DEF Members
<1> HIDE DEF run
<1>8. \A x \in Buffers : /\ lbb'[x].page = lbb[x].page /\ lbb'[x].first = lbb[x].first
                         /\ lbb'[x].last = lbb[x].last /\ lbb'[x].forced = lbb[x].forced
                         /\ lbb'[x].current = lbb[x].current
  <2>1. ASSUME NEW x \in Buffers
        PROVE  lbb'[x] = [lbb[x] EXCEPT !.taken = TRUE] \/ lbb'[x] = lbb[x]
    BY <1>1
  <2> QED
    BY <1>2, <2>1 DEF BufferType
<1>9. SamePages
  BY <1>8, StandSame DEF WriteBlock, log
<1>10. /\ WrittenInLog' /\ disk \subseteq disk'
       /\ \A x \in Buffers : Open(x) => lbb[x].page \notin disk'
  <2>1. disk' = disk \cup {lbb[b].page : b \in Members(run)} /\ eof' = eof
    BY <1>1, <1>9 DEF run, SamePages
  <2>2. \A b \in Members(run) : lbb[b].page \in 0..eof
    <3>1. Members(wq) \subseteq Buffers
      BY <1>2 DEF Members
    <3>2. \A b \in Members(run) : b \in Buffers /\ b \in Members(wq)
      BY <1>7, <3>1
    <3> QED
      BY <1>2, <3>2 DEF LogSound, WithinLog, BufferType
  <2>3. ASSUME NEW x \in Buffers, Open(x) PROVE lbb[x].page \notin disk'
    <3>1. lbb[x].page \notin disk
      BY <2>3 DEF PromiseSound, PagesTell, OpenEndsLog
    <3>2. \A b \in Members(wq) : lbb[b].page < lbb[x].page
      BY <2>3 DEF Open, LogSound, CurrentLast
    <3>3. \A b \in Members(run) : lbb[b].page # lbb[x].page
      <4>1. ASSUME NEW b \in Members(run) PROVE lbb[b].page # lbb[x].page
        <5>1. lbb[b].page < lbb[x].page /\ lbb[x].page \in Nat
          BY <1>2, <1>7, <3>2 DEF BufferType
        <5> QED
          BY <5>1
      <4> QED
        BY <4>1
    <3> QED
      BY <2>1, <3>1, <3>3
  <2> QED
    BY <2>1, <2>2, <2>3 DEF PromiseSound, PagesTell, WrittenInLog
<1>11. PagesTell' /\ RecordsAge /\ PagesAge
  BY <1>9, <1>10, PagesStillTell, SamePagesAge DEF PromiseSound, LogSound
<1>12. \A s \in Sessions : CallSound(s)
  BY DEF PromiseSound
<1>13. \A s \in Threads \ {t} : io'[s] = io[s]
  BY <1>1, <1>2
<1>14. CASE t \in Sessions
  <2>1. sess' = [sess EXCEPT ![t] = [sess[t] EXCEPT !.synch = TRUE]]
    BY <1>14 DEF WriteBlock
  <2>2. /\ sess'[t].pc = sess[t].pc /\ sess'[t].kind = sess[t].kind
        /\ sess'[t].first = sess[t].first /\ sess'[t].last = sess[t].last
        /\ sess'[t].buf = sess[t].buf /\ sess'[t].target = sess[t].target
        /\ sess'[t].wlsn = sess[t].wlsn /\ sess'[t].wait = sess[t].wait
        /\ sess'[t].lwq = sess[t].lwq /\ sess'[t].cs = sess[t].cs
        /\ \A s \in Sessions \ {t} : sess'[s] = sess[s]
    BY <1>2, <1>14, <2>1 DEF CallType
  <2>3. io'[t].buf = None /\ io'[t].todo = run
    BY <1>1, <1>2 DEF NoIo, run
  <2>4. ~Served(t)
    BY <1>3 DEF Served
  <2>5. Awaits(t) => Awaits(t)'
    <3>1. SUFFICES ASSUME Awaits(t) PROVE Awaits(t)'
      OBVIOUS
    <3>2. sess[t].lwq = io[t].buf
      BY <1>3, <3>1 DEF Awaits
    <3>3. PICK b : b = sess[t].lwq
      OBVIOUS
    <3>4. b \in Buffers
      BY <1>14, <3>1, <3>3, BufferInUse DEF Awaits
    <3>5. /\ sess'[t].wait /\ b # None /\ sess'[t].target <= lbb'[b].forced
          /\ sess'[t].wlsn <= sess'[t].target /\ ~sess'[t].cs
      BY <1>8, <2>2, <3>1, <3>3, <3>4 DEF Awaits
    <3>6. sess'[t].lwq = b /\ b \in Members(io'[t].todo)
      BY <1>6, <2>2, <2>3, <3>2, <3>3
    <3> QED
      BY <2>3, <3>5, <3>6 DEF Awaits
  <2>6. sess[t].pc = "attach" /\ Seeks(t) => Seeks(t)'
    <3>1. \A x \in Buffers : \A l : Starts(x, l)' <=> Starts(x, l)
      BY <1>8, <1>9 DEF Starts, SamePages
    <3>2. SUFFICES ASSUME Seeks(t) PROVE Seeks(t)'
      OBVIOUS
    <3>3. PICK b \in Buffers, l \in Nat : b = sess[t].buf /\ l = sess[t].target
      BY <1>2, <1>14, <3>2 DEF Seeks, CallType
    <3>4. /\ l # 0 /\ rec[l][2] # 0 /\ sess[t].wlsn <= l /\ b # None
          /\ \A x \in Buffers : Starts(x, l) => OnQueue(x)
          /\ Starts(b, l) => l <= lbb[b].forced
      BY <3>2, <3>3 DEF Seeks
    <3>5. /\ sess'[t].target = l /\ sess'[t].buf = b /\ sess'[t].wlsn <= l /\ rec'[l][2] # 0
          /\ \A x \in Buffers : Starts(x, l)' => OnQueue(x)'
          /\ Starts(b, l)' => l <= lbb'[b].forced
      BY <1>8, <1>9, <2>2, <3>1, <3>3, <3>4 DEF SamePages
    <3> QED
      BY <3>4, <3>5 DEF Seeks, Starts
  <2>7. sess[t].pc \in {"release", "place", "copy"} => sess[t].buf \in Buffers
    BY <1>14, BufferInUse
  <2>8. CallSound(t)
    BY <1>12, <1>14
  <2>9. lastLsn' = lastLsn
    BY <1>9 DEF SamePages
  <2>10. sess'[t].pc \in {"wake", "return"} =>
            IF sess'[t].kind = "plain" THEN ~sess'[t].wait /\ ~sess'[t].cs /\ sess'[t].target = 0
                                ELSE Awaits(t)' \/ Served(t)'
    BY <2>2, <2>4, <2>5, <2>8 DEF CallSound
  <2>11. sess'[t].pc \in {"release", "place", "copy"}
            => sess'[t].target <= lbb'[sess'[t].buf].forced
    BY <1>8, <2>2, <2>7, <2>8 DEF CallSound
  <2>12. CallSound(t)'
    BY <2>2, <2>6, <2>8, <2>9, <2>10, <2>11 DEF CallSound
  <2> QED
    BY <1>2, <1>11, <1>12, <1>13, <1>14, <2>2, <2>12, OthersAge
<1>15. CASE t \notin Sessions
  <2>1. sess' = sess
    BY <1>15 DEF WriteBlock
  <2> QED
    BY <1>2, <1>11, <1>12, <1>13, <1>15, <2>1, AllAge
<1> QED
  BY <1>14, <1>15

(* Buffers come free: only sessions that wait for one are resumed.         *)
LEMMA ReturnBuffersKeeps ==
  ASSUME LogSound, LogSound', PromiseSound, NEW t \in Threads, ReturnBuffers(t)
  PROVE  PromiseSound'
<1>1. /\ SamePages /\ disk' = disk
  BY StandSame DEF ReturnBuffers, log
<1>2. PagesTell' /\ RecordsAge /\ PagesAge
  BY <1>1, SameKeepsPages DEF PromiseSound
<1>3. /\ io' = [io EXCEPT ![t] = NoIo] /\ io[t].todo = <<>>
      /\ io \in [Threads -> IoType] /\ Sessions \subseteq Threads
      /\ sess \in [Sessions -> CallType] /\ lastLsn' = lastLsn
  BY DEF ReturnBuffers, LogSound, Shape, Threads, log
<1>4. ASSUME NEW s \in Sessions PROVE CallSound(s)'
  <2>1. CallSound(s)
    BY <1>4 DEF PromiseSound
  <2>2. CASE sess[s].pc = "sleep" /\ sess[s].wait
    <3>1. sess'[s] = [sess[s] EXCEPT !.wait = FALSE, !.cs = TRUE]
      BY <1>3, <2>2 DEF ReturnBuffers
    <3>2. /\ sess'[s].pc = "sleep" /\ sess'[s].kind = sess[s].kind
          /\ sess'[s].first = sess[s].first /\ sess'[s].last = sess[s].last
          /\ sess'[s].target = sess[s].target /\ sess'[s].lwq = sess[s].lwq
      BY <1>3, <2>2, <3>1 DEF CallType
    <3> QED
      BY <1>3, <2>1, <2>2, <3>2 DEF CallSound, Busy
  <2>3. CASE ~(sess[s].pc = "sleep" /\ sess[s].wait)
    <3>1. sess'[s] = sess[s]
      BY <1>3, <2>3 DEF ReturnBuffers
    <3>2. /\ io'[s].buf \in {None, io[s].buf}
          /\ Members(io[s].todo) \subseteq Members(io'[s].todo)
      BY <1>3 DEF NoIo, Members
    <3>3. CallStays(s)
      BY <3>1, <3>2 DEF CallStays, WaitStays
    <3> QED
      BY <1>2, <2>1, <3>3, CallAges
  <2> QED
    BY <2>2, <2>3
<1> QED
  BY <1>2, <1>4 DEF PromiseSound

LEMMA LogWritersKeep ==
  ASSUME LogSound, LogSound', PromiseSound,
         (\E w \in LogWriters : LogWriter(w)) \/ CheckDead
  PROVE  PromiseSound'
<1>1. /\ UNCHANGED <<log, disk, sess, current, wq>>
      /\ lbb' = lbb \/ \E b \in Buffers : lbb' = [lbb EXCEPT ![b].taken = TRUE]
      /\ io' = io \/ \E w \in LogWriters : \E b : io' = [io EXCEPT ![w].buf = b]
  <2>1. lbb \in [Buffers -> BufferType] /\ wq \in Seq(Buffers) /\ io \in [Threads -> IoType]
        /\ lw \in [LogWriters -> LwType] /\ setup.pool \subseteq LogWriters
    BY PoolStarted DEF LogSound, Shape
  <2>2. ASSUME NEW w \in LogWriters, Scan(w) \/ Park(w)
        PROVE  UNCHANGED <<log, disk, sess, current, wq>> /\ lbb' = lbb /\ io' = io
    BY <2>2 DEF Scan, Park
  <2>3. ASSUME NEW w \in LogWriters, Recheck(w)
        PROVE  /\ UNCHANGED <<log, disk, sess, current, wq>>
               /\ lbb' = lbb \/ \E b \in Buffers : lbb' = [lbb EXCEPT ![b].taken = TRUE]
               /\ io' = io \/ \E u \in LogWriters : \E b : io' = [io EXCEPT ![u].buf = b]
    <3>1. CASE Unassigned(lw[w].found)
      <4>1. lw[w].found \in Buffers
        BY <2>1, <3>1 DEF Unassigned, OnQueue, Members
      <4>2. PICK b \in Buffers : b = lw[w].found
        BY <4>1
      <4>3. /\ lbb' = [lbb EXCEPT ![b].taken = TRUE] /\ io' = [io EXCEPT ![w].buf = b]
            /\ UNCHANGED <<log, disk, sess, current, wq>>
        BY <2>3, <3>1, <4>2 DEF Recheck
      <4> QED
        BY <4>3
    <3>2. CASE ~Unassigned(lw[w].found)
      BY <2>3, <3>2 DEF Recheck
    <3> QED
      BY <3>1, <3>2
  <2>4. ASSUME CheckDead
        PROVE  /\ UNCHANGED <<log, disk, sess, current, wq>>
               /\ \E b \in Buffers : lbb' = [lbb EXCEPT ![b].taken = TRUE]
               /\ \E u \in LogWriters : \E b : io' = [io EXCEPT ![u].buf = b]
    <3>1. PICK b \in Buffers : b = Head(wq)
      BY <2>1, <2>4 DEF CheckDead
    <3>2. PICK w \in Idle : /\ lbb' = [lbb EXCEPT ![b].taken = TRUE]
                            /\ io' = [io EXCEPT ![w].buf = b]
      BY <2>4, <3>1 DEF CheckDead
    <3>3. w \in LogWriters
      BY <2>1 DEF Idle
    <3> QED
      BY <2>4, <3>2, <3>3 DEF CheckDead
  <2> QED
    BY <2>2, <2>3, <2>4 DEF LogWriter
<1>2. \A x \in Buffers : /\ lbb'[x].page = lbb[x].page /\ lbb'[x].first = lbb[x].first
                         /\ lbb'[x].last = lbb[x].last /\ lbb'[x].forced = lbb[x].forced
                         /\ lbb'[x].current = lbb[x].current
  <2>1. lbb \in [Buffers -> BufferType]
    BY DEF LogSound, Shape
  <2>2. ASSUME NEW x \in Buffers
        PROVE  lbb'[x] = [lbb[x] EXCEPT !.taken = TRUE] \/ lbb'[x] = lbb[x]
    BY <1>1, <2>1
  <2> QED
    BY <2>1, <2>2 DEF BufferType
<1>3. SamePages /\ disk' = disk
  BY <1>1, <1>2, StandSame
<1>4. \A s \in Sessions : sess'[s] = sess[s] /\ io'[s] = io[s]
  <2>1. \A s \in Sessions : s \notin LogWriters
    BY ThreadsAssumption
  <2>2. io \in [Threads -> IoType] /\ Sessions \subseteq Threads
    BY DEF LogSound, Shape, Threads
  <2> QED
    BY <1>1, <2>1, <2>2
<1>5. PagesTell' /\ RecordsAge /\ PagesAge
  BY <1>3, SameKeepsPages DEF PromiseSound
<1> QED
  BY <1>4, <1>5, AllAge DEF PromiseSound


LEMMA StillKeeps ==
  ASSUME LogSound, LogSound', PromiseSound, GcmtSleep \/ UNCHANGED vars
  PROVE  PromiseSound'
<1>1. SamePages /\ disk' = disk /\ sess' = sess /\ io' = io
  BY StandSame DEF GcmtSleep, vars, queues, log
<1>2. PagesTell' /\ RecordsAge /\ PagesAge
  BY <1>1, SameKeepsPages DEF PromiseSound
<1> QED
  BY <1>1, <1>2, AllAge DEF PromiseSound

(* QueueWrite gives no write to a session but its own.                     *)
LEMMA QueueWriteIo ==
  ASSUME Shape, NEW t \in Threads \ LogWriters, NEW b, NEW L, NEW waits,
         QueueWrite(t, b, L, waits)
  PROVE  /\ \A u \in Sessions \ {t} : io'[u] = io[u]
         /\ io'[t] = io[t] \/ io'[t] = [io[t] EXCEPT !.buf = b]
<1>1. io \in [Threads -> IoType] /\ setup.pool \subseteq LogWriters
  BY PoolStarted DEF Shape
<1>2. \/ io' = io \/ io' = [io EXCEPT ![t].buf = b]
      \/ \E w \in Idle : io' = [io EXCEPT ![w].buf = b]
  BY DEF QueueWrite
<1>3. \A w \in Idle : w \notin Sessions /\ w # t
  BY <1>1, ThreadsAssumption DEF Idle
<1>4. ASSUME NEW w \in Idle, io' = [io EXCEPT ![w].buf = b]
      PROVE  \A u \in Sessions \cup {t} : io'[u] = io[u]
  <2>1. w \in Threads /\ Sessions \cup {t} \subseteq Threads
    BY <1>1 DEF Idle, Threads
  <2> QED
    BY <1>1, <1>3, <1>4, <2>1
<1>5. Sessions \subseteq Threads
  BY DEF Threads
<1> QED
  BY <1>1, <1>2, <1>4, <1>5

LEMMA GcmtWriteKeeps ==
  ASSUME LogSound, LogSound', PromiseSound, GcmtWrite
  PROVE  PromiseSound'
<1>1. SamePages /\ disk' = disk /\ sess' = sess
  BY GcmtWriteSound, MoveSame DEF GcmtWrite
<1>2. PagesTell' /\ RecordsAge /\ PagesAge
  BY <1>1, SameKeepsPages DEF PromiseSound
<1>3. \A s \in Sessions : io'[s] = io[s]
  <2>1. Gcmt \in Threads \ LogWriters /\ Gcmt \notin Sessions
    BY ThreadsAssumption DEF Threads
  <2>2. QueueWrite(Gcmt, current, lbb, FALSE)
    BY DEF GcmtWrite
  <2> QED
    BY <2>1, <2>2, QueueWriteIo DEF LogSound
<1> QED
  BY <1>1, <1>2, <1>3, AllAge DEF PromiseSound

-------------------------------------------------------------------------------
(* A record is spanned and copied.                                         *)

LEMMA SpanReleaseKeeps ==
  ASSUME LogSound, LogSound', PromiseSound, NEW s \in Sessions, SpanRelease(s)
  PROVE  PromiseSound'
<1>1. SamePages /\ disk' = disk /\ lastLsn' = lastLsn
  BY SpanReleaseSound, MoveSame DEF SpanRelease, log
<1>2. PagesTell' /\ RecordsAge /\ PagesAge
  BY <1>1, SameKeepsPages DEF PromiseSound
<1>3. sess[s] \in CallType /\ sess \in [Sessions -> CallType]
  BY CallTypes
<1>4. /\ sess[s].pc = "release"
      /\ sess' = [sess EXCEPT ![s] = [sess[s] EXCEPT !.head = None, !.pc = "place"]]
  BY <1>3 DEF SpanRelease, At
<1>5. /\ sess'[s].pc = "place" /\ sess'[s].kind = sess[s].kind
      /\ sess'[s].first = sess[s].first /\ sess'[s].last = sess[s].last
      /\ sess'[s].buf = sess[s].buf /\ sess'[s].target = sess[s].target
      /\ sess'[s].wait = sess[s].wait /\ sess'[s].cs = sess[s].cs
      /\ \A t \in Sessions \ {s} : sess'[t] = sess[t]
  BY <1>3, <1>4 DEF CallType
<1>6. \A t \in Sessions \ {s} : io'[t] = io[t]
  <2>1. s \in Threads \ LogWriters
    BY ThreadsAssumption DEF Threads
  <2>2. QueueWrite(s, sess[s].head, lbb, FALSE)
    BY DEF SpanRelease
  <2> QED
    BY <2>1, <2>2, QueueWriteIo DEF LogSound
<1>7. CallSound(s) /\ \A t \in Sessions : CallSound(t)
  BY DEF PromiseSound
<1>8. sess[s].buf \in Buffers
  BY <1>4, BufferInUse
<1>9. sess'[s].target <= lbb'[sess'[s].buf].forced
  BY <1>1, <1>4, <1>5, <1>7, <1>8 DEF CallSound, SamePages
<1>10. CallSound(s)'
  BY <1>1, <1>4, <1>5, <1>7, <1>9 DEF CallSound, Busy
<1> QED
  BY <1>2, <1>5, <1>6, <1>7, <1>10, OthersAge

LEMMA SpanPlaceKeeps ==
  ASSUME LogSound, LogSound', PromiseSound, NEW s \in Sessions, SpanPlace(s)
  PROVE  PromiseSound'
<1>1. /\ CurrentStep(s) /\ lbb[current].current /\ ~OnQueue(current)
      /\ sess[s].pc = "place" /\ sess'[s].pc = "copy"
      /\ lbb'[current].forced = lbb[current].forced
  BY SpanPlaceSound
<1>2. sess[s] \in CallType /\ sess \in [Sessions -> CallType] /\ sess[s].buf = current
      /\ lbb \in [Buffers -> BufferType] /\ current \in Buffers
      /\ wq \in Seq(Buffers)
  BY <1>1, CallTypes DEF LogSound, SpansAlone, Shape
<1>3. /\ \A x \in Buffers : Placed(x)' <=> Placed(x)
      /\ \A x \in Buffers : /\ lbb'[x].page = lbb[x].page
                            /\ lbb'[x].current => lbb[x].current
      /\ \A x \in Buffers \ {current} : lbb'[x] = lbb[x]
      /\ io' = io /\ current' = current
  BY <1>1, CurrentStepPlaces
<1>4. PICK full \in BOOLEAN :
        /\ lbb' = [lbb EXCEPT ![current] = Entered(lbb[current], full)]
        /\ wq' = IF full THEN Enqueue(current) ELSE wq
  BY <1>2 DEF SpanPlace
<1>5. lbb'[current].first = lbb[current].first /\ lbb'[current].last = lbb[current].last
  <2>1. lbb'[current] = Entered(lbb[current], full)
    BY <1>2, <1>4
  <2> QED
    BY <1>2, <2>1, EnteredPage
<1>6. \A x \in Buffers : OnQueue(x) => OnQueue(x)'
  BY <1>2, <1>4, EnqueueQueue DEF OnQueue
<1>7. SamePages /\ disk' = disk /\ lastLsn' = lastLsn
  BY <1>1, <1>3, <1>5, <1>6 DEF SamePages, SpanPlace, log
<1>8. PagesTell' /\ RecordsAge /\ PagesAge
  BY <1>7, SameKeepsPages DEF PromiseSound
<1>9. sess' = [sess EXCEPT ![s] = [sess[s] EXCEPT !.pc = "copy"]]
  BY <1>2 DEF SpanPlace
<1>10. /\ sess'[s].pc = "copy" /\ sess'[s].kind = sess[s].kind
       /\ sess'[s].first = sess[s].first /\ sess'[s].last = sess[s].last
       /\ sess'[s].buf = current /\ sess'[s].target = sess[s].target
       /\ sess'[s].wait = sess[s].wait /\ sess'[s].cs = sess[s].cs
       /\ \A t \in Sessions \ {s} : sess'[t] = sess[t]
  BY <1>2, <1>9 DEF CallType
<1>11. CallSound(s) /\ \A t \in Sessions : CallSound(t)
  BY DEF PromiseSound
<1>12. sess'[s].target <= lbb'[sess'[s].buf].forced
  BY <1>1, <1>2, <1>10, <1>11 DEF CallSound
<1>13. CallSound(s)'
  BY <1>1, <1>7, <1>10, <1>11, <1>12 DEF CallSound, Busy
<1> QED
  BY <1>3, <1>8, <1>10, <1>11, <1>13, OthersAge


LEMMA ForceOutIo ==
  ASSUME Shape, NEW s \in Sessions, NEW b, NEW L, NEW count, ForceOut(s, b, L, count)
  PROVE  /\ \A u \in Sessions \ {s} : io'[u] = io[u]
         /\ io'[s] = io[s] \/ io'[s] = [io[s] EXCEPT !.buf = b]
<1>1. s \in Threads \ LogWriters
  BY ThreadsAssumption DEF Threads
<1>2. CASE QueueWrite(s, b, L, TRUE)
  BY <1>1, <1>2, QueueWriteIo
<1>3. CASE UNCHANGED <<wq, lw, io>>
  BY <1>3
<1> QED
  BY <1>2, <1>3 DEF ForceOut

(* A session on the wait queue of b: b vouches for its record.             *)
LEMMA Suspended ==
  ASSUME LogSound, LogSound', NEW s \in Sessions, NEW b \in Buffers,
         io[s] = NoIo, io'[s] = io[s] \/ io'[s] = [io[s] EXCEPT !.buf = b],
         NEW lsn \in Nat, NEW n \in Nat,
         sess'[s].wait, sess'[s].lwq = b, sess'[s].wlsn = lsn, ~sess'[s].synch,
         ~sess'[s].cs, sess'[s].target = n, lsn <= n, n <= lbb'[b].forced
  PROVE  Awaits(s)'
<1>1. b # None
  BY ThreadsAssumption
<1>2. io'[s].buf # None => io'[s].buf = b
  BY DEF NoIo
<1> QED
  BY <1>1, <1>2 DEF Awaits

LEMMA CopiedKeeps ==
  ASSUME LogSound, LogSound', PromiseSound, NEW s \in Sessions, Copied(s)
  PROVE  PromiseSound'
<1>1. SamePages /\ disk' = disk /\ lastLsn' = lastLsn
  BY CopiedSound, MoveSame DEF Copied, log
<1>2. PagesTell' /\ RecordsAge /\ PagesAge
  BY <1>1, SameKeepsPages DEF PromiseSound
<1>3. sess[s] \in CallType /\ sess \in [Sessions -> CallType] /\ lastLsn \in Nat
  BY CallTypes
<1>4. PICK b : b = sess[s].buf
  OBVIOUS
<1>5. /\ sess[s].pc = "copy" /\ io[s] = NoIo /\ b \in Buffers
      /\ lbb'[b].forced = lbb[b].forced /\ lbb[b].forced \in Nat
  <2>1. sess[s].pc = "copy" /\ io[s] = NoIo
    BY DEF Copied, At
  <2>2. b \in Buffers
    BY <1>4, <2>1, BufferInUse
  <2> QED
    BY <1>1, <2>1, <2>2 DEF SamePages, LogSound, Shape, BufferType
<1>6. CallSound(s) /\ \A t \in Sessions : CallSound(t)
  BY DEF PromiseSound
<1>7. /\ ~sess[s].wait /\ ~sess[s].cs /\ sess[s].kind # "force"
      /\ sess[s].target = IF sess[s].kind = "plain" THEN 0 ELSE sess[s].last
      /\ sess[s].target <= lbb[b].forced /\ sess[s].first <= sess[s].last
      /\ sess[s].target <= lastLsn
  BY <1>4, <1>5, <1>6 DEF CallSound, Busy
<1> DEFINE forced == sess[s].kind # "plain"
           L == [lbb EXCEPT ![b].writers = @ - 1,
                            ![b].commits = IF sess[s].kind = "commit" THEN @ + 1 ELSE @]
           count == Cardinality(WaitersOn(b)) + 1
           last == L[b].writers = 0 /\ OnQueue(b)
           marks == forced /\ ~last /\ MarksForce(b, L, count)
           mine == [sess[s] EXCEPT !.pc = IF marks THEN "wake" ELSE "return", !.buf = None]
           lsn == IF mine.kind = "commit" THEN mine.first ELSE mine.last
<1>8. /\ \/ last /\ QueueWrite(s, b, L, forced)
         \/ ~last /\ forced /\ ForceOut(s, b, L, count)
         \/ ~last /\ ~forced /\ lbb' = L /\ UNCHANGED <<wq, lw, io>>
      /\ sess' = [sess EXCEPT ![s] = IF forced THEN SuspendOn(mine, b, lsn) ELSE mine]
  BY <1>4 DEF Copied
<1>9. /\ \A u \in Sessions \ {s} : io'[u] = io[u]
      /\ io'[s] = io[s] \/ io'[s] = [io[s] EXCEPT !.buf = b]
  <2>1. s \in Threads \ LogWriters
    BY ThreadsAssumption DEF Threads
  <2> HIDE DEF forced, L, count, last
  <2>2. CASE QueueWrite(s, b, L, forced)
    BY <2>1, <2>2, QueueWriteIo DEF LogSound
  <2>3. CASE ForceOut(s, b, L, count)
    BY <2>3, ForceOutIo DEF LogSound
  <2>4. CASE UNCHANGED <<wq, lw, io>>
    BY <2>4
  <2> QED
    BY <1>8, <2>2, <2>3, <2>4
<1>10. PICK p \in {"wake", "return"} : mine = [sess[s] EXCEPT !.pc = p, !.buf = None]
  OBVIOUS
<1> HIDE DEF mine
<1>11. /\ mine \in CallType /\ mine.pc = p /\ mine.kind = sess[s].kind
       /\ mine.first = sess[s].first /\ mine.last = sess[s].last
       /\ mine.target = sess[s].target
       /\ mine.wait = sess[s].wait /\ mine.cs = sess[s].cs
  BY <1>3, <1>10 DEF CallType, Steps
<1>12. lsn \in Nat /\ lsn <= sess[s].last
  BY <1>3, <1>7, <1>11 DEF CallType
<1> HIDE DEF lsn
<1>13. CASE forced
  <2>1. sess' = [sess EXCEPT ![s] = [mine EXCEPT !.wait = TRUE, !.lwq = b, !.wlsn = lsn,
                                                 !.synch = FALSE]]
    BY <1>8, <1>13 DEF SuspendOn
  <2>2. /\ sess'[s].wait /\ sess'[s].lwq = b /\ sess'[s].wlsn = lsn /\ ~sess'[s].synch
        /\ sess'[s].pc = p /\ sess'[s].kind = mine.kind /\ sess'[s].target = mine.target
        /\ sess'[s].first = mine.first /\ sess'[s].last = mine.last /\ sess'[s].cs = mine.cs
        /\ \A t \in Sessions \ {s} : sess'[t] = sess[t]
    BY <1>3, <1>11, <2>1 DEF CallType
  <2>3. PICK n \in Nat : n = sess[s].target
    BY <1>3 DEF CallType
  <2>4. /\ sess'[s].target = n /\ lsn <= n /\ n <= lbb'[b].forced /\ ~sess'[s].cs
    BY <1>5, <1>7, <1>11, <1>12, <1>13, <2>2, <2>3
  <2>5. Awaits(s)'
    BY <1>3, <1>5, <1>9, <1>12, <2>2, <2>4, Suspended
  <2>6. /\ sess'[s].first <= sess'[s].last /\ sess'[s].target <= lastLsn'
        /\ sess'[s].pc \in {"wake", "return"} /\ sess'[s].kind # "plain"
    BY <1>1, <1>7, <1>11, <1>13, <2>2
  <2>7. CallSound(s)'
    BY <2>5, <2>6 DEF CallSound, Busy
  <2> QED
    BY <1>2, <1>6, <1>9, <2>2, <2>7, OthersAge
<1>14. CASE ~forced
  <2>1. sess' = [sess EXCEPT ![s] = mine]
    BY <1>8, <1>14
  <2>2. sess'[s] = mine /\ \A t \in Sessions \ {s} : sess'[t] = sess[t]
    BY <1>3, <2>1
  <2>3. /\ ~mine.wait /\ ~mine.cs /\ mine.target = 0 /\ mine.kind = "plain"
        /\ mine.first <= mine.last /\ mine.target <= lastLsn'
    BY <1>1, <1>7, <1>11, <1>14
  <2>4. CallSound(s)'
    BY <1>11, <2>2, <2>3 DEF CallSound, Busy
  <2> QED
    BY <1>2, <1>6, <1>9, <2>2, <2>4, OthersAge
<1> QED
  BY <1>13, <1>14


-------------------------------------------------------------------------------
(* A session asks for a record.                                            *)

(* While nobody keeps the current page, no record is being spanned.        *)
LEMMA NothingSpanned ==
  ASSUME LogSound, DiskSound, lbb[current].owner = None
  PROVE  \A l \in 1..lastLsn : rec[l][2] # 0
<1>1. \A s \in Sessions : sess[s].pc # "span"
  BY ThreadsAssumption DEF LogSound, SpansAlone
<1> QED
  BY <1>1 DEF DiskSound, Recorded

LEMMA QueuedHasRecord ==
  ASSUME LogSound, PagesTell, NEW x \in Buffers, OnQueue(x)
  PROVE  lbb[x].first # 0
<1>1. lbb[x].page \in Nat /\ lbb[x].page <= eof /\ eof \in Nat
  BY DEF LogSound, Shape, BufferType, WithinLog, OnQueue
<1>2. lbb[x].page # 0 /\ Placed(x)
  BY DEF PagesTell, PagesFilled, Placed
<1>3. PICK l \in 1..lastLsn : Spread(l, lbb[x].page)
  BY <1>1, <1>2 DEF PagesTell, PagesFilled
<1> QED
  BY <1>2, <1>3 DEF PagesTell, FirstsRise

(* If no page in the buffers has records up to l, they are on disk.        *)
LEMMA LeftBehind ==
  ASSUME LogSound, DiskSound, PagesTell, NEW l \in 0..lastLsn,
         l # 0 => rec[l][2] # 0, \A x \in Buffers : ~Starts(x, l)
  PROVE  Safe(l)
<1>1. SUFFICES ASSUME NEW k \in 1..l
               PROVE  rec[k][2] # 0 /\ rec[k][1]..rec[k][2] \subseteq disk
  BY DEF Safe, OnDisk
<1>2. lastLsn \in Nat /\ eof \in Nat /\ k \in 1..lastLsn
  BY DEF LogSound, Shape
<1>3. rec[k][2] # 0
  <2>1. rec[k][2] = 0 => k = lastLsn
    BY <1>2 DEF PagesTell, OnlyLastSpans
  <2> QED
    BY <1>2, <2>1
<1>4. rec[k][1] \in 1..eof /\ rec[k][2] \in Nat /\ rec[k][2] <= eof
  <2>1. rec[k] \in Nat \X Nat
    BY <1>2 DEF DiskSound, Recorded
  <2> QED
    BY <1>2, <2>1 DEF DiskSound, Recorded
<1>5. ASSUME NEW p \in rec[k][1]..rec[k][2], p \notin disk PROVE FALSE
  <2>1. p \in 1..eof
    BY <1>2, <1>4
  <2>2. PICK x \in Buffers : Placed(x) /\ lbb[x].page = p
    BY <1>5, <2>1 DEF DiskSound, PagesKept
  <2>3. Spread(k, lbb[x].page)
    BY <1>3, <2>2 DEF Spread
  <2>4. lbb[x].first # 0 /\ lbb[x].first <= k
    BY <1>2, <2>2, <2>3 DEF PagesTell, FirstsRise
  <2>5. lbb[x].first \in Nat
    BY DEF LogSound, Shape, BufferType
  <2>6. Starts(x, l)
    BY <1>2, <2>2, <2>4, <2>5 DEF Starts
  <2> QED
    BY <2>6
<1> QED
  BY <1>3, <1>5

(* The buffer that LGforce seeks vouches for the record.                   *)
LEMMA TargetVouches ==
  ASSUME LogSound, DiskSound, PagesTell, NEW l \in 0..lastLsn, l # 0 => rec[l][2] # 0,
         \A x \in Buffers : Starts(x, l) => OnQueue(x)
  PROVE  IF Target(l) = None THEN Safe(l)
         ELSE /\ Target(l) \in Buffers /\ l # 0
              /\ l <= lbb[Target(l)].forced
<1> DEFINE in == {i \in DOMAIN wq : lbb[wq[i]].first <= l}
           top == {i \in in : \A j \in in : lbb[wq[j]].first <= lbb[wq[i]].first}
           A == {lbb[wq[i]].first : i \in in}
<1>1. /\ wq \in Seq(Buffers) /\ Len(wq) \in Nat /\ DOMAIN wq = 1..Len(wq)
      /\ \A i \in DOMAIN wq : wq[i] \in Buffers /\ wq[i] # None /\ OnQueue(wq[i])
      /\ \A x \in Buffers : lbb[x].first \in 0..lastLsn /\ lbb[x].page \in Nat
      /\ lastLsn \in Nat
  <2>1. wq \in Seq(Buffers) /\ Len(wq) \in Nat /\ DOMAIN wq = 1..Len(wq) /\ None \notin Buffers
    BY ThreadsAssumption DEF LogSound, Shape
  <2>2. \A i \in DOMAIN wq : wq[i] \in Buffers /\ wq[i] # None /\ OnQueue(wq[i])
    BY <2>1 DEF OnQueue, Members
  <2> QED
    BY <2>1, <2>2 DEF LogSound, Shape, LsnsGiven, BufferType
<1>2. Target(l) = IF l < forcedLsn \/ in = {} THEN None ELSE wq[Highest(top)]
  BY DEF Target
<1>3. CASE l < forcedLsn
  <2>1. Safe(l)
    BY <1>1, <1>3 DEF DiskSound, ForcedWritten, Safe
  <2> QED
    BY <1>2, <1>3, <2>1
<1>4. CASE in = {}
  <2>1. ASSUME NEW x \in Buffers, Starts(x, l) PROVE FALSE
    <3>1. OnQueue(x)
      BY <2>1
    <3>2. PICK i \in DOMAIN wq : wq[i] = x
      BY <3>1 DEF OnQueue, Members
    <3>3. i \in in
      BY <2>1, <3>2 DEF Starts
    <3> QED
      BY <1>4, <3>3
  <2>2. Safe(l)
    BY <2>1, LeftBehind
  <2> QED
    BY <1>2, <1>4, <2>2
<1>5. CASE ~(l < forcedLsn) /\ in # {}
  <2>1. A # {} /\ A \subseteq 0..lastLsn
    BY <1>1, <1>5
  <2>2. Highest(A) \in A /\ \A y \in A : y <= Highest(A)
    BY <1>1, <2>1, HighestIsMember
  <2>3. PICK m \in in : lbb[wq[m]].first = Highest(A)
    BY <2>2
  <2>4. m \in top
    BY <2>2, <2>3
  <2>5. top \subseteq 0..Len(wq) /\ top # {}
    BY <1>1, <2>4
  <2> HIDE DEF top
  <2>6. Highest(top) \in top /\ \A j \in top : j <= Highest(top)
    BY <1>1, <2>5, HighestIsMember
  <2>7. PICK i : i = Highest(top)
    OBVIOUS
  <2>8. /\ i \in DOMAIN wq /\ lbb[wq[i]].first <= l
        /\ \A j \in in : lbb[wq[j]].first <= lbb[wq[i]].first
        /\ \A j \in top : j <= i
    BY <2>6, <2>7 DEF top
  <2>9. PICK b \in Buffers : b = wq[i]
    BY <1>1, <2>8
  <2>10. Target(l) = b /\ b # None /\ OnQueue(b) /\ lbb[b].first <= l
    BY <1>1, <1>2, <1>5, <2>7, <2>8, <2>9
  <2>11. lbb[b].first # 0
    BY <2>10, QueuedHasRecord
  <2>12. Starts(b, l)
    BY <2>10, <2>11 DEF Starts, Placed
  <2>13. l \in 1..lastLsn
    BY <1>1, <2>10, <2>11
  <2>14. ASSUME NEW y \in Buffers, Starts(y, l), lbb[b].page < lbb[y].page PROVE FALSE
    <3>1. OnQueue(y) /\ lbb[y].first # 0 /\ lbb[y].first <= l
      BY <2>14 DEF Starts
    <3>2. PICK j \in DOMAIN wq : wq[j] = y
      BY <3>1 DEF OnQueue, Members
    <3>3. lbb[b].first <= lbb[y].first
      BY <2>11, <2>12, <2>14, <3>1 DEF PagesTell, FirstsRise, Starts
    <3>4. j \in in
      BY <3>1, <3>2
    <3>5. \A k \in in : lbb[wq[k]].first <= lbb[wq[j]].first
      <4>1. ASSUME NEW k \in in PROVE lbb[wq[k]].first <= lbb[wq[j]].first
        <5>1. /\ lbb[wq[k]].first <= lbb[b].first
              /\ lbb[wq[k]].first \in Nat /\ lbb[b].first \in Nat /\ lbb[y].first \in Nat
          BY <1>1, <2>8, <2>9
        <5> QED
          BY <3>2, <3>3, <5>1
      <4> QED
        BY <4>1
    <3>6. j \in top
      BY <3>4, <3>5 DEF top
    <3>7. j <= i
      BY <2>8, <3>6
    <3>8. j = i \/ lbb[wq[j]].page < lbb[wq[i]].page
      BY <1>1, <2>8, <3>7 DEF LogSound, Ascending
    <3> QED
      BY <1>1, <2>9, <2>14, <3>2, <3>8
  <2>15. l <= lbb[b].forced
    BY <2>12, <2>13, <2>14 DEF PagesTell, LastVouches
  <2> QED
    BY <2>10, <2>13, <2>15
<1> QED
  BY <1>3, <1>4, <1>5


LEMMA SeekOnGives ==
  ASSUME NEW r \in CallType, NEW b, b = Target(r.target), NEW x, x = SeekOn(r)
  PROVE  /\ x.pc = IF b = None THEN "return" ELSE "attach"
         /\ b # None => x.buf = b
         /\ x.kind = r.kind /\ x.target = r.target
         /\ x.first = r.first /\ x.last = r.last /\ x.wlsn = r.wlsn
         /\ x.wait = r.wait /\ x.cs = r.cs /\ x.lwq = r.lwq
<1>1. x = IF b = None THEN [r EXCEPT !.pc = "return", !.buf = None, !.synch = TRUE]
          ELSE [r EXCEPT !.pc = "attach", !.buf = b]
  BY DEF SeekOn
<1> QED
  BY <1>1 DEF CallType

(* A session that has looked for a buffer to wait on.                      *)
LEMMA SeekSound ==
  ASSUME LogSound, LogSound', DiskSound, PagesTell, NEW s \in Sessions, NEW r \in CallType,
         io[s] = NoIo, r.target <= lastLsn, r.target # 0 => rec[r.target][2] # 0,
         r.wlsn <= r.target, r.first <= r.last, ~r.wait, ~r.cs, r.lwq = None,
         r.kind = "force",
         \A x \in Buffers : Starts(x, r.target) => OnQueue(x),
         sess' = [sess EXCEPT ![s] = SeekOn(r)],
         lbb' = lbb, wq' = wq, io' = io, current' = current, rec' = rec,
         lastLsn' = lastLsn, disk' = disk
  PROVE  CallSound(s)'
<1>1. sess \in [Sessions -> CallType] /\ lastLsn \in Nat
  BY DEF LogSound, Shape
<1>2. PICK l \in 0..lastLsn : l = r.target
  BY <1>1 DEF CallType
<1>3. l # 0 => rec[l][2] # 0
  BY <1>2
<1>4. \A x \in Buffers : Starts(x, l) => OnQueue(x)
  BY <1>2
<1>5. IF Target(l) = None THEN Safe(l)
      ELSE Target(l) \in Buffers /\ l # 0 /\ l <= lbb[Target(l)].forced
  BY <1>3, <1>4, TargetVouches
<1>6. PICK b : b = Target(l)
  OBVIOUS
<1>7. \A x \in Buffers : Starts(x, l)' <=> Starts(x, l)
  BY DEF Starts, Placed, OnQueue
<1>8. Safe(l)' <=> Safe(l)
  BY DEF Safe, OnDisk
<1>9. io[s].buf = None /\ io'[s].buf = None
  BY DEF NoIo
<1>10. /\ sess'[s].pc = IF b = None THEN "return" ELSE "attach"
       /\ b # None => sess'[s].buf = b
       /\ sess'[s].kind = r.kind /\ sess'[s].target = r.target
       /\ sess'[s].first = r.first /\ sess'[s].last = r.last /\ sess'[s].wlsn = r.wlsn
       /\ sess'[s].wait = r.wait /\ sess'[s].cs = r.cs /\ sess'[s].lwq = r.lwq
  <2>1. PICK x : x = sess'[s]
    OBVIOUS
  <2>2. x = SeekOn(r) /\ b = Target(r.target)
    BY <1>1, <1>2, <1>6, <2>1
  <2> QED
    BY <2>1, <2>2, SeekOnGives
<1>11. CASE b = None
  <2>1. /\ sess'[s].pc = "return" /\ sess'[s].kind = "force" /\ sess'[s].target = l
        /\ sess'[s].first = r.first /\ sess'[s].last = r.last
        /\ ~sess'[s].wait /\ ~sess'[s].cs /\ sess'[s].lwq = None
    BY <1>2, <1>10, <1>11
  <2>2. Safe(l)'
    BY <1>5, <1>6, <1>8, <1>11
  <2>3. Served(s)'
    BY <1>9, <2>1, <2>2 DEF Served, Safe
  <2> QED
    BY <1>2, <2>1, <2>3 DEF CallSound, Busy
<1>12. CASE b # None
  <2>1. /\ sess'[s].pc = "attach" /\ sess'[s].kind = "force" /\ sess'[s].target = l
        /\ sess'[s].wlsn = r.wlsn /\ sess'[s].buf = b
        /\ sess'[s].first = r.first /\ sess'[s].last = r.last
        /\ ~sess'[s].wait /\ ~sess'[s].cs
    BY <1>2, <1>10, <1>12
  <2>2. b \in Buffers /\ l # 0 /\ l <= lbb[b].forced
    BY <1>5, <1>6, <1>12
  <2>3. \A x \in Buffers : Starts(x, l)' => OnQueue(x)'
    BY <1>4, <1>7 DEF OnQueue
  <2>4. Starts(b, l)' => l <= lbb'[b].forced
    BY <2>2
  <2>5. rec'[l][2] # 0 /\ sess'[s].wlsn <= l
    BY <1>2, <1>3, <2>1, <2>2
  <2>6. Seeks(s)'
    BY <1>12, <2>1, <2>2, <2>3, <2>4, <2>5 DEF Seeks, Starts
  <2> QED
    BY <1>2, <2>1, <2>6 DEF CallSound, Busy
<1> QED
  BY <1>11, <1>12

LEMMA AimsInLog ==
  ASSUME LogSound, NEW s \in Sessions, CallSound(s), NEW aim \in Aims(s)
  PROVE  aim.target \in 0..lastLsn /\ aim.wlsn \in Nat /\ aim.wlsn <= aim.target
<1>1. /\ lastLsn \in Nat /\ sess[s].last \in 0..lastLsn /\ sess[s].first \in Nat
      /\ sess[s].first <= sess[s].last
  BY DEF LogSound, Shape, CallType, LsnsGiven, CallSound
<1>2. EndOfLog(s) \in 0..lastLsn
  BY EndOfLogGiven DEF LogSound
<1>3. Known \subseteq 1..lastLsn
  BY DEF Known
<1> QED
  BY <1>1, <1>2, <1>3 DEF Aims

LEMMA LGforceKeeps ==
  ASSUME LogSound, LogSound', DiskSound, PromiseSound, NEW s \in Sessions, LGforce(s)
  PROVE  PromiseSound' /\ sess'[s].target <= lastLsn /\ sess'[s].pc \in {"wake", "return", "attach"}
<1>1. SamePages /\ disk' = disk /\ lastLsn' = lastLsn /\ rec' = rec
  BY LGforceSound, MoveSame DEF LGforce, log
<1>2. PagesTell' /\ RecordsAge /\ PagesAge
  BY <1>1, SameKeepsPages DEF PromiseSound
<1>3. sess[s] \in CallType /\ sess \in [Sessions -> CallType] /\ lastLsn \in Nat
  BY CallTypes
<1>4. CallSound(s) /\ (\A t \in Sessions : CallSound(t)) /\ PagesTell
  BY DEF PromiseSound
<1>5. sess[s].pc = "idle" /\ ~sess[s].wait /\ io[s] = NoIo
  BY DEF LGforce, At
<1>6. ~sess[s].cs /\ sess[s].first <= sess[s].last /\ sess[s].lwq = None
  <2>1. sess[s].lwq # None => sess[s].wait
    BY DEF LogSound, WaitersPlaced
  <2> QED
    BY <1>4, <1>5, <2>1 DEF CallSound
<1> DEFINE Call(aim) == [sess[s] EXCEPT !.kind = "force", !.target = aim.target,
                                        !.wlsn = aim.wlsn]
           here(aim) == /\ lbb[current].current /\ lbb[current].first # 0
                        /\ lbb[current].first <= aim.target
           count == Cardinality(WaitersOn(current)) + 1
<1>7. PICK aim \in Aims(s) :
        \/ /\ aim.target < forcedLsn
           /\ sess' = [sess EXCEPT ![s] = [Call(aim) EXCEPT !.pc = "return", !.synch = TRUE]]
           /\ UNCHANGED queues
        \/ /\ aim.target >= forcedLsn /\ here(aim) /\ lbb[current].owner = None
           /\ ForceOut(s, current, lbb, count)
           /\ sess' = [sess EXCEPT ![s] =
                         [SuspendOn(Call(aim), current, aim.wlsn) EXCEPT !.pc =
                            IF MarksForce(current, lbb, count) THEN "wake" ELSE "return"]]
        \/ /\ aim.target >= forcedLsn /\ ~here(aim) /\ lbb[current].owner = None
           /\ sess' = [sess EXCEPT ![s] = SeekOn(Call(aim))]
           /\ UNCHANGED queues
  BY DEF LGforce
<1>8. PICK l \in Nat, w \in Nat : l = aim.target /\ w = aim.wlsn /\ w <= l /\ l <= lastLsn
  BY <1>3, <1>4, AimsInLog
<1>9. PICK r : r = [sess[s] EXCEPT !.kind = "force", !.target = l, !.wlsn = w]
  OBVIOUS
<1>10. /\ r \in CallType /\ r.kind = "force" /\ r.target = l /\ r.wlsn = w
       /\ r.first <= r.last /\ ~r.wait /\ ~r.cs /\ r.lwq = None
  <2>1. PICK old : old = sess[s]
    OBVIOUS
  <2>2. old \in CallType /\ r = [old EXCEPT !.kind = "force", !.target = l, !.wlsn = w]
    BY <1>3, <1>9, <2>1
  <2>3. /\ r \in CallType /\ r.kind = "force" /\ r.target = l /\ r.wlsn = w
        /\ r.first = old.first /\ r.last = old.last
        /\ r.wait = old.wait /\ r.cs = old.cs /\ r.lwq = old.lwq
    BY <2>2 DEF CallType, Kinds
  <2> QED
    BY <1>5, <1>6, <2>1, <2>3
<1>11. Call(aim) = r
  BY <1>8, <1>9
<1> HIDE DEF Call, count
<1>12. CASE /\ aim.target < forcedLsn
            /\ sess' = [sess EXCEPT ![s] = [Call(aim) EXCEPT !.pc = "return", !.synch = TRUE]]
            /\ UNCHANGED queues
  <2>1. sess'[s] = [r EXCEPT !.pc = "return", !.synch = TRUE] /\ io' = io
        /\ \A t \in Sessions \ {s} : sess'[t] = sess[t]
    BY <1>3, <1>11, <1>12 DEF queues
  <2>2. /\ sess'[s].pc = "return" /\ sess'[s].kind = "force" /\ sess'[s].target = l
        /\ sess'[s].first = r.first /\ sess'[s].last = r.last
        /\ ~sess'[s].wait /\ ~sess'[s].cs /\ sess'[s].lwq = None
    BY <1>10, <2>1 DEF CallType
  <2>3. Safe(l)'
    <3>1. Safe(l)
      BY <1>3, <1>8, <1>12 DEF DiskSound, ForcedWritten, Safe
    <3> QED
      BY <1>1, <3>1 DEF Safe, OnDisk
  <2>4. Served(s)'
    BY <1>5, <2>1, <2>2, <2>3 DEF Served, Safe, NoIo
  <2>5. CallSound(s)'
    BY <1>1, <1>8, <1>10, <2>2, <2>4 DEF CallSound, Busy
  <2> QED
    BY <1>2, <1>4, <1>8, <2>1, <2>2, <2>5, OthersAge
<1>13. CASE /\ here(aim) /\ lbb[current].owner = None
            /\ ForceOut(s, current, lbb, count)
            /\ sess' = [sess EXCEPT ![s] =
                         [SuspendOn(Call(aim), current, aim.wlsn) EXCEPT !.pc =
                            IF MarksForce(current, lbb, count) THEN "wake" ELSE "return"]]
  <2>1. PICK p \in {"wake", "return"} :
          sess'[s] = [r EXCEPT !.wait = TRUE, !.lwq = current, !.wlsn = w,
                               !.synch = FALSE, !.pc = p]
    <3>1. sess'[s] = [SuspendOn(r, current, w) EXCEPT !.pc =
                            IF MarksForce(current, lbb, count) THEN "wake" ELSE "return"]
      BY <1>3, <1>8, <1>11, <1>13
    <3>2. SuspendOn(r, current, w) = [r EXCEPT !.wait = TRUE, !.lwq = current, !.wlsn = w,
                                               !.synch = FALSE]
      BY DEF SuspendOn
    <3> QED
      BY <1>10, <3>1, <3>2 DEF CallType
  <2>2. /\ sess'[s].pc = p /\ sess'[s].kind = "force" /\ sess'[s].target = l
        /\ sess'[s].first = r.first /\ sess'[s].last = r.last
        /\ sess'[s].wait /\ ~sess'[s].cs /\ sess'[s].lwq = current
        /\ sess'[s].wlsn = w /\ ~sess'[s].synch
    BY <1>10, <2>1 DEF CallType
  <2>3. \A t \in Sessions \ {s} : sess'[t] = sess[t]
    BY <1>3, <1>13
  <2>4. /\ \A t \in Sessions \ {s} : io'[t] = io[t]
        /\ io'[s] = io[s] \/ io'[s] = [io[s] EXCEPT !.buf = current]
    BY <1>13, ForceOutIo DEF LogSound
  <2>5. current \in Buffers /\ lbb[current].forced = lastLsn
    <3>1. current \in Buffers /\ lbb[current].current /\ lbb[current].first # 0
      BY <1>13 DEF LogSound, Shape
    <3>2. ~OnQueue(current)
      BY <1>13, <3>1, ThreadsAssumption DEF LogSound, SpansAlone
    <3> QED
      BY <1>4, <3>1, <3>2 DEF PagesTell, OpenEndsLog, Open
  <2>6. l <= lbb'[current].forced
    BY <1>1, <1>3, <1>8, <2>5 DEF SamePages
  <2>7. Awaits(s)'
    BY <1>5, <1>8, <2>2, <2>4, <2>5, <2>6, Suspended
  <2>8. CallSound(s)'
    BY <1>1, <1>8, <1>10, <2>2, <2>7 DEF CallSound, Busy
  <2> QED
    BY <1>2, <1>4, <1>8, <2>2, <2>3, <2>4, <2>8, OthersAge
<1>14. CASE /\ ~here(aim) /\ lbb[current].owner = None
            /\ sess' = [sess EXCEPT ![s] = SeekOn(Call(aim))]
            /\ UNCHANGED queues
  <2>1. \A x \in Buffers : Starts(x, l) => OnQueue(x)
    BY <1>8, <1>14 DEF Starts, Placed
  <2>2. l # 0 => rec[l][2] # 0
    BY <1>3, <1>8, <1>14, NothingSpanned
  <2>3. /\ sess' = [sess EXCEPT ![s] = SeekOn(r)]
        /\ lbb' = lbb /\ wq' = wq /\ io' = io
    BY <1>11, <1>14 DEF queues
  <2>4. current' = current
    BY <1>1 DEF SamePages
  <2>5. CallSound(s)'
    BY <1>1, <1>4, <1>5, <1>8, <1>10, <2>1, <2>2, <2>3, <2>4, SeekSound
  <2>6. sess'[s].target = l /\ sess'[s].pc \in {"return", "attach"}
    BY <1>3, <1>10, <2>3 DEF SeekOn, CallType
  <2>7. \A t \in Sessions \ {s} : sess'[t] = sess[t] /\ io'[t] = io[t]
    BY <1>3, <2>3
  <2> QED
    BY <1>2, <1>4, <1>8, <2>5, <2>6, <2>7, OthersAge
<1> QED
  BY <1>7, <1>12, <1>13, <1>14

LEMMA AttachKeeps ==
  ASSUME LogSound, LogSound', DiskSound, PromiseSound, NEW s \in Sessions, Attach(s)
  PROVE  PromiseSound'
<1>1. /\ SamePages /\ disk' = disk /\ lastLsn' = lastLsn /\ rec' = rec /\ current' = current
      /\ lbb' = lbb /\ wq' = wq /\ io' = io
  BY StandSame DEF Attach, queues, log
<1>2. PagesTell' /\ RecordsAge /\ PagesAge
  BY <1>1, SameKeepsPages DEF PromiseSound
<1>3. sess[s] \in CallType /\ sess \in [Sessions -> CallType] /\ lastLsn \in Nat
  BY CallTypes
<1>4. CallSound(s) /\ (\A t \in Sessions : CallSound(t)) /\ PagesTell
  BY DEF PromiseSound
<1>5. sess[s].pc = "attach" /\ io[s] = NoIo
  BY DEF Attach, At
<1>6. /\ ~sess[s].wait /\ ~sess[s].cs /\ sess[s].first <= sess[s].last /\ Seeks(s)
      /\ sess[s].kind = "force" /\ sess[s].target <= lastLsn /\ sess[s].lwq = None
  <2>1. sess[s].lwq # None => sess[s].wait
    BY DEF LogSound, WaitersPlaced
  <2> QED
    BY <1>4, <1>5, <2>1 DEF CallSound
<1>7. PICK l \in Nat, w \in Nat, b \in Buffers :
        l = sess[s].target /\ w = sess[s].wlsn /\ b = sess[s].buf
  BY <1>3, <1>6 DEF CallType, Seeks
<1>8. /\ l # 0 /\ rec[l][2] # 0 /\ w <= l /\ l <= lastLsn
      /\ \A x \in Buffers : Starts(x, l) => OnQueue(x)
      /\ Starts(b, l) => l <= lbb[b].forced
  BY <1>6, <1>7 DEF Seeks
<1>9. sess' = [sess EXCEPT ![s] =
                  IF StillThere(b, l)
                    THEN [SuspendOn(sess[s], b, w) EXCEPT !.pc = "return", !.buf = None]
                    ELSE SeekOn(sess[s])]
  BY <1>3, <1>7 DEF Attach
<1>10. \A t \in Sessions \ {s} : sess'[t] = sess[t] /\ io'[t] = io[t]
  BY <1>1, <1>3, <1>9
<1>11. CASE StillThere(b, l)
  <2>1. l <= lbb'[b].forced
    <3>1. OnQueue(b) /\ lbb[b].first <= l
      BY <1>11 DEF StillThere
    <3>2. Starts(b, l)
      BY <1>4, <3>1, QueuedHasRecord DEF Starts, Placed
    <3> QED
      BY <1>1, <1>8, <3>2
  <2>2. sess'[s] = [sess[s] EXCEPT !.wait = TRUE, !.lwq = b, !.wlsn = w, !.synch = FALSE,
                                   !.pc = "return", !.buf = None]
    BY <1>3, <1>9, <1>11 DEF SuspendOn, CallType
  <2>3. /\ sess'[s].pc = "return" /\ sess'[s].kind = "force" /\ sess'[s].target = l
        /\ sess'[s].first = sess[s].first /\ sess'[s].last = sess[s].last
        /\ sess'[s].wait /\ ~sess'[s].cs /\ sess'[s].lwq = b
        /\ sess'[s].wlsn = w /\ ~sess'[s].synch
    BY <1>3, <1>6, <1>7, <2>2 DEF CallType
  <2>4. Awaits(s)'
    BY <1>1, <1>3, <1>5, <1>8, <2>1, <2>3, Suspended
  <2>5. CallSound(s)'
    BY <1>1, <1>6, <1>8, <2>3, <2>4 DEF CallSound, Busy
  <2> QED
    BY <1>2, <1>4, <1>10, <2>5, OthersAge
<1>12. CASE ~StillThere(b, l)
  <2>1. sess' = [sess EXCEPT ![s] = SeekOn(sess[s])]
    BY <1>9, <1>12
  <2>2. CallSound(s)'
    BY <1>1, <1>3, <1>4, <1>5, <1>6, <1>7, <1>8, <2>1, SeekSound
  <2> QED
    BY <1>2, <1>4, <1>10, <2>2, OthersAge
<1> QED
  BY <1>11, <1>12


-------------------------------------------------------------------------------
(* A record enters the log.                                                *)

(* What a session knows that logs a record.                                *)
LEMMA LoggingCall ==
  ASSUME LogSound, NEW s \in Sessions, CallSound(s), Logging(s)
  PROVE  /\ sess[s] \in CallType /\ sess \in [Sessions -> CallType] /\ lastLsn \in Nat
         /\ ~sess[s].wait /\ sess[s].lwq = None /\ sess[s].kind # "force"
         /\ sess[s].first <= sess[s].last /\ sess[s].target <= lastLsn
         /\ sess[s].last <= lastLsn /\ io[s] = NoIo
         /\ sess[s].pc \in {"log", "sleep"}
<1>1. ~sess[s].wait
  BY DEF Logging, At, CallSound
<1>2. sess[s].pc \in {"log", "sleep"} /\ sess[s].lwq = None /\ io[s] = NoIo
      /\ sess[s] \in CallType /\ sess[s].last <= lastLsn
  BY LoggingSession
<1> QED
  BY <1>1, <1>2 DEF LogSound, Shape, CallSound

(* It sleeps until there are enough buffers.                               *)
LEMMA AsleepSound ==
  ASSUME LogSound, NEW s \in Sessions, CallSound(s), Logging(s),
         sess' = [sess EXCEPT ![s] = Asleep(sess[s])], lastLsn' = lastLsn
  PROVE  CallSound(s)'
<1>1. /\ sess[s] \in CallType /\ sess \in [Sessions -> CallType] /\ lastLsn \in Nat
      /\ sess[s].lwq = None /\ sess[s].kind # "force"
      /\ sess[s].first <= sess[s].last /\ sess[s].target <= lastLsn
  BY LoggingCall
<1>2. sess'[s] = [sess[s] EXCEPT !.pc = "sleep", !.wait = TRUE, !.cs = FALSE]
  BY <1>1 DEF Asleep
<1>3. /\ sess'[s].pc = "sleep" /\ sess'[s].kind = sess[s].kind
      /\ sess'[s].first = sess[s].first /\ sess'[s].last = sess[s].last
      /\ sess'[s].target = sess[s].target /\ sess'[s].lwq = sess[s].lwq
  BY <1>1, <1>2 DEF CallType
<1> QED
  BY <1>1, <1>3 DEF CallSound, Busy

(* A new page at the end of the log.                                       *)
LEMMA PageOpened ==
  ASSUME LogSound, DiskSound, PagesTell, ~lbb[current].current, NEW b \in fq,
         \A x \in Buffers \ {b} : lbb'[x] = lbb[x],
         lbb'[b].page = eof + 1, lbb'[b].first = 0, lbb'[b].forced = 0,
         current' = b, wq' = wq, UNCHANGED log, disk' = disk
  PROVE  PagesTell' /\ RecordsAge /\ PagesAge
<1>1. /\ b \in Buffers /\ ~OnQueue(b) /\ ~lbb[b].current
  BY FreeUnused
<1>2. /\ rec' = rec /\ lastLsn' = lastLsn /\ eof' = eof
      /\ lastLsn \in Nat /\ eof \in Nat
      /\ \A x \in Buffers : lbb[x].forced \in Nat
  BY DEF log, LogSound, Shape, BufferType
<1>3. \A x \in Buffers \ {b} : Placed(x)' <=> Placed(x)
  BY <1>1 DEF Placed, OnQueue
<1>4. ~Placed(b)
  BY <1>1 DEF Placed
<1>5. \A l \in 1..lastLsn : ~Spread(l, eof + 1)
  <2>1. \A l \in 1..lastLsn : rec[l][2] <= eof /\ rec[l][2] \in Nat
    <3>1. \A l \in 1..lastLsn : rec[l] \in Nat \X Nat
      BY <1>2 DEF DiskSound, Recorded
    <3> QED
      BY <3>1 DEF DiskSound, Recorded
  <2> QED
    BY <1>2, <2>1 DEF Spread
<1>6. \A l, p : Spread(l, p)' <=> Spread(l, p)
  BY <1>2 DEF Spread
<1>7. OnlyLastSpans' /\ WrittenInLog'
  BY <1>2 DEF PagesTell, OnlyLastSpans, WrittenInLog
<1>8. PagesFilled'
  <2>1. \A x \in Buffers : Placed(x)' => lbb'[x].page # 0
    BY <1>2, <1>3 DEF PagesTell, PagesFilled
  <2>2. \A p \in 1..eof : \E l \in 1..lastLsn : Spread(l, p)'
    BY <1>6 DEF PagesTell, PagesFilled
  <2> QED
    BY <1>2, <2>1, <2>2 DEF PagesFilled
<1>9. FirstsRise'
  <2>1. ASSUME NEW x \in Buffers, NEW l \in 1..lastLsn, Placed(x)', Spread(l, lbb'[x].page)
        PROVE  lbb'[x].first # 0 /\ lbb'[x].first <= l
    <3>1. x # b
      BY <1>5, <2>1
    <3> QED
      BY <1>3, <2>1, <3>1 DEF PagesTell, FirstsRise
  <2>2. \A x \in Buffers : \A l \in 1..lastLsn :
          Placed(x)' /\ Spread(l, lbb[x].page)' => lbb'[x].first # 0 /\ lbb'[x].first <= l
    BY <1>2, <2>1 DEF Spread
  <2>3. ASSUME NEW x \in Buffers, NEW y \in Buffers,
               Placed(x)', Placed(y)', lbb'[x].page < lbb'[y].page,
               lbb'[x].first # 0, lbb'[y].first # 0
        PROVE  lbb'[x].first <= lbb'[y].first
    <3>1. x # b /\ y # b
      BY <2>3
    <3> QED
      BY <1>3, <2>3, <3>1 DEF PagesTell, FirstsRise
  <2> QED
    BY <1>2, <2>2, <2>3 DEF FirstsRise
<1>10. LastVouches'
  <2>1. \A x \in Buffers \ {b} : \A l : Starts(x, l)' <=> Starts(x, l)
    BY <1>3 DEF Starts
  <2>2. \A l : ~Starts(b, l)' /\ ~Starts(b, l)
    BY <1>4 DEF Starts
  <2>3. ASSUME NEW l \in 1..lastLsn, rec[l][2] # 0, NEW x \in Buffers, Starts(x, l)'
        PROVE  \/ l <= lbb'[x].forced
               \/ \E y \in Buffers : Starts(y, l)' /\ lbb'[x].page < lbb'[y].page
    <3>1. x # b /\ Starts(x, l) /\ lbb'[x] = lbb[x]
      BY <2>1, <2>2, <2>3
    <3>2. \/ l <= lbb[x].forced
          \/ \E y \in Buffers : Starts(y, l) /\ lbb[x].page < lbb[y].page
      BY <2>3, <3>1 DEF PagesTell, LastVouches
    <3>3. ASSUME NEW y \in Buffers, Starts(y, l), lbb[x].page < lbb[y].page
          PROVE  Starts(y, l)' /\ lbb'[x].page < lbb'[y].page
      <4>1. y # b
        BY <2>2, <3>3
      <4> QED
        BY <2>1, <3>1, <3>3, <4>1
    <3> QED
      BY <3>1, <3>2, <3>3
  <2> QED
    BY <1>2, <2>3 DEF LastVouches
<1>11. OpenEndsLog'
  <2>1. eof + 1 \notin disk
    BY <1>2 DEF PagesTell, WrittenInLog
  <2>2. \A x \in Buffers : Open(x)' => x = b
    BY DEF Open
  <2> QED
    BY <2>1, <2>2 DEF OpenEndsLog
<1>12. RecordsAge
  BY <1>2 DEF RecordsAge
<1>13. PagesAge
  <2>1. \A x \in Buffers : OnQueue(x) => OnQueue(x)'
    BY DEF OnQueue
  <2> QED
    BY <1>2, <1>3, <1>4, <2>1 DEF PagesAge
<1> QED
  BY <1>7, <1>8, <1>9, <1>10, <1>11, <1>12, <1>13 DEF PagesTell

LEMMA AllocateKeeps ==
  ASSUME LogSound, LogSound', DiskSound, PromiseSound, NEW s \in Sessions, Allocate(s)
  PROVE  PromiseSound'
<1>1. CallSound(s) /\ (\A t \in Sessions : CallSound(t)) /\ PagesTell
  BY DEF PromiseSound
<1>2. /\ Logging(s) /\ ~lbb[current].current /\ wq' = wq /\ io' = io /\ disk' = disk
      /\ UNCHANGED log /\ lastLsn' = lastLsn
  BY DEF Allocate, log
<1>3. /\ sess[s] \in CallType /\ sess \in [Sessions -> CallType] /\ lastLsn \in Nat
      /\ ~sess[s].wait /\ sess[s].kind # "force" /\ sess[s].first <= sess[s].last
      /\ sess[s].target <= lastLsn
  BY <1>1, <1>2, LoggingCall
<1>4. CASE sess' = [sess EXCEPT ![s] = Asleep(@)] /\ UNCHANGED <<lbb, current, free>>
  <2>1. SamePages
    BY <1>2, <1>4, StandSame
  <2>2. sess' = [sess EXCEPT ![s] = Asleep(sess[s])]
    BY <1>3, <1>4
  <2>3. CallSound(s)'
    BY <1>1, <1>2, <2>2, AsleepSound
  <2>4. \A t \in Sessions \ {s} : sess'[t] = sess[t]
    BY <1>3, <2>2
  <2> QED
    BY <1>1, <1>2, <2>1, <2>3, <2>4, SameKeepsPages, OthersAge
<1>5. ASSUME NEW b \in fq,
             lbb' = [lbb EXCEPT ![b] = [Fresh(eof + 1) EXCEPT
                                          !.current = TRUE, !.owner = s]],
             current' = b,
             sess' = [sess EXCEPT ![s].pc = "log", ![s].cs = FALSE]
      PROVE  PromiseSound'
  <2>1. b \in Buffers /\ lbb \in [Buffers -> BufferType] /\ eof \in Nat
    BY DEF LogSound, Shape
  <2>2. lbb'[b].page = eof + 1 /\ lbb'[b].first = 0 /\ lbb'[b].forced = 0
    <3> DEFINE F == Fresh(eof + 1)
    <3>1. F \in BufferType /\ F.page = eof + 1 /\ F.first = 0 /\ F.forced = 0
      BY <2>1, FreshPage
    <3>2. lbb'[b] = [F EXCEPT !.current = TRUE, !.owner = s]
      BY <1>5, <2>1
    <3> HIDE DEF F
    <3> QED
      BY <3>1, <3>2 DEF BufferType
  <2>3. \A x \in Buffers \ {b} : lbb'[x] = lbb[x]
    BY <1>5, <2>1
  <2>4. PagesTell' /\ RecordsAge /\ PagesAge
    BY <1>1, <1>2, <1>5, <2>2, <2>3, PageOpened
  <2>5. sess' = [sess EXCEPT ![s] = [sess[s] EXCEPT !.pc = "log", !.cs = FALSE]]
    BY <1>3, <1>5
  <2>6. /\ sess'[s].pc = "log" /\ sess'[s].kind = sess[s].kind
        /\ sess'[s].first = sess[s].first /\ sess'[s].last = sess[s].last
        /\ sess'[s].target = sess[s].target /\ sess'[s].wait = sess[s].wait
        /\ ~sess'[s].cs
        /\ \A t \in Sessions \ {s} : sess'[t] = sess[t]
    BY <1>3, <2>5 DEF CallType
  <2>7. CallSound(s)'
    BY <1>2, <1>3, <2>6 DEF CallSound, Busy
  <2> QED
    BY <1>1, <1>2, <2>4, <2>6, <2>7, OthersAge
<1> QED
  BY <1>4, <1>5 DEF Allocate


(* A record enters the open page: it is complete there, or goes on.        *)
LEMMA RecordPlaced ==
  ASSUME LogSound, DiskSound, PagesTell, NEW s \in Sessions, CurrentStep(s),
         lbb[current].current, ~OnQueue(current),
         \A u \in Sessions : sess[u].pc # "span",
         NEW q \in {0, lbb[current].page},
         rec' = Append(rec, <<lbb[current].page, q>>),
         eof' = lbb[current].page, lastLsn' = lastLsn + 1, disk' = disk,
         lbb'[current].first = IF lbb[current].first = 0 THEN lastLsn + 1
                                                         ELSE lbb[current].first,
         lbb'[current].last = lastLsn + 1,
         lbb'[current].forced = IF q = 0 THEN lbb[current].last ELSE lastLsn + 1,
         q = 0 => current \in Members(wq')
  PROVE  PagesTell' /\ RecordsAge /\ PagesAge /\ LogGrows
<1>1. PICK c \in Buffers, p \in Nat, e \in Nat, n \in Nat :
        c = current /\ p = lbb[current].page /\ e = eof /\ n = lastLsn
  BY DEF LogSound, Shape, BufferType
<1>2. /\ \A x \in Buffers : Placed(x)' <=> Placed(x)
      /\ \A x \in Buffers : lbb'[x].page = lbb[x].page
      /\ \A x \in Buffers \ {c} : lbb'[x] = lbb[x]
      /\ Placed(c) /\ e <= p /\ current' = c
  BY <1>1, CurrentStepPlaces
<1>3. p \in 1..(e + 1)
  BY <1>1 DEF DiskSound, PagesKept
<1>4. /\ \A l \in 1..n : rec'[l] = rec[l]
      /\ rec'[n + 1] = <<p, q>> /\ lastLsn' = n + 1 /\ eof' = p /\ disk' = disk
  BY <1>1 DEF DiskSound, Recorded
<1>5. \A l \in 1..n : /\ rec[l][2] \in Nat /\ rec[l][2] # 0 /\ rec[l][2] <= e
                      /\ rec[l][1] \in Nat
  <2>1. \A l \in 1..n : rec[l] \in Nat \X Nat
    BY <1>1 DEF DiskSound, Recorded
  <2> QED
    BY <1>1, <2>1 DEF DiskSound, Recorded
<1>6. rec'[n + 1][1] = p /\ rec'[n + 1][2] = q /\ (q = 0 \/ q = p)
  <2>1. q \in {0, p} /\ q \in Nat
    BY <1>1
  <2>2. <<p, q>>[1] = p /\ <<p, q>>[2] = q
    BY <2>1
  <2> QED
    BY <1>4, <2>1, <2>2, Zenon
<1>7. Open(c) /\ p \notin disk
  BY <1>1 DEF Open, PagesTell, OpenEndsLog
<1>8. /\ lbb[c].first # 0 => lbb[c].last = n /\ lbb[c].forced = n
      /\ lbb[c].first = 0 => lbb[c].forced = 0
  BY <1>1, <1>7 DEF PagesTell, OpenEndsLog
<1>9. /\ \A x \in Buffers : /\ lbb[x].first \in 0..n /\ lbb[x].forced \in 0..n
                            /\ lbb[x].last \in 0..n /\ lbb[x].page \in Nat
  BY <1>1 DEF LogSound, Shape, BufferType, LsnsGiven
<1>10. /\ lbb'[c].first = IF lbb[c].first = 0 THEN n + 1 ELSE lbb[c].first
       /\ lbb'[c].last = n + 1
       /\ lbb'[c].forced = IF q = 0 THEN lbb[c].last ELSE n + 1
       /\ lbb[c].page = p /\ lbb'[c].page = p
  BY <1>1, <1>2
<1>11. \A x \in Buffers : Placed(x) /\ x # c => OnQueue(x) /\ lbb[x].page < p
  BY <1>1 DEF Placed, LogSound, CurrentLast, OnQueue
<1>12. \A l \in 1..n : \A k : Spread(l, k)' <=> Spread(l, k)
  BY <1>4, <1>5 DEF Spread
<1>13. \A k \in Nat : Spread(n + 1, k)' <=> k = p
  <2>1. PICK a, z, w : a = rec'[n + 1][1] /\ z = rec'[n + 1][2] /\ w = eof'
    OBVIOUS
  <2>2. a = p /\ w = p /\ (z = 0 \/ z = p)
    BY <1>4, <1>6, <2>1
  <2>3. ASSUME NEW k \in Nat PROVE Spread(n + 1, k)' <=> k = p
    <3>1. Spread(n + 1, k)' <=> (a <= k /\ k <= IF z = 0 THEN w ELSE z)
      BY <2>1, Zenon DEF Spread
    <3> QED
      BY <2>2, <3>1
  <2> QED
    BY <2>3
<1>14. 1..(n + 1) = (1..n) \cup {n + 1}
  BY <1>1
<1>15. OnlyLastSpans'
  BY <1>4, <1>5, <1>14 DEF OnlyLastSpans
<1>16. PagesFilled'
  <2>1. \A x \in Buffers : Placed(x)' => lbb'[x].page # 0
    BY <1>2 DEF PagesTell, PagesFilled
  <2>2. ASSUME NEW k \in 1..p PROVE \E l \in 1..(n + 1) : Spread(l, k)'
    <3>1. CASE k <= e
      <4>1. PICK l \in 1..n : Spread(l, k)
        BY <1>1, <2>2, <3>1 DEF PagesTell, PagesFilled
      <4> QED
        BY <1>12, <1>14, <4>1
    <3>2. CASE ~(k <= e)
      <4>1. k = p /\ k \in Nat
        BY <1>2, <1>3, <2>2, <3>2
      <4> QED
        BY <1>13, <1>14, <4>1
    <3> QED
      BY <3>1, <3>2
  <2> QED
    BY <1>4, <2>1, <2>2 DEF PagesFilled
<1>17. FirstsRise'
  <2>1. ASSUME NEW x \in Buffers, NEW l \in 1..(n + 1), Placed(x)', NEW k \in Nat,
               k = lbb'[x].page, Spread(l, k)'
        PROVE  lbb'[x].first # 0 /\ lbb'[x].first <= l
    <3>1. CASE l \in 1..n
      <4>1. Spread(l, k) /\ Placed(x) /\ k = lbb[x].page
        BY <1>2, <1>12, <2>1, <3>1
      <4>2. lbb[x].first # 0 /\ lbb[x].first <= l
        BY <1>1, <3>1, <4>1 DEF PagesTell, FirstsRise
      <4> QED
        BY <1>2, <1>10, <4>2
    <3>2. CASE l = n + 1
      <4>1. k = p
        BY <1>13, <2>1, <3>2
      <4>2. x = c
        <5>1. SUFFICES ASSUME x # c PROVE FALSE
          OBVIOUS
        <5>2. lbb[x].page < p
          BY <1>2, <1>11, <2>1, <5>1
        <5>3. lbb[x].page = p
          BY <1>2, <2>1, <4>1
        <5> QED
          BY <5>2, <5>3
      <4> QED
        BY <1>9, <1>10, <3>2, <4>2
    <3> QED
      BY <1>14, <2>1, <3>1, <3>2
  <2>2. \A x \in Buffers : \A l \in 1..(n + 1) :
          Placed(x)' /\ Spread(l, lbb[x].page)' => lbb'[x].first # 0 /\ lbb'[x].first <= l
    <3>1. ASSUME NEW x \in Buffers, NEW l \in 1..(n + 1), Placed(x)', Spread(l, lbb[x].page)'
          PROVE  lbb'[x].first # 0 /\ lbb'[x].first <= l
      <4>1. PICK k \in Nat : k = lbb'[x].page
        BY <1>2, <1>9
      <4>2. Spread(l, k)'
        BY <3>1, <4>1 DEF Spread
      <4> QED
        BY <2>1, <3>1, <4>1, <4>2
    <3> QED
      BY <3>1
  <2>3. ASSUME NEW x \in Buffers, NEW y \in Buffers,
               Placed(x)', Placed(y)', lbb'[x].page < lbb'[y].page,
               lbb'[x].first # 0, lbb'[y].first # 0
        PROVE  lbb'[x].first <= lbb'[y].first
    <3>1. x # y /\ Placed(x) /\ Placed(y) /\ lbb[x].page < lbb[y].page
      BY <1>2, <1>9, <2>3
    <3>2. x # c
      <4>1. SUFFICES ASSUME x = c PROVE FALSE
        OBVIOUS
      <4>2. lbb[y].page < p
        BY <1>11, <3>1, <4>1
      <4> QED
        BY <1>9, <1>10, <3>1, <4>1, <4>2
    <3>3. lbb'[x] = lbb[x]
      BY <1>2, <3>2
    <3>4. CASE y = c /\ lbb[c].first = 0
      BY <1>9, <1>10, <3>3, <3>4
    <3>5. CASE ~(y = c /\ lbb[c].first = 0)
      <4>1. lbb'[y].first = lbb[y].first
        BY <1>2, <1>10, <3>5
      <4> QED
        BY <2>3, <3>1, <3>3, <4>1 DEF PagesTell, FirstsRise
    <3> QED
      BY <3>4, <3>5
  <2> QED
    BY <1>4, <2>2, <2>3 DEF FirstsRise
<1>18. LastVouches'
  <2>1. \A x \in Buffers : \A l \in 1..n : Starts(x, l)' <=> Starts(x, l)
    <3>1. ASSUME NEW x \in Buffers, NEW l \in 1..n PROVE Starts(x, l)' <=> Starts(x, l)
      <4>1. CASE x # c
        BY <1>2, <4>1 DEF Starts
      <4>2. CASE x = c
        BY <1>2, <1>9, <1>10, <4>2 DEF Starts
      <4> QED
        BY <4>1, <4>2
    <3> QED
      BY <3>1
  <2>2. ASSUME NEW l \in 1..n, NEW x \in Buffers, Starts(x, l)'
        PROVE  \/ l <= lbb'[x].forced
               \/ \E y \in Buffers : Starts(y, l)' /\ lbb'[x].page < lbb'[y].page
    <3>1. Starts(x, l)
      BY <2>1, <2>2
    <3>2. CASE x = c
      <4>1. lbb[c].first # 0
        BY <3>1, <3>2 DEF Starts
      <4> QED
        BY <1>8, <1>10, <3>2, <4>1
    <3>3. CASE x # c
      <4>1. \/ l <= lbb[x].forced
            \/ \E y \in Buffers : Starts(y, l) /\ lbb[x].page < lbb[y].page
        BY <1>1, <1>5, <3>1 DEF PagesTell, LastVouches
      <4>2. ASSUME NEW y \in Buffers, Starts(y, l), lbb[x].page < lbb[y].page
            PROVE  Starts(y, l)' /\ lbb'[x].page < lbb'[y].page
        BY <1>2, <2>1, <4>2
      <4> QED
        BY <1>2, <3>3, <4>1, <4>2
    <3> QED
      BY <3>2, <3>3
  <2>3. ASSUME NEW l \in 1..(n + 1), l = n + 1, q # 0, NEW x \in Buffers, Starts(x, l)'
        PROVE  \/ l <= lbb'[x].forced
               \/ \E y \in Buffers : Starts(y, l)' /\ lbb'[x].page < lbb'[y].page
    <3>1. CASE x = c
      BY <1>10, <2>3, <3>1
    <3>2. CASE x # c
      <4>1. lbb'[x].page < lbb'[c].page
        BY <1>2, <1>10, <1>11, <2>3, <3>2 DEF Starts
      <4>2. Starts(c, l)'
        BY <1>2, <1>9, <1>10, <2>3 DEF Starts
      <4> QED
        BY <4>1, <4>2
    <3> QED
      BY <3>1, <3>2
  <2>4. ASSUME NEW l \in 1..(n + 1), rec'[l][2] # 0, NEW x \in Buffers, Starts(x, l)'
        PROVE  \/ l <= lbb'[x].forced
               \/ \E y \in Buffers : Starts(y, l)' /\ lbb'[x].page < lbb'[y].page
    <3>1. CASE l \in 1..n
      BY <2>2, <2>4, <3>1
    <3>2. CASE l = n + 1
      BY <1>6, <2>3, <2>4, <3>2
    <3> QED
      BY <1>14, <2>4, <3>1, <3>2
  <2> QED
    BY <1>4, <2>4 DEF LastVouches
<1>19. OpenEndsLog'
  <2>1. ASSUME NEW x \in Buffers, Open(x)' PROVE x = c /\ q # 0
    BY <1>1, <1>2, <2>1 DEF Open, OnQueue
  <2>2. lbb'[c].first # 0
    BY <1>9, <1>10
  <2> QED
    BY <1>4, <1>7, <1>10, <2>1, <2>2 DEF OpenEndsLog
<1>20. WrittenInLog'
  <2>1. disk \subseteq 0..e
    BY <1>1 DEF PagesTell, WrittenInLog
  <2>2. 0..e \subseteq 0..p
    BY <1>2
  <2> QED
    BY <1>4, <2>1, <2>2 DEF WrittenInLog
<1>21. RecordsAge
  <2>1. lastLsn <= lastLsn' /\ disk \subseteq disk'
    BY <1>1, <1>4
  <2>2. \A l \in 1..lastLsn : rec'[l] = rec[l]
    BY <1>1, <1>4
  <2> QED
    BY <2>1, <2>2 DEF RecordsAge
<1>22. PagesAge
  <2>1. \A x \in Buffers : lbb[x].forced <= lbb'[x].forced
    <3>1. lbb[c].forced <= lbb'[c].forced
      BY <1>8, <1>9, <1>10
    <3> QED
      BY <1>2, <1>9, <3>1
  <2>2. \A x \in Buffers : OnQueue(x) => OnQueue(x)'
    <3>1. wq' = wq \/ wq' = Enqueue(c)
      BY <1>1 DEF CurrentStep
    <3>2. Members(wq) \subseteq Members(wq')
      BY <3>1, EnqueueQueue DEF LogSound, Shape
    <3> QED
      BY <3>2 DEF OnQueue
  <2>3. \A x \in Buffers : \/ lbb'[x].first = lbb[x].first
                           \/ lbb'[x].first = n + 1
    BY <1>2, <1>10
  <2>4. \A l \in 1..lastLsn : l < n + 1
    BY <1>1
  <2> QED
    BY <1>2, <2>1, <2>2, <2>3, <2>4 DEF PagesAge
<1>23. LogGrows
  <2>1. \A l \in 1..n : OnDisk(l)' <=> OnDisk(l)
    BY <1>4 DEF OnDisk
  <2>2. ~OnDisk(n + 1)'
    <3>1. SUFFICES ASSUME q = p, p..p \subseteq disk PROVE FALSE
      BY <1>4, <1>6 DEF OnDisk
    <3> QED
      BY <1>7, <3>1
  <2> QED
    BY <1>1, <1>4, <1>14, <2>1, <2>2 DEF LogGrows
<1> QED
  BY <1>15, <1>16, <1>17, <1>18, <1>19, <1>20, <1>21, <1>22, <1>23 DEF PagesTell


LEMMA StampedGives ==
  ASSUME NEW r \in BufferType, NEW lsn \in Nat
  PROVE  LET x == Stamped(r, lsn)
         IN  /\ x \in BufferType /\ x.last = lsn
             /\ x.first = IF r.first = 0 THEN lsn ELSE r.first
<1> DEFINE f == IF r.first = 0 THEN lsn ELSE r.first
<1>1. f \in Nat
  BY DEF BufferType
<1>2. Stamped(r, lsn) = [r EXCEPT !.first = f, !.last = lsn]
  BY DEF Stamped
<1> HIDE DEF f
<1>3. LET x == [r EXCEPT !.first = f, !.last = lsn]
      IN  x \in BufferType /\ x.first = f /\ x.last = lsn
  BY <1>1 DEF BufferType
<1> QED
  BY <1>2, <1>3 DEF f

LEMMA LoggedGives ==
  ASSUME NEW r \in CallType, NEW lsn \in Nat, r.first <= r.last, r.last <= lsn
  PROVE  LET x == Logged(r, lsn)
         IN  /\ x \in CallType /\ x.first <= lsn /\ x.last = lsn /\ x.kind = r.kind
             /\ x.target = IF r.kind = "plain" THEN 0 ELSE lsn
             /\ ~x.cs /\ x.wait = r.wait
<1> DEFINE f == IF r.first = 0 THEN lsn ELSE r.first
           t == IF r.kind = "plain" THEN 0 ELSE lsn
<1>1. f \in Nat /\ t \in Nat /\ f <= lsn
  BY DEF CallType
<1>2. Logged(r, lsn) =
        [r EXCEPT !.first = f, !.last = lsn, !.cs = FALSE, !.target = t]
  BY DEF Logged
<1> HIDE DEF f, t
<1>3. LET x == [r EXCEPT !.first = f, !.last = lsn, !.cs = FALSE, !.target = t]
      IN  /\ x \in CallType /\ x.first = f /\ x.last = lsn /\ x.kind = r.kind
          /\ x.target = t /\ ~x.cs /\ x.wait = r.wait
  BY <1>1 DEF CallType
<1> QED
  BY <1>1, <1>2, <1>3 DEF t

(* Session s has logged a record.                                          *)
Logs(s) ==
  /\ lastLsn' = lastLsn + 1 /\ sess'[s].pc \in Busy /\ sess'[s].target \in {0, lastLsn'}
  /\ \A t \in Sessions \ {s} : sess'[t] = sess[t]

LEMMA LogOnPageKeeps ==
  ASSUME LogSound, LogSound', DiskSound, PromiseSound, NEW s \in Sessions, LogOnPage(s)
  PROVE  PromiseSound' /\ LogGrows /\ Logs(s)
<1>1. CallSound(s) /\ (\A t \in Sessions : CallSound(t)) /\ PagesTell
  BY DEF PromiseSound
<1>2. /\ CurrentStep(s) /\ lbb[current].current /\ ~OnQueue(current)
      /\ \A u \in Sessions : sess[u].pc # "span"
  BY LogOnPageSound
<1>3. /\ sess[s] \in CallType /\ sess \in [Sessions -> CallType] /\ lastLsn \in Nat
      /\ ~sess[s].wait /\ sess[s].lwq = None /\ sess[s].kind # "force"
      /\ sess[s].first <= sess[s].last /\ sess[s].last <= lastLsn
  BY <1>1, LoggingCall DEF LogOnPage
<1>4. PICK lsn \in Nat : lsn = lastLsn + 1
  BY <1>3
<1>5. /\ lbb \in [Buffers -> BufferType] /\ current \in Buffers /\ lbb[current] \in BufferType
      /\ sess[s].last \in Nat
  BY <1>3 DEF LogSound, Shape, CallType
<1>6. PICK full \in BOOLEAN :
        lbb' = [lbb EXCEPT ![current] =
                  [Entered(Stamped(@, lsn), full) EXCEPT !.forced = lsn]]
  BY <1>4 DEF LogOnPage
<1>7. /\ lastLsn' = lsn /\ eof' = lbb[current].page /\ io' = io /\ disk' = disk
      /\ current' = current /\ rec' = Append(rec, <<lbb[current].page, lbb[current].page>>)
      /\ sess' = [sess EXCEPT ![s] = [Logged(sess[s], lsn) EXCEPT
                                           !.pc = "copy", !.buf = current]]
  BY <1>3, <1>4 DEF LogOnPage
<1>8. /\ lbb'[current].last = lsn /\ lbb'[current].forced = lsn
      /\ lbb'[current].first = IF lbb[current].first = 0 THEN lsn ELSE lbb[current].first
  <2> DEFINE S == Stamped(lbb[current], lsn)
             E == Entered(S, full)
  <2>1. /\ S \in BufferType /\ S.last = lsn
        /\ S.first = IF lbb[current].first = 0 THEN lsn ELSE lbb[current].first
    BY <1>5, StampedGives
  <2>2. lbb'[current] = [E EXCEPT !.forced = lsn]
    BY <1>5, <1>6
  <2> HIDE DEF S
  <2>3. E \in BufferType /\ E.first = S.first /\ E.last = S.last
    BY <2>1, EnteredPage
  <2> HIDE DEF E
  <2> QED
    BY <2>1, <2>2, <2>3 DEF BufferType
<1>9. PagesTell' /\ RecordsAge /\ PagesAge /\ LogGrows
  <2>1. PICK q : q = lbb[current].page
    OBVIOUS
  <2>2. q # 0
    <3>1. q \in 1..(eof + 1) /\ eof \in Nat
      BY <1>2, <1>5, <2>1 DEF DiskSound, PagesKept, LogSound, Shape
    <3> QED
      BY <3>1
  <2>3. /\ q \in {0, lbb[current].page}
        /\ rec' = Append(rec, <<lbb[current].page, q>>)
    BY <1>7, <2>1
  <2>4. lbb'[current].forced = IF q = 0 THEN lbb[current].last ELSE lastLsn + 1
    BY <1>4, <1>8, <2>2
  <2> QED
    BY <1>1, <1>2, <1>4, <1>7, <1>8, <2>2, <2>3, <2>4, RecordPlaced
<1>10. /\ sess'[s].pc = "copy" /\ sess'[s].buf = current /\ sess'[s].first <= lsn
       /\ sess'[s].last = lsn /\ sess'[s].kind = sess[s].kind
       /\ sess'[s].target = IF sess[s].kind = "plain" THEN 0 ELSE lsn
       /\ ~sess'[s].cs /\ ~sess'[s].wait
       /\ \A t \in Sessions \ {s} : sess'[t] = sess[t]
  <2> DEFINE g == Logged(sess[s], lsn)
  <2>1. /\ g \in CallType /\ g.first <= lsn /\ g.last = lsn /\ g.kind = sess[s].kind
        /\ g.target = IF sess[s].kind = "plain" THEN 0 ELSE lsn
        /\ ~g.cs /\ g.wait = sess[s].wait
    <3>1. sess[s].last <= lsn
      BY <1>3, <1>4, <1>5
    <3> QED
      BY <1>3, <3>1, LoggedGives
  <2>2. sess' = [sess EXCEPT ![s] = [g EXCEPT !.pc = "copy", !.buf = current]]
    BY <1>7
  <2> HIDE DEF g
  <2> QED
    BY <1>3, <2>1, <2>2 DEF CallType
<1>11. CallSound(s)'
  <2>1. sess'[s].target <= lsn
    BY <1>10
  <2>2. sess'[s].target <= lbb'[sess'[s].buf].forced
    BY <1>8, <1>10, <2>1
  <2> QED
    BY <1>3, <1>7, <1>10, <2>1, <2>2 DEF CallSound, Busy
<1>12. Logs(s)
  BY <1>4, <1>7, <1>10 DEF Logs, Busy
<1> QED
  BY <1>1, <1>7, <1>9, <1>10, <1>11, <1>12, OthersAge

LEMMA LogSpanKeeps ==
  ASSUME LogSound, LogSound', DiskSound, PromiseSound, NEW s \in Sessions, LogSpan(s)
  PROVE  /\ PromiseSound'
         /\ \/ LogGrows /\ Logs(s)
            \/ /\ lastLsn' = lastLsn /\ rec' = rec /\ disk' = disk
               /\ sess'[s].pc = "sleep" /\ \A t \in Sessions \ {s} : sess'[t] = sess[t]
<1>1. CallSound(s) /\ (\A t \in Sessions : CallSound(t)) /\ PagesTell
  BY DEF PromiseSound
<1>2. /\ CurrentStep(s) /\ lbb[current].current /\ ~OnQueue(current)
      /\ \A u \in Sessions : sess[u].pc # "span"
  BY LogSpanSound
<1>3. /\ sess[s] \in CallType /\ sess \in [Sessions -> CallType] /\ lastLsn \in Nat
      /\ ~sess[s].wait /\ sess[s].lwq = None /\ sess[s].kind # "force"
      /\ sess[s].first <= sess[s].last /\ sess[s].last <= lastLsn /\ Logging(s)
  BY <1>1, LoggingCall DEF LogSpan
<1>4. PICK lsn \in Nat : lsn = lastLsn + 1
  BY <1>3
<1>5. /\ lbb \in [Buffers -> BufferType] /\ current \in Buffers /\ lbb[current] \in BufferType
      /\ sess[s].last \in Nat /\ wq \in Seq(Buffers)
  BY <1>3 DEF LogSound, Shape, CallType
<1>6. io' = io /\ disk' = disk /\ current' = current
  BY DEF LogSpan
<1>7. CASE /\ sess' = [sess EXCEPT ![s] = Asleep(@)]
           /\ lbb' = [lbb EXCEPT ![current].owner = None]
           /\ UNCHANGED <<wq, fqCount, log>>
  <2>1. \A x \in Buffers : /\ lbb'[x].page = lbb[x].page /\ lbb'[x].first = lbb[x].first
                           /\ lbb'[x].last = lbb[x].last /\ lbb'[x].forced = lbb[x].forced
                           /\ lbb'[x].current = lbb[x].current
    BY <1>5, <1>7 DEF BufferType
  <2>2. SamePages
    BY <1>6, <1>7, <2>1, StandSame
  <2>3. sess' = [sess EXCEPT ![s] = Asleep(sess[s])] /\ lastLsn' = lastLsn
    BY <1>3, <1>7 DEF log
  <2>4. CallSound(s)'
    BY <1>1, <1>3, <2>3, AsleepSound
  <2>5. \A t \in Sessions \ {s} : sess'[t] = sess[t]
    BY <1>3, <2>3
  <2>6. sess'[s].pc = "sleep"
    <3>1. sess'[s] = Asleep(sess[s])
      BY <1>3, <2>3
    <3> QED
      BY <1>3, <3>1 DEF Asleep, CallType
  <2> QED
    BY <1>1, <1>6, <1>7, <2>2, <2>3, <2>4, <2>5, <2>6, SameKeepsPages, OthersAge DEF log
<1>8. ASSUME NEW n \in 1..setup.span,
             lastLsn' = lsn, eof' = lbb[current].page,
             rec' = Append(rec, <<eof', 0>>),
             lbb' = [lbb EXCEPT ![current] =
                       [Stamped(@, lsn) EXCEPT !.forced = lbb[current].last, !.owner = s]],
             wq' = Enqueue(current),
             sess' = [sess EXCEPT ![s] = [Logged(@, lsn) EXCEPT
                        !.pc = "span", !.n = n, !.head = current]]
      PROVE  PromiseSound' /\ LogGrows /\ Logs(s)
  <2>1. /\ lbb'[current].last = lsn /\ lbb'[current].forced = lbb[current].last
        /\ lbb'[current].first = IF lbb[current].first = 0 THEN lsn ELSE lbb[current].first
    <3> DEFINE S == Stamped(lbb[current], lsn)
    <3>1. /\ S \in BufferType /\ S.last = lsn
          /\ S.first = IF lbb[current].first = 0 THEN lsn ELSE lbb[current].first
      BY <1>5, StampedGives
    <3>2. lbb'[current] = [S EXCEPT !.forced = lbb[current].last, !.owner = s]
      BY <1>5, <1>8
    <3> HIDE DEF S
    <3> QED
      BY <3>1, <3>2 DEF BufferType
  <2>2. current \in Members(wq')
    BY <1>5, <1>8, EnqueueQueue
  <2>3. PagesTell' /\ RecordsAge /\ PagesAge /\ LogGrows
    <3>1. PICK q : q = 0
      OBVIOUS
    <3>2. /\ q \in {0, lbb[current].page}
          /\ rec' = Append(rec, <<lbb[current].page, q>>)
      BY <1>8, <3>1
    <3>3. lbb'[current].forced = IF q = 0 THEN lbb[current].last ELSE lastLsn + 1
      BY <2>1, <3>1
    <3> QED
      BY <1>1, <1>2, <1>4, <1>6, <1>8, <2>1, <2>2, <3>2, <3>3, RecordPlaced
  <2>4. /\ sess'[s].pc = "span" /\ sess'[s].first <= lsn
        /\ sess'[s].last = lsn /\ sess'[s].kind = sess[s].kind
        /\ sess'[s].target = IF sess[s].kind = "plain" THEN 0 ELSE lsn
        /\ ~sess'[s].cs /\ ~sess'[s].wait
        /\ \A t \in Sessions \ {s} : sess'[t] = sess[t]
    <3> DEFINE g == Logged(sess[s], lsn)
    <3>1. /\ g \in CallType /\ g.first <= lsn /\ g.last = lsn /\ g.kind = sess[s].kind
          /\ g.target = IF sess[s].kind = "plain" THEN 0 ELSE lsn
          /\ ~g.cs /\ g.wait = sess[s].wait
      <4>1. sess[s].last <= lsn
        BY <1>3, <1>4, <1>5
      <4> QED
        BY <1>3, <4>1, LoggedGives
    <3>2. sess' = [sess EXCEPT ![s] = [g EXCEPT !.pc = "span", !.n = n, !.head = current]]
      BY <1>3, <1>8
    <3> HIDE DEF g
    <3> QED
      BY <1>3, <3>1, <3>2 DEF CallType
  <2>5. CallSound(s)'
    BY <1>3, <1>8, <2>4 DEF CallSound, Busy
  <2>6. Logs(s)
    BY <1>4, <1>8, <2>4 DEF Logs, Busy
  <2> QED
    BY <1>1, <1>6, <2>3, <2>4, <2>5, <2>6, OthersAge
<1> QED
  BY <1>4, <1>7, <1>8 DEF LogSpan


(* The record that is spanned takes page b at the end of the log.          *)
LEMMA SpanPlaced ==
  ASSUME LogSound, DiskSound, PagesTell, NEW s \in Sessions, sess[s].pc = "span",
         NEW b \in fq, SpanStep(s, b), lbb'[b].first = sess[s].last,
         lbb'[b].last = sess[s].last, disk' = disk
  PROVE  PagesTell' /\ RecordsAge /\ PagesAge /\ LogGrows /\ sess[s].last = lastLsn
<1>1. PICK e \in Nat, n \in Nat : e = eof /\ n = lastLsn
  BY DEF LogSound, Shape
<1>2. n # 0 /\ rec[n][2] = 0 /\ sess[s].last = n
  <2>1. sess[s].last \in 1..n /\ rec[sess[s].last][2] = 0
    BY <1>1 DEF DiskSound, Recorded
  <2>2. sess[s].last = n
    BY <1>1, <2>1 DEF PagesTell, OnlyLastSpans
  <2> QED
    BY <1>1, <2>1, <2>2
<1>3. /\ b \in Buffers /\ ~OnQueue(b) /\ ~lbb[b].current
      /\ OnQueue(current) /\ lbb[current].current /\ current # b
  BY FreeUnused DEF LogSound, SpansAlone
<1>4. /\ \A x \in Buffers \ {b} : lbb'[x] = lbb[x]
      /\ lbb'[b].page = e + 1 /\ lastLsn' = n /\ eof' = e + 1
      /\ lbb'[b].first = n /\ lbb'[b].last = n
  BY <1>1, <1>2 DEF SpanStep
<1>5. \/ /\ Members(wq') = Members(wq) \cup {b} /\ current' = current
         /\ lbb'[b].forced = 0 /\ rec' = rec
      \/ /\ wq' = wq /\ lbb'[b].current /\ current' = b
         /\ lbb'[b].forced = n /\ rec' = [rec EXCEPT ![n][2] = e + 1]
  BY <1>1, <1>2, <1>3, EnqueueQueue DEF SpanStep, LogSound, Shape
<1>6. /\ \A x \in Buffers \ {b} : Placed(x)' <=> Placed(x)
      /\ ~Placed(b) /\ Placed(b)'
  BY <1>3, <1>5 DEF Placed, OnQueue
<1>7. \A x \in Buffers : OnQueue(x) => OnQueue(x)'
  BY <1>5 DEF OnQueue
<1>8. \A x \in Buffers : Placed(x) => lbb[x].page \in 0..e
  <2>1. \A x \in Buffers : Placed(x) => OnQueue(x)
    BY <1>3 DEF Placed
  <2> QED
    BY <1>1, <2>1 DEF LogSound, Shape, BufferType, WithinLog, OnQueue
<1>9. \A x \in Buffers : /\ lbb[x].first \in 0..n /\ lbb[x].forced \in Nat
                         /\ lbb[x].page \in Nat
  BY <1>1 DEF LogSound, Shape, BufferType, LsnsGiven
<1>10. /\ rec \in Seq(Nat \X Nat) /\ n \in 1..Len(rec)
       /\ \A l \in 1..n : /\ rec[l] \in Nat \X Nat /\ rec[l][1] \in Nat
                          /\ rec[l][2] \in Nat /\ rec[l][2] <= e
       /\ rec[n][1] <= e
  <2>1. rec \in Seq(Nat \X Nat) /\ n \in 1..Len(rec)
    BY <1>1, <1>2 DEF DiskSound, Recorded
  <2>2. \A l \in 1..n : rec[l] \in Nat \X Nat
    BY <1>1, <2>1 DEF DiskSound, Recorded
  <2>3. \A l \in 1..n : rec[l][1] \in Nat /\ rec[l][2] \in Nat
    BY <2>2
  <2>4. \A l \in 1..n : rec[l][1] \in 1..e /\ rec[l][2] \in 0..e
    BY <1>1 DEF DiskSound, Recorded
  <2>5. \A l \in 1..n : rec[l][1] <= e /\ rec[l][2] <= e
    BY <1>1, <2>4
  <2>6. n \in 1..n
    BY <1>2
  <2>7. rec[n][1] <= e
    BY <2>5, <2>6
  <2> QED
    BY <2>1, <2>2, <2>3, <2>5, <2>7
<1>11. /\ \A l \in 1..n : l # n => rec'[l] = rec[l] /\ rec[l][2] # 0
       /\ rec'[n][1] = rec[n][1]
       /\ rec'[n][2] = 0 \/ rec'[n][2] = e + 1
       /\ rec'[n][2] # 0 => lbb'[b].forced = n /\ rec'[n][2] = e + 1
  <2>1. \A l \in 1..n : l # n => rec[l][2] # 0
    BY <1>1 DEF PagesTell, OnlyLastSpans
  <2>2. CASE rec' = rec
    BY <1>2, <2>1, <2>2
  <2>3. CASE lbb'[b].forced = n /\ rec' = [rec EXCEPT ![n][2] = e + 1]
    <3>1. PICK v : v = [rec[n] EXCEPT ![2] = e + 1]
      OBVIOUS
    <3>2. rec' = [rec EXCEPT ![n] = v] /\ n \in DOMAIN rec
      BY <1>10, <2>3, <3>1
    <3>3. \A l \in 1..n : l # n => rec'[l] = rec[l]
      BY <1>10, <3>2
    <3>4. rec'[n] = [rec[n] EXCEPT ![2] = e + 1]
      BY <3>1, <3>2
    <3>5. PICK r \in Nat \X Nat : r = rec[n]
      BY <1>10
    <3>6. e + 1 \in Nat
      BY <1>1
    <3>7. rec'[n][1] = rec[n][1] /\ rec'[n][2] = e + 1
      BY <3>4, <3>5, <3>6, PairExcept
    <3> QED
      BY <2>1, <2>3, <3>3, <3>7
  <2> QED
    BY <1>5, <2>2, <2>3
<1>12. \A l \in 1..n : \A k \in Nat : l # n => (Spread(l, k)' <=> Spread(l, k))
  BY <1>11 DEF Spread
<1>13. \A k \in Nat : Spread(n, k)' <=> (rec[n][1] <= k /\ k <= e + 1)
  <2>1. PICK a, z, w : a = rec'[n][1] /\ z = rec'[n][2] /\ w = eof'
    OBVIOUS
  <2>2. ASSUME NEW k \in Nat PROVE Spread(n, k)' <=> (rec[n][1] <= k /\ k <= e + 1)
    <3>1. Spread(n, k)' <=> (a <= k /\ k <= IF z = 0 THEN w ELSE z)
      BY <2>1, Zenon DEF Spread
    <3>2. a = rec[n][1] /\ w = e + 1 /\ (z = 0 \/ z = e + 1)
      BY <1>4, <1>11, <2>1
    <3> QED
      BY <1>1, <3>1, <3>2
  <2> QED
    BY <2>2
<1>14. \A k \in Nat : Spread(n, k) <=> (rec[n][1] <= k /\ k <= e)
  BY <1>1, <1>2 DEF Spread
<1>15. OnlyLastSpans'
  BY <1>4, <1>11 DEF OnlyLastSpans
<1>16. PagesFilled'
  <2>1. \A x \in Buffers : Placed(x)' => lbb'[x].page # 0
    BY <1>1, <1>4, <1>6 DEF PagesTell, PagesFilled
  <2>2. ASSUME NEW k \in 1..(e + 1) PROVE \E l \in 1..n : Spread(l, k)'
    <3>1. CASE k <= e
      <4>1. PICK l \in 1..n : Spread(l, k)
        BY <1>1, <2>2, <3>1 DEF PagesTell, PagesFilled
      <4>2. CASE l = n
        BY <1>1, <1>13, <1>14, <4>1, <4>2
      <4>3. CASE l # n
        BY <1>1, <1>12, <4>1, <4>3
      <4> QED
        BY <4>2, <4>3
    <3>2. CASE ~(k <= e)
      BY <1>1, <1>2, <1>10, <1>13, <3>2
    <3> QED
      BY <3>1, <3>2
  <2> QED
    BY <1>4, <2>1, <2>2 DEF PagesFilled
<1>17. FirstsRise'
  <2>1. ASSUME NEW x \in Buffers, NEW l \in 1..n, Placed(x)', NEW k \in Nat,
               k = lbb'[x].page, Spread(l, k)'
        PROVE  lbb'[x].first # 0 /\ lbb'[x].first <= l
    <3>1. CASE x = b
      <4>1. l = n
        <5>1. SUFFICES ASSUME l # n PROVE FALSE
          OBVIOUS
        <5>2. Spread(l, k) /\ k = e + 1 /\ rec[l][2] # 0
          BY <1>4, <1>11, <1>12, <2>1, <3>1, <5>1
        <5> QED
          BY <1>1, <1>10, <5>2 DEF Spread
      <4> QED
        BY <1>1, <1>2, <1>4, <3>1, <4>1
    <3>2. CASE x # b
      <4>1. Placed(x) /\ lbb'[x] = lbb[x] /\ k \in 0..e
        BY <1>4, <1>6, <1>8, <2>1, <3>2
      <4>2. Spread(l, k)
        BY <1>1, <1>12, <1>13, <1>14, <2>1, <4>1
      <4> QED
        BY <1>1, <2>1, <4>1, <4>2 DEF PagesTell, FirstsRise
    <3> QED
      BY <3>1, <3>2
  <2>2. ASSUME NEW x \in Buffers, NEW l \in 1..n, Placed(x)', Spread(l, lbb[x].page)'
        PROVE  lbb'[x].first # 0 /\ lbb'[x].first <= l
    <3>1. PICK k \in Nat : k = lbb'[x].page
      BY <1>1, <1>4, <1>9
    <3>2. Spread(l, k)'
      BY <2>2, <3>1 DEF Spread
    <3> QED
      BY <2>1, <2>2, <3>1, <3>2
  <2>3. ASSUME NEW x \in Buffers, NEW y \in Buffers,
               Placed(x)', Placed(y)', lbb'[x].page < lbb'[y].page,
               lbb'[x].first # 0, lbb'[y].first # 0
        PROVE  lbb'[x].first <= lbb'[y].first
    <3>1. x # b
      <4>1. SUFFICES ASSUME x = b PROVE FALSE
        OBVIOUS
      <4>2. y # b
        BY <1>1, <1>4, <2>3, <4>1
      <4>3. lbb'[y].page \in 0..e
        BY <1>4, <1>6, <1>8, <2>3, <4>2
      <4> QED
        BY <1>1, <1>4, <2>3, <4>1, <4>3
    <3>2. lbb'[x] = lbb[x] /\ Placed(x)
      BY <1>4, <1>6, <2>3, <3>1
    <3>3. CASE y = b
      BY <1>1, <1>4, <1>9, <3>2, <3>3
    <3>4. CASE y # b
      <4>1. lbb'[y] = lbb[y] /\ Placed(y)
        BY <1>4, <1>6, <2>3, <3>4
      <4> QED
        BY <2>3, <3>2, <4>1 DEF PagesTell, FirstsRise
    <3> QED
      BY <3>3, <3>4
  <2> QED
    BY <1>4, <2>2, <2>3 DEF FirstsRise
<1>18. LastVouches'
  <2>1. \A x \in Buffers \ {b} : \A l : Starts(x, l)' <=> Starts(x, l)
    BY <1>4, <1>6 DEF Starts
  <2>2. \A l \in 1..n : Starts(b, l)' <=> l = n
    BY <1>1, <1>2, <1>4, <1>6 DEF Starts
  <2>3. ASSUME NEW l \in 1..n, rec'[l][2] # 0, NEW x \in Buffers, Starts(x, l)'
        PROVE  \/ l <= lbb'[x].forced
               \/ \E y \in Buffers : Starts(y, l)' /\ lbb'[x].page < lbb'[y].page
    <3>1. CASE l = n
      <4>1. CASE x = b
        BY <1>1, <1>11, <2>3, <3>1, <4>1
      <4>2. CASE x # b
        <5>1. lbb'[x].page \in 0..e
          BY <1>4, <1>6, <1>8, <2>3, <4>2 DEF Starts
        <5>2. lbb'[x].page < lbb'[b].page
          BY <1>1, <1>4, <5>1
        <5> QED
          BY <1>3, <2>2, <3>1, <5>2
      <4> QED
        BY <4>1, <4>2
    <3>2. CASE l # n
      <4>1. x # b /\ Starts(x, l) /\ rec[l][2] # 0
        BY <1>11, <2>1, <2>2, <2>3, <3>2
      <4>2. \/ l <= lbb[x].forced
            \/ \E y \in Buffers : Starts(y, l) /\ lbb[x].page < lbb[y].page
        BY <1>1, <4>1 DEF PagesTell, LastVouches
      <4>3. ASSUME NEW y \in Buffers, Starts(y, l), lbb[x].page < lbb[y].page
            PROVE  Starts(y, l)' /\ lbb'[x].page < lbb'[y].page
        <5>1. y # b
          BY <1>6, <4>3 DEF Starts
        <5> QED
          BY <1>4, <2>1, <4>1, <4>3, <5>1
      <4> QED
        BY <1>4, <4>1, <4>2, <4>3
    <3> QED
      BY <3>1, <3>2
  <2> QED
    BY <1>4, <2>3 DEF LastVouches
<1>19. OpenEndsLog'
  <2>1. ASSUME NEW x \in Buffers, Open(x)' PROVE x = b /\ lbb'[b].forced = n
    BY <1>3, <1>5, <2>1 DEF Open, OnQueue
  <2>2. e + 1 \notin disk
    BY <1>1 DEF PagesTell, WrittenInLog
  <2> QED
    BY <1>2, <1>4, <2>1, <2>2 DEF OpenEndsLog
<1>20. WrittenInLog'
  <2>1. disk \subseteq 0..e
    BY <1>1 DEF PagesTell, WrittenInLog
  <2>2. 0..e \subseteq 0..(e + 1)
    BY <1>1
  <2> QED
    BY <1>4, <2>1, <2>2 DEF WrittenInLog
<1>21. RecordsAge
  <2>1. lastLsn <= lastLsn' /\ disk \subseteq disk'
    BY <1>1, <1>4
  <2>2. \A l \in 1..lastLsn : rec[l][2] # 0 => rec'[l] = rec[l]
    BY <1>1, <1>2, <1>11
  <2> QED
    BY <2>1, <2>2 DEF RecordsAge
<1>22. PagesAge
  <2>1. \A l \in 1..lastLsn : rec[l][2] # 0 => l < lbb'[b].first
    <3>1. ASSUME NEW l \in 1..n, rec[l][2] # 0 PROVE l < n
      BY <1>1, <1>2, <3>1
    <3> QED
      BY <1>1, <1>4, <3>1
  <2>2. \A x \in Buffers \ {b} : lbb[x].forced <= lbb'[x].forced /\ lbb'[x].first = lbb[x].first
    BY <1>4, <1>9
  <2> QED
    BY <1>6, <1>7, <2>1, <2>2 DEF PagesAge
<1>23. LogGrows
  <2>1. \A l \in 1..n : l # n => (OnDisk(l)' <=> OnDisk(l))
    BY <1>11 DEF OnDisk
  <2>2. ~OnDisk(n)
    BY <1>2 DEF OnDisk
  <2>3. ~OnDisk(n)'
    <3>1. PICK a, z : a = rec'[n][1] /\ z = rec'[n][2]
      OBVIOUS
    <3>2. (z = 0 \/ z = e + 1) /\ a = rec[n][1] /\ a \in Nat /\ a <= e
      BY <1>1, <1>2, <1>10, <1>11, <3>1
    <3>3. e + 1 \notin disk
      BY <1>1 DEF PagesTell, WrittenInLog
    <3>4. z = e + 1 => e + 1 \in a..z
      BY <1>1, <3>2
    <3>5. OnDisk(n)' <=> z # 0 /\ a..z \subseteq disk
      BY <3>1 DEF OnDisk
    <3> QED
      BY <3>2, <3>3, <3>4, <3>5
  <2> QED
    BY <1>1, <1>4, <2>1, <2>2, <2>3 DEF LogGrows
<1> QED
  BY <1>1, <1>2, <1>15, <1>16, <1>17, <1>18, <1>19, <1>20, <1>21, <1>22, <1>23 DEF PagesTell

LEMMA SpanNextKeeps ==
  ASSUME LogSound, LogSound', DiskSound, PromiseSound, NEW s \in Sessions, SpanNext(s)
  PROVE  /\ PromiseSound' /\ LogGrows /\ lastLsn' = lastLsn
         /\ sess'[s].pc \in Busy /\ sess'[s].target = sess[s].target
         /\ \A t \in Sessions \ {s} : sess'[t] = sess[t]
<1>1. CallSound(s) /\ (\A t \in Sessions : CallSound(t)) /\ PagesTell
  BY DEF PromiseSound
<1>2. sess[s].pc = "span" /\ \E b \in fq : SpanStep(s, b)
  BY SpanNextSound
<1>3. /\ sess \in [Sessions -> CallType] /\ sess[s] \in CallType
      /\ lbb \in [Buffers -> BufferType] /\ eof \in Nat /\ lastLsn \in Nat
      /\ sess[s].last \in Nat /\ eof + 1 \in Nat /\ s \in Threads \ LogWriters
  BY ThreadsAssumption DEF LogSound, Shape, CallType, Threads
<1>4. /\ sess[s].first <= sess[s].last /\ sess[s].target <= lastLsn
      /\ ~sess[s].wait /\ ~sess[s].cs /\ sess[s].kind # "force"
      /\ sess[s].target = IF sess[s].kind = "plain" THEN 0 ELSE sess[s].last
  BY <1>1, <1>2 DEF CallSound, Busy
<1> DEFINE new == [Stamped(Fresh(eof + 1), sess[s].last) EXCEPT !.owner = s]
<1>5. /\ new \in BufferType /\ new.first = sess[s].last /\ new.last = sess[s].last
  <2> DEFINE F == Fresh(eof + 1)
             S == Stamped(F, sess[s].last)
  <2>1. F \in BufferType /\ F.first = 0
    BY <1>3, FreshPage
  <2> HIDE DEF F
  <2>2. S \in BufferType /\ S.last = sess[s].last /\ S.first = sess[s].last
    BY <1>3, <2>1, StampedGives
  <2> HIDE DEF S
  <2>3. LET x == [S EXCEPT !.owner = s]
        IN  x \in BufferType /\ x.first = S.first /\ x.last = S.last
    BY <2>2 DEF BufferType
  <2> QED
    BY <2>2, <2>3 DEF S, F
<1>6. PICK b \in fq :
        /\ fq' = fq \ {b} /\ eof' = eof + 1
        /\ \/ /\ sess[s].n > 1
              /\ QueueWrite(s, b, [lbb EXCEPT ![b] = new], FALSE)
              /\ sess' = [sess EXCEPT ![s].n = @ - 1]
              /\ UNCHANGED <<current, rec>>
           \/ /\ sess[s].n = 1
              /\ lbb' = [lbb EXCEPT ![b] =
                           [new EXCEPT !.forced = sess[s].last, !.current = TRUE]]
              /\ current' = b /\ rec' = [rec EXCEPT ![sess[s].last][2] = eof']
              /\ sess' = [sess EXCEPT ![s].n = 0, ![s].buf = b, ![s].pc = "release"]
              /\ UNCHANGED <<wq, lw, io>>
  BY DEF SpanNext
<1> HIDE DEF new
<1>7. disk' = disk /\ lastLsn' = lastLsn /\ b \in Buffers
  BY DEF SpanNext, LogSound, Shape
<1>8. fq' = fq \ {b} /\ SpanStep(s, b)
  <2>1. PICK x \in fq : SpanStep(s, x)
    BY <1>2
  <2>2. fq' = fq \ {x}
    BY <2>1 DEF SpanStep
  <2>3. x = b
    BY <1>6, <2>1, <2>2
  <2> QED
    BY <1>6, <2>1, <2>3
<1>9. lbb'[b].first = sess[s].last /\ lbb'[b].last = sess[s].last
  <2>1. CASE QueueWrite(s, b, [lbb EXCEPT ![b] = new], FALSE)
    <3> DEFINE L == [lbb EXCEPT ![b] = new]
    <3>1. L \in [Buffers -> BufferType] /\ L[b] = new
      BY <1>3, <1>5, <1>7
    <3>2. QueueWrite(s, b, L, FALSE)
      BY <2>1
    <3>3. io[s] = NoIo
      BY DEF SpanNext, At
    <3> HIDE DEF L
    <3>4. Queued(b, L)
      BY <1>3, <1>7, <3>1, <3>2, <3>3, QueueWriteEffect DEF LogSound
    <3> QED
      BY <1>5, <3>1, <3>4 DEF Queued, SamePage
  <2>2. CASE lbb' = [lbb EXCEPT ![b] =
                           [new EXCEPT !.forced = sess[s].last, !.current = TRUE]]
    <3>1. lbb'[b] = [new EXCEPT !.forced = sess[s].last, !.current = TRUE]
      BY <1>3, <1>7, <2>2
    <3> QED
      BY <1>5, <3>1 DEF BufferType
  <2> QED
    BY <1>6, <2>1, <2>2
<1>10. PagesTell' /\ RecordsAge /\ PagesAge /\ LogGrows /\ sess[s].last = lastLsn
  BY <1>1, <1>2, <1>7, <1>8, <1>9, SpanPlaced
<1>11. CASE /\ QueueWrite(s, b, [lbb EXCEPT ![b] = new], FALSE)
            /\ sess' = [sess EXCEPT ![s].n = @ - 1]
  <2>1. \A u \in Sessions \ {s} : io'[u] = io[u]
    BY <1>3, <1>11, QueueWriteIo DEF LogSound
  <2>2. /\ sess'[s].pc = "span" /\ sess'[s].kind = sess[s].kind
        /\ sess'[s].first = sess[s].first /\ sess'[s].last = sess[s].last
        /\ sess'[s].target = sess[s].target /\ sess'[s].wait = sess[s].wait
        /\ sess'[s].cs = sess[s].cs
        /\ \A t \in Sessions \ {s} : sess'[t] = sess[t]
    <3>1. sess' = [sess EXCEPT ![s] = [sess[s] EXCEPT !.n = sess[s].n - 1]]
      BY <1>3, <1>11
    <3> QED
      BY <1>2, <1>3, <3>1 DEF CallType
  <2>3. CallSound(s)'
    BY <1>4, <1>7, <2>2 DEF CallSound, Busy
  <2> QED
    BY <1>1, <1>7, <1>10, <2>1, <2>2, <2>3, OthersAge DEF Busy
<1>12. CASE /\ lbb' = [lbb EXCEPT ![b] =
                         [new EXCEPT !.forced = sess[s].last, !.current = TRUE]]
            /\ sess' = [sess EXCEPT ![s].n = 0, ![s].buf = b, ![s].pc = "release"]
            /\ UNCHANGED <<wq, lw, io>>
  <2>1. lbb'[b].forced = sess[s].last
    <3>1. lbb'[b] = [new EXCEPT !.forced = sess[s].last, !.current = TRUE]
      BY <1>3, <1>7, <1>12
    <3> QED
      BY <1>5, <3>1 DEF BufferType
  <2>2. /\ sess'[s].pc = "release" /\ sess'[s].kind = sess[s].kind /\ sess'[s].buf = b
        /\ sess'[s].first = sess[s].first /\ sess'[s].last = sess[s].last
        /\ sess'[s].target = sess[s].target /\ sess'[s].wait = sess[s].wait
        /\ sess'[s].cs = sess[s].cs
        /\ \A t \in Sessions \ {s} : sess'[t] = sess[t]
    <3>1. sess' = [sess EXCEPT ![s] = [sess[s] EXCEPT !.n = 0, !.buf = b, !.pc = "release"]]
      BY <1>3, <1>12
    <3> QED
      BY <1>3, <3>1 DEF CallType
  <2>3. sess'[s].target <= lbb'[sess'[s].buf].forced
    BY <1>3, <1>4, <2>1, <2>2
  <2>4. CallSound(s)'
    BY <1>4, <1>7, <2>2, <2>3 DEF CallSound, Busy
  <2> QED
    BY <1>1, <1>7, <1>10, <1>12, <2>2, <2>4, OthersAge DEF Busy
<1> QED
  BY <1>6, <1>11, <1>12


-------------------------------------------------------------------------------
(* A written buffer leaves the queue.                                      *)

LEMMA CompleteGives ==
  ASSUME LogSound, NEW t \in Threads, Complete(t), NEW b, b = Head(io[t].todo),
         NEW g, g = Before(b)
  PROVE  /\ b \in Buffers /\ OnQueue(b) /\ ~lbb[b].current /\ b \in Members(io[t].todo)
         /\ ~lbb'[b].current /\ Members(wq') = Members(wq) \ {b}
         /\ g # None => g \in Buffers /\ OnQueue(g) /\ g # b
         /\ rec' = rec /\ lastLsn' = lastLsn /\ eof' = eof /\ disk' = disk
         /\ current' = current
         /\ forcedLsn' = IF g = None /\ lbb[b].forced # 0 THEN lbb[b].forced ELSE forcedLsn
         /\ \A x \in Buffers \ {b} :
               /\ lbb'[x].page = lbb[x].page /\ lbb'[x].current = lbb[x].current
               /\ lbb'[x].first = lbb[x].first /\ lbb'[x].last = lbb[x].last
               /\ lbb'[x].forced = IF x = g THEN Higher(lbb[b].forced, lbb[x].forced)
                                            ELSE lbb[x].forced
         /\ \A x \in Buffers : Placed(x)' <=> (Placed(x) /\ x # b)
<1>1. Completed(t, b)
  BY CompleteSound
<1>2. /\ b \in Buffers /\ OnQueue(b) /\ ~lbb[b].current /\ b \in Members(io[t].todo)
      /\ Members(wq') = Members(wq) \ {b} /\ current' = current /\ ~lbb'[b].current
      /\ \A x \in Buffers \ {b} :
            /\ lbb'[x].page = lbb[x].page /\ lbb'[x].current = lbb[x].current
            /\ lbb'[x].forced = IF x = g THEN Higher(lbb[b].forced, lbb[x].forced)
                                         ELSE lbb[x].forced
  BY <1>1 DEF Completed
<1>3. g # None => g \in Buffers /\ OnQueue(g) /\ g # b
  BY <1>2, BeforeQueued DEF LogSound
<1>4. /\ rec' = rec /\ lastLsn' = lastLsn /\ eof' = eof /\ disk' = disk
      /\ forcedLsn' = IF g = None /\ lbb[b].forced # 0 THEN lbb[b].forced ELSE forcedLsn
  BY DEF Complete, log, NowForced
<1> DEFINE B == Head(io[t].todo)
           G == Before(B)
           T == IF G = None THEN lbb[B].forced ELSE Higher(lbb[B].forced, lbb[G].forced)
<1>5. lbb' = [x \in Buffers |-> CASE x = B -> Fresh(0)
                                  [] x = G -> [lbb[G] EXCEPT !.forced = T]
                                  [] OTHER -> lbb[x]]
  BY DEF Complete
<1> HIDE DEF T, G, B
<1>6. ASSUME NEW x \in Buffers \ {b}
      PROVE  lbb'[x].first = lbb[x].first /\ lbb'[x].last = lbb[x].last
  <2>1. lbb'[x] = lbb[x] \/ lbb'[x] = [lbb[x] EXCEPT !.forced = T]
    BY <1>5 DEF B, G
  <2>2. lbb[x] \in BufferType
    BY DEF LogSound, Shape
  <2> QED
    BY <2>1, <2>2 DEF BufferType
<1>7. ASSUME NEW x \in Buffers PROVE Placed(x)' <=> (Placed(x) /\ x # b)
  <2>1. /\ Placed(x)' <=> (x \in Members(wq') \/ (x = current' /\ lbb'[current'].current))
        /\ Placed(x) <=> (x \in Members(wq) \/ (x = current /\ lbb[current].current))
    BY DEF Placed, OnQueue
  <2>2. CASE x = b
    BY <1>2, <2>1, <2>2
  <2>3. CASE x # b
    BY <1>2, <2>1, <2>3
  <2> QED
    BY <2>2, <2>3
<1> QED
  BY <1>2, <1>3, <1>4, <1>6, <1>7

(* The page before it in the queue vouches for what it vouched for.        *)
LEMMA WrittenLeaves ==
  ASSUME LogSound, DiskSound, PagesTell, NEW t \in Threads, Complete(t)
  PROVE  PagesTell' /\ RecordsAge /\ PagesAge
<1>1. PICK b, g : b = Head(io[t].todo) /\ g = Before(b)
  OBVIOUS
<1>2. /\ b \in Buffers /\ OnQueue(b) /\ ~lbb'[b].current
      /\ Members(wq') = Members(wq) \ {b}
      /\ g # None => g \in Buffers /\ OnQueue(g) /\ g # b
      /\ rec' = rec /\ lastLsn' = lastLsn /\ eof' = eof /\ disk' = disk
      /\ current' = current
      /\ \A x \in Buffers \ {b} :
            /\ lbb'[x].page = lbb[x].page /\ lbb'[x].current = lbb[x].current
            /\ lbb'[x].first = lbb[x].first /\ lbb'[x].last = lbb[x].last
            /\ lbb'[x].forced = IF x = g THEN Higher(lbb[b].forced, lbb[x].forced)
                                         ELSE lbb[x].forced
      /\ \A x \in Buffers : Placed(x)' <=> (Placed(x) /\ x # b)
  BY <1>1, CompleteGives
<1>3. /\ \A x \in Buffers : /\ lbb[x].page \in Nat /\ lbb[x].first \in Nat
                            /\ lbb[x].forced \in Nat
      /\ lastLsn \in Nat /\ wq \in Seq(Buffers)
  BY DEF LogSound, Shape, BufferType
<1>4. \A x \in Buffers \ {b} : lbb[x].forced <= lbb'[x].forced
  BY <1>2, <1>3 DEF Higher
<1>5. OnlyLastSpans' /\ WrittenInLog'
  BY <1>2 DEF PagesTell, OnlyLastSpans, WrittenInLog
<1>6. \A l, p : Spread(l, p)' <=> Spread(l, p)
  BY <1>2, Zenon DEF Spread
<1>7. PagesFilled'
  <2>1. \A x \in Buffers : Placed(x)' => lbb'[x].page # 0
    BY <1>2 DEF PagesTell, PagesFilled
  <2>2. \A p \in 1..eof : \E l \in 1..lastLsn : Spread(l, p)'
    BY <1>6 DEF PagesTell, PagesFilled
  <2> QED
    BY <1>2, <2>1, <2>2 DEF PagesFilled
<1>8. FirstsRise'
  <2>1. ASSUME NEW x \in Buffers, NEW l \in 1..lastLsn, Placed(x)', Spread(l, lbb[x].page)'
        PROVE  lbb'[x].first # 0 /\ lbb'[x].first <= l
    <3>1. Placed(x) /\ lbb'[x].first = lbb[x].first /\ lbb'[x].page = lbb[x].page
      BY <1>2, <2>1
    <3>2. Spread(l, lbb[x].page)
      BY <1>2, <2>1, <3>1 DEF Spread
    <3> QED
      BY <3>1, <3>2 DEF PagesTell, FirstsRise
  <2>2. ASSUME NEW x \in Buffers, NEW y \in Buffers,
               Placed(x)', Placed(y)', lbb'[x].page < lbb'[y].page,
               lbb'[x].first # 0, lbb'[y].first # 0
        PROVE  lbb'[x].first <= lbb'[y].first
    <3>1. /\ Placed(x) /\ lbb'[x].first = lbb[x].first /\ lbb'[x].page = lbb[x].page
          /\ Placed(y) /\ lbb'[y].first = lbb[y].first /\ lbb'[y].page = lbb[y].page
      BY <1>2, <2>2
    <3> QED
      BY <2>2, <3>1 DEF PagesTell, FirstsRise
  <2> QED
    BY <1>2, <2>1, <2>2 DEF FirstsRise
<1>9. ASSUME NEW x \in Buffers, Placed(x), lbb[x].page < lbb[b].page
      PROVE  /\ g \in Buffers /\ OnQueue(g) /\ g # b /\ lbb[g].page < lbb[b].page
             /\ x = g \/ lbb[x].page < lbb[g].page
  <2>1. OnQueue(x)
    BY <1>2, <1>3, <1>9 DEF Placed, LogSound, CurrentLast, OnQueue
  <2>2. /\ Position(x) \in 1..Len(wq) /\ wq[Position(x)] = x
        /\ Position(b) \in 1..Len(wq) /\ wq[Position(b)] = b
    BY <1>2, <1>3, <2>1, PositionOf
  <2>3. Position(x) < Position(b)
    BY <1>3, <1>9, <2>2 DEF LogSound, Ascending
  <2>4. PICK i \in Nat, j \in Nat, k \in Nat : i = Position(x) /\ j = Position(b) - 1 /\ k = j + 1
    BY <2>2, <2>3
  <2>5. /\ i \in 1..Len(wq) /\ j \in 1..Len(wq) /\ k \in 1..Len(wq)
        /\ i <= j /\ j < k /\ wq[i] = x /\ wq[k] = b
    BY <2>2, <2>3, <2>4
  <2>6. g = wq[j]
    BY <1>1, <2>2, <2>4, <2>5 DEF Before
  <2>7. g \in Buffers /\ g # None
    BY <1>3, <2>5, <2>6, ThreadsAssumption
  <2>8. i \in DOMAIN wq /\ j \in DOMAIN wq /\ k \in DOMAIN wq
    BY <1>3, <2>5
  <2>9. /\ j < k => lbb[wq[j]].page < lbb[wq[k]].page
        /\ i < j => lbb[wq[i]].page < lbb[wq[j]].page
    BY <2>8 DEF LogSound, Ascending
  <2>10. lbb[g].page < lbb[b].page /\ (i = j \/ lbb[x].page < lbb[g].page)
    BY <2>4, <2>5, <2>6, <2>9
  <2> QED
    BY <1>2, <2>5, <2>6, <2>7, <2>10
<1>10. LastVouches'
  <2>1. \A x \in Buffers : \A l : Starts(x, l)' <=> (Starts(x, l) /\ x # b)
    BY <1>2 DEF Starts
  <2>2. ASSUME NEW l \in 1..lastLsn, rec[l][2] # 0, NEW x \in Buffers, Starts(x, l)'
        PROVE  \/ l <= lbb'[x].forced
               \/ \E y \in Buffers : Starts(y, l)' /\ lbb'[x].page < lbb'[y].page
    <3>1. Starts(x, l) /\ x # b /\ Placed(x)
      BY <2>1, <2>2 DEF Starts
    <3>2. ASSUME NEW y \in Buffers, Starts(y, l), y # b, lbb[x].page < lbb[y].page
          PROVE  \E z \in Buffers : Starts(z, l)' /\ lbb'[x].page < lbb'[z].page
      BY <1>2, <2>1, <3>1, <3>2
    <3>3. CASE l <= lbb[x].forced
      BY <1>2, <1>3, <1>4, <3>1, <3>3 DEF Higher
    <3>4. CASE Starts(b, l) /\ lbb[x].page < lbb[b].page
      <4>1. /\ g \in Buffers /\ OnQueue(g) /\ g # b /\ lbb[g].page < lbb[b].page
            /\ x = g \/ lbb[x].page < lbb[g].page
        BY <1>9, <3>1, <3>4
      <4>2. CASE x = g
        <5>1. CASE l <= lbb[b].forced
          BY <1>2, <1>3, <3>1, <4>2, <5>1 DEF Higher
        <5>2. CASE \E y \in Buffers : Starts(y, l) /\ lbb[b].page < lbb[y].page
          <6>1. PICK y \in Buffers : Starts(y, l) /\ lbb[b].page < lbb[y].page
            BY <5>2
          <6>2. y # b /\ lbb[x].page < lbb[y].page
            BY <1>2, <1>3, <3>4, <6>1
          <6> QED
            BY <3>2, <6>1, <6>2
        <5> QED
          BY <1>2, <2>2, <3>4, <5>1, <5>2 DEF PagesTell, LastVouches
      <4>3. CASE x # g
        <5>1. lbb[g].first # 0 /\ Placed(g)
          BY <4>1, QueuedHasRecord DEF Placed
        <5>2. lbb[g].first <= lbb[b].first
          BY <1>2, <3>4, <4>1, <5>1 DEF PagesTell, FirstsRise, Starts
        <5>3. Starts(g, l)
          BY <1>2, <1>3, <3>4, <4>1, <5>1, <5>2 DEF Starts
        <5> QED
          BY <3>2, <4>1, <4>3, <5>3
      <4> QED
        BY <4>2, <4>3
    <3>5. \/ l <= lbb[x].forced
          \/ \E y \in Buffers : Starts(y, l) /\ lbb[x].page < lbb[y].page
      BY <2>2, <3>1 DEF PagesTell, LastVouches
    <3> QED
      BY <3>2, <3>3, <3>4, <3>5
  <2> QED
    BY <1>2, <2>2 DEF LastVouches
<1>11. OpenEndsLog'
  <2>1. ASSUME NEW x \in Buffers, Open(x)'
        PROVE  Open(x) /\ x # b /\ x # g
    <3>1. x = current /\ lbb'[x].current /\ x \notin Members(wq')
      BY <1>2, <2>1 DEF Open, OnQueue
    <3>2. x # b
      BY <1>2, <3>1
    <3>3. lbb[x].current /\ ~OnQueue(x)
      BY <1>2, <3>1, <3>2 DEF OnQueue
    <3>4. x # g
      <4>1. x # None
        BY ThreadsAssumption
      <4> QED
        BY <1>2, <3>3, <4>1
    <3> QED
      BY <3>1, <3>2, <3>3, <3>4 DEF Open
  <2> QED
    BY <1>2, <2>1 DEF PagesTell, OpenEndsLog
<1>12. RecordsAge
  BY <1>2, <1>3 DEF RecordsAge
<1>13. PagesAge
  <2>1. \A x \in Buffers : x # b => (OnQueue(x) => OnQueue(x)')
    BY <1>2 DEF OnQueue
  <2> QED
    BY <1>2, <1>4, <2>1 DEF PagesAge
<1> QED
  BY <1>5, <1>7, <1>8, <1>10, <1>11, <1>12, <1>13 DEF PagesTell


(* What a session gets from it: nothing, another page to wait on, or the   *)
(* word that its record is on disk.                                        *)
LEMMA RelievedGives ==
  ASSUME LogSound, NEW t \in Threads, NEW b, NEW g, NEW top,
         sess' = Relieved(t, b, g, top), NEW s \in Sessions
  PROVE  /\ sess'[s].pc = sess[s].pc /\ sess'[s].kind = sess[s].kind
         /\ sess'[s].first = sess[s].first /\ sess'[s].last = sess[s].last
         /\ sess'[s].buf = sess[s].buf /\ sess'[s].target = sess[s].target
         /\ sess'[s].wlsn = sess[s].wlsn
         /\ s \notin WaitersOn(b) =>
               /\ sess'[s].wait = sess[s].wait /\ sess'[s].lwq = sess[s].lwq
               /\ sess'[s].cs = sess[s].cs /\ (sess'[s].synch => sess[s].synch)
         /\ s \in WaitersOn(b) /\ MovesOn(s, g, top) =>
               /\ (sess'[s].wait <=> sess[s].wait) /\ sess'[s].lwq = g
               /\ (sess'[s].cs <=> sess[s].cs)
               /\ (sess'[s].synch <=> sess[s].synch /\ s # t)
         /\ s \in WaitersOn(b) /\ ~MovesOn(s, g, top) =>
               /\ ~sess'[s].wait /\ sess'[s].lwq = None
               /\ (sess'[s].cs <=> sess[s].cs \/ s # t)
               /\ (sess'[s].synch <=> sess[s].synch \/ s = t)
<1>1. sess[s] \in CallType
  BY DEF LogSound, Shape
<1>2. PICK old : old = sess[s]
  OBVIOUS
<1>3. CASE s \notin WaitersOn(b)
  <2>1. PICK v \in BOOLEAN : v = (old.synch /\ ~(s = t /\ WaitersOn(b) # {} /\ old.wait))
    OBVIOUS
  <2>2. sess'[s] = [old EXCEPT !.synch = v]
    BY <1>2, <1>3, <2>1 DEF Relieved
  <2> QED
    BY <1>1, <1>2, <1>3, <2>1, <2>2 DEF CallType
<1>4. CASE s \in WaitersOn(b) /\ MovesOn(s, g, top)
  <2>1. PICK v \in BOOLEAN : v = (old.synch /\ s # t)
    OBVIOUS
  <2>2. sess'[s] = [old EXCEPT !.lwq = g, !.synch = v]
    BY <1>2, <1>4, <2>1 DEF Relieved
  <2> QED
    BY <1>1, <1>2, <1>4, <2>1, <2>2 DEF CallType
<1>5. CASE s \in WaitersOn(b) /\ ~MovesOn(s, g, top)
  <2>1. PICK v \in BOOLEAN, c \in BOOLEAN : v = (old.synch \/ s = t) /\ c = (old.cs \/ s # t)
    OBVIOUS
  <2>2. sess'[s] = [old EXCEPT !.wait = FALSE, !.lwq = None, !.cs = c, !.synch = v]
    BY <1>2, <1>5, <2>1 DEF Relieved
  <2> QED
    BY <1>1, <1>2, <1>5, <2>1, <2>2 DEF CallType
<1> QED
  BY <1>3, <1>4, <1>5

LEMMA CompleteKeeps ==
  ASSUME LogSound, LogSound', DiskSound, DiskSound', PromiseSound, NEW t \in Threads,
         Complete(t)
  PROVE  PromiseSound'
<1>1. PagesTell' /\ RecordsAge /\ PagesAge
  BY WrittenLeaves DEF PromiseSound
<1>2. PICK b, g : b = Head(io[t].todo) /\ g = Before(b)
  OBVIOUS
<1>3. /\ b \in Buffers /\ OnQueue(b) /\ b \in Members(io[t].todo)
      /\ g # None => g \in Buffers /\ OnQueue(g) /\ g # b
      /\ lastLsn' = lastLsn
      /\ forcedLsn' = IF g = None /\ lbb[b].forced # 0 THEN lbb[b].forced ELSE forcedLsn
      /\ \A x \in Buffers \ {b} :
            lbb'[x].forced = IF x = g THEN Higher(lbb[b].forced, lbb[x].forced)
                                      ELSE lbb[x].forced
  BY <1>2, CompleteGives
<1>4. /\ \A u \in Threads \ {t} : io'[u] = io[u]
      /\ Members(io'[t].todo) = Members(io[t].todo) \ {b}
  <2>1. Completed(t, b)
    BY <1>2, CompleteSound
  <2> QED
    BY <2>1 DEF Completed
<1>5. io'[t].buf = io[t].buf /\ io[t].todo # <<>> /\ io[t].buf = None
  <2>1. io[t].todo # <<>> /\ io' = [io EXCEPT ![t].todo = Tail(io[t].todo),
                                               ![t].freed = io[t].freed \cup {b}]
    BY <1>2 DEF Complete
  <2>2. io \in [Threads -> IoType]
    BY DEF LogSound, Shape
  <2>3. io'[t].buf = io[t].buf
    BY <2>1, <2>2 DEF IoType
  <2> QED
    BY <2>1, <2>3 DEF LogSound, WritersApart
<1>6. PICK top : /\ top = (IF g = None THEN lbb[b].forced
                                       ELSE Higher(lbb[b].forced, lbb[g].forced))
                 /\ sess' = Relieved(t, b, g, top)
  BY <1>2 DEF Complete
<1>7. /\ \A x \in Buffers : lbb[x].forced \in Nat
      /\ \A s \in Sessions : sess[s].target \in Nat /\ sess[s].wlsn \in Nat
      /\ lastLsn \in Nat /\ None \notin Buffers
  BY ThreadsAssumption DEF LogSound, Shape, BufferType, CallType
<1>8. ASSUME NEW s \in Sessions, s \notin WaitersOn(b) PROVE CallSound(s)'
  <2>1. /\ sess'[s].pc = sess[s].pc /\ sess'[s].kind = sess[s].kind
        /\ sess'[s].first = sess[s].first /\ sess'[s].last = sess[s].last
        /\ sess'[s].buf = sess[s].buf /\ sess'[s].target = sess[s].target
        /\ sess'[s].wlsn = sess[s].wlsn
        /\ sess'[s].wait = sess[s].wait /\ sess'[s].lwq = sess[s].lwq
        /\ sess'[s].cs = sess[s].cs /\ (sess'[s].synch => sess[s].synch)
    BY <1>6, <1>8, RelievedGives
  <2>2. sess[s].lwq # b
    BY <1>3, <1>7, <1>8 DEF WaitersOn, LogSound, WaitersPlaced
  <2>3. /\ io'[s].buf = io[s].buf
        /\ sess[s].lwq \in Members(io[s].todo) => sess[s].lwq \in Members(io'[s].todo)
    <3>1. CASE s = t
      BY <1>4, <1>5, <2>2, <3>1
    <3>2. CASE s # t
      BY <1>4, <3>2 DEF Threads
    <3> QED
      BY <3>1, <3>2
  <2>4. CallStays(s)
    BY <2>1, <2>3 DEF CallStays, WaitStays
  <2> QED
    BY <1>1, <2>4, CallAges DEF PromiseSound
<1>9. ASSUME NEW s \in Sessions, s \in WaitersOn(b) PROVE CallSound(s)'
  <2>1. /\ sess'[s].pc = sess[s].pc /\ sess'[s].kind = sess[s].kind
        /\ sess'[s].first = sess[s].first /\ sess'[s].last = sess[s].last
        /\ sess'[s].target = sess[s].target /\ sess'[s].wlsn = sess[s].wlsn
    BY <1>6, RelievedGives
  <2>2. /\ sess[s].wait /\ sess[s].lwq = b /\ CallSound(s)
        /\ sess[s].pc \in {"wake", "return", "idle"}
    BY <1>3, <1>7, <1>9 DEF WaitersOn, LogSound, WaitersPlaced, PromiseSound
  <2>3. /\ sess[s].pc \in {"wake", "return"} /\ sess[s].kind # "plain" /\ Awaits(s)
        /\ sess[s].first <= sess[s].last /\ sess[s].target <= lastLsn
    BY <2>2 DEF CallSound, Served
  <2>4. /\ sess[s].target <= lbb[b].forced /\ sess[s].wlsn <= sess[s].target
        /\ ~sess[s].cs /\ (sess[s].synch => b \in Members(io[s].todo))
        /\ io[s].buf # None => io[s].buf = b
    BY <2>2, <2>3 DEF Awaits
  <2>5. s \in Threads /\ (b \in InHand(s) => s = t)
    <3>1. b \in InHand(t)
      BY <1>3 DEF InHand
    <3> QED
      BY <3>1 DEF LogSound, WritersApart, Threads
  <2>6. (sess[s].synch => s = t) /\ io'[s].buf = None
    <3>1. sess[s].synch => s = t
      BY <2>4, <2>5 DEF InHand
    <3>2. CASE s = t
      BY <1>5, <3>1, <3>2
    <3>3. CASE s # t
      <4>1. io[s].buf = b => b \in InHand(s)
        BY <1>3, <1>7 DEF InHand
      <4> QED
        BY <1>4, <2>4, <2>5, <3>1, <3>3, <4>1
    <3> QED
      BY <3>2, <3>3
  <2>7. Awaits(s)' \/ Served(s)'
    <3>1. CASE g # None
      <4>1. top = lbb'[g].forced /\ sess[s].target <= top /\ sess[s].wlsn <= top
        BY <1>3, <1>6, <1>7, <2>4, <3>1 DEF Higher
      <4>2. MovesOn(s, g, top)
        BY <3>1, <4>1 DEF MovesOn
      <4>3. /\ sess'[s].wait /\ sess'[s].lwq = g /\ ~sess'[s].cs /\ ~sess'[s].synch
        BY <1>6, <1>9, <2>2, <2>4, <2>6, <4>2, RelievedGives
      <4> QED
        BY <2>1, <2>4, <2>6, <3>1, <4>1, <4>3 DEF Awaits
    <3>2. CASE g = None
      <4>1. ~MovesOn(s, g, top)
        BY <3>2 DEF MovesOn
      <4>2. /\ ~sess'[s].wait /\ sess'[s].lwq = None
            /\ ~(sess'[s].cs /\ sess'[s].synch)
        BY <1>6, <1>9, <2>4, <2>6, <4>1, RelievedGives
      <4>3. Safe(sess[s].target)'
        <5>1. forcedLsn' \in Nat /\ \A l \in 1..forcedLsn' : OnDisk(l)'
          BY <1>3, <1>7 DEF DiskSound, ForcedWritten
        <5>2. sess[s].target # 0 => sess[s].target <= forcedLsn'
          BY <1>3, <1>7, <2>4, <3>2
        <5>3. \A l \in 1..(sess'[s].target) : OnDisk(l)'
          BY <1>7, <2>1, <5>1, <5>2
        <5> QED
          BY <2>1, <5>3 DEF Safe
      <4> QED
        BY <2>1, <2>6, <4>2, <4>3 DEF Served, Safe
    <3> QED
      BY <3>1, <3>2
  <2> QED
    BY <1>3, <2>1, <2>3, <2>7 DEF CallSound, Busy
<1> QED
  BY <1>1, <1>8, <1>9 DEF PromiseSound


-------------------------------------------------------------------------------
(* The invariant holds.                                                    *)

(* Sessions are resumed by whom they wait for, and nobody else.            *)
NoStrays == setup.stray = {}

LEMMA InitPromise == Init => PromiseSound
<1>1. SUFFICES ASSUME Init PROVE PromiseSound
  OBVIOUS
<1>2. /\ wq = <<>> /\ eof = 0 /\ lastLsn = 0 /\ disk = {}
      /\ lbb = [b \in Buffers |-> Fresh(0)] /\ current \in Buffers
      /\ sess = [s \in Sessions |-> NewSess]
  BY <1>1 DEF Init
<1>3. \A x \in Buffers : ~Placed(x) /\ ~lbb[x].current
  <2>1. \A x \in Buffers : ~lbb[x].current
    BY <1>2, FreshPage
  <2>2. \A x : ~OnQueue(x)
    BY <1>2 DEF OnQueue, Members
  <2> QED
    BY <1>2, <2>1, <2>2 DEF Placed
<1>4. OnlyLastSpans /\ PagesFilled /\ FirstsRise /\ LastVouches
  BY <1>2, <1>3 DEF OnlyLastSpans, PagesFilled, FirstsRise, LastVouches
<1>5. OpenEndsLog /\ WrittenInLog
  BY <1>2, <1>3 DEF OpenEndsLog, Open, WrittenInLog
<1>6. ASSUME NEW s \in Sessions PROVE CallSound(s)
  <2>1. /\ sess[s].pc = "idle" /\ sess[s].first = 0 /\ sess[s].last = 0
        /\ sess[s].target = 0 /\ ~sess[s].wait /\ ~sess[s].cs
    BY <1>2 DEF NewSess
  <2> QED
    BY <1>2, <2>1 DEF CallSound, Busy
<1> QED
  BY <1>4, <1>5, <1>6 DEF PromiseSound, PagesTell

LEMMA PromiseStep ==
  LogSound /\ LogSound' /\ DiskSound /\ DiskSound' /\ PromiseSound /\ NoStrays /\ [Next]_vars
  => PromiseSound' /\ NoStrays'
<1> SUFFICES ASSUME LogSound, LogSound', DiskSound, DiskSound', PromiseSound, NoStrays,
                    [Next]_vars
             PROVE  PromiseSound' /\ NoStrays'
  OBVIOUS
<1>1. ASSUME NEW s \in Sessions, InCall(s) PROVE PromiseSound' /\ setup' = setup
  <2>1. PromiseSound'
    BY <1>1, AllocateKeeps, LogOnPageKeeps, LogSpanKeeps, SpanNextKeeps, SpanReleaseKeeps,
       SpanPlaceKeeps, CopiedKeeps, WakeGcmtKeeps, AttachKeeps, ReturnKeeps DEF InCall
  <2>2. setup' = setup
    BY <1>1 DEF InCall, Allocate, LogOnPage, LogSpan, SpanNext, SpanRelease, SpanPlace,
                Copied, WakeGcmt, Attach, Return
  <2> QED
    BY <2>1, <2>2
<1>2. ASSUME NEW s \in Sessions, StartWrite(s) \/ LGforce(s) \/ StrayResume(s)
      PROVE  PromiseSound' /\ setup' = setup
  <2>1. ~StrayResume(s)
    BY DEF NoStrays, StrayResume
  <2>2. setup' = setup
    BY <1>2, <2>1 DEF StartWrite, LGforce
  <2> QED
    BY <1>2, <2>1, <2>2, StartWriteKeeps, LGforceKeeps
<1>3. ASSUME NEW t \in Threads, Writing(t) PROVE PromiseSound' /\ setup' = setup
  <2>1. PromiseSound'
    BY <1>3, WriteBlockKeeps, CompleteKeeps, ReturnBuffersKeeps DEF Writing
  <2>2. setup' = setup
    BY <1>3 DEF Writing, WriteBlock, Complete, ReturnBuffers
  <2> QED
    BY <2>1, <2>2
<1>4. CASE (\E w \in LogWriters : LogWriter(w)) \/ CheckDead
  <2>1. setup' = setup
    BY <1>4 DEF LogWriter, Scan, Recheck, Park, CheckDead
  <2> QED
    BY <1>4, <2>1, LogWritersKeep DEF NoStrays
<1>5. CASE GcmtWrite \/ GcmtSleep \/ UNCHANGED vars
  <2>1. setup' = setup
    BY <1>5 DEF GcmtWrite, GcmtSleep, vars
  <2> QED
    BY <1>5, <2>1, GcmtWriteKeeps, StillKeeps DEF NoStrays
<1> QED
  BY <1>1, <1>2, <1>3, <1>4, <1>5 DEF Next, NoStrays

PromisedSound == LogSound /\ DiskSound /\ PromiseSound /\ NoStrays

LEMMA PromisesStaySound == Spec /\ NoStrays => []PromisedSound
<1>1. Init /\ NoStrays => PromisedSound
  BY InitSound, InitDisk, InitPromise DEF PromisedSound
<1>2. PromisedSound /\ [Next]_vars => PromisedSound'
  BY StepSound, DiskStep, PromiseStep DEF PromisedSound
<1> QED
  BY <1>1, <1>2, PTL DEF Spec


-------------------------------------------------------------------------------
(* The steps of LogDurable.                                                *)

LEMMA HighestGiven ==
  ASSUME NEW n \in Nat, NEW A, A \subseteq 1..n
  PROVE  /\ Highest(A) \in 0..n /\ (A # {} => Highest(A) \in A)
         /\ \A y \in A : y <= Highest(A)
<1>1. CASE A = {}
  BY <1>1 DEF Highest
<1>2. CASE A # {}
  <2>1. A \subseteq 0..n
    OBVIOUS
  <2>2. Highest(A) \in A /\ \A y \in A : y <= Highest(A)
    BY <1>2, <2>1, HighestIsMember
  <2> QED
    BY <2>1, <2>2
<1> QED
  BY <1>1, <1>2

(* The durable LSN is the last that is safe.                               *)
LEMMA DurableIsSafe ==
  ASSUME lastLsn \in Nat
  PROVE  /\ Durable \in 0..lastLsn /\ Safe(Durable)
         /\ \A l \in 1..lastLsn : Safe(l) => l <= Durable
<1> DEFINE A == {l \in 1..lastLsn : \A k \in 1..l : OnDisk(k)}
<1>1. PICK n \in Nat : n = lastLsn
  OBVIOUS
<1>2. A \subseteq 1..n /\ Durable = Highest(A)
  BY <1>1 DEF Durable
<1>3. \A l : l \in A <=> l \in 1..n /\ Safe(l)
  BY <1>1 DEF Safe
<1> HIDE DEF A
<1>4. /\ Highest(A) \in 0..n /\ (A # {} => Highest(A) \in A)
      /\ \A y \in A : y <= Highest(A)
  BY <1>2, HighestGiven
<1>5. Safe(Highest(A))
  <2>1. CASE A = {}
    <3>1. Highest(A) = 0
      BY <2>1, Zenon DEF Highest
    <3> QED
      BY <3>1 DEF Safe
  <2>2. CASE A # {}
    BY <1>3, <1>4, <2>2
  <2> QED
    BY <2>1, <2>2
<1> QED
  BY <1>1, <1>2, <1>3, <1>4, <1>5

LEMMA DurableStands ==
  ASSUME LogGrows, lastLsn \in Nat, lastLsn' \in Nat, lastLsn <= lastLsn'
  PROVE  Durable' = Durable
<1> DEFINE A == {l \in 1..lastLsn : \A k \in 1..l : OnDisk(k)}
           B == {l \in 1..lastLsn' : \A k \in 1..l : OnDisk(k)'}
<1>1. Durable = Highest(A) /\ Durable' = Highest(B)
  BY DEF Durable
<1>2. \A l \in 1..lastLsn' : OnDisk(l)' <=> (l <= lastLsn /\ OnDisk(l))
  BY DEF LogGrows
<1>3. A \subseteq B
  BY <1>2
<1>4. ASSUME NEW l \in B PROVE l \in A
  <2>1. l \in 1..lastLsn' /\ \A k \in 1..l : OnDisk(k)'
    BY <1>4
  <2>2. l \in 1..l /\ \A k \in 1..l : k \in 1..lastLsn'
    BY <2>1
  <2>3. l <= lastLsn /\ \A k \in 1..l : OnDisk(k)
    BY <1>2, <2>1, <2>2
  <2> QED
    BY <2>1, <2>3
<1> QED
  BY <1>1, <1>3, <1>4

(* What the sessions see stays the same.                                   *)
LEMMA PromisesStand ==
  ASSUME LogSound, LogSound', lastLsn' = lastLsn, LogGrows,
         \A t \in Sessions : Promise(t)' = Promise(t)
  PROVE  UNCHANGED Log!vars
<1>1. lastLsn \in Nat /\ Durable' = Durable
  BY DurableStands DEF LogSound, Shape
<1>2. [t \in Sessions |-> Promise(t)'] = [t \in Sessions |-> Promise(t)]
  OBVIOUS
<1> QED
  BY <1>1, <1>2 DEF Log!vars

LEMMA LogStands ==
  ASSUME LogSound, LogSound', lastLsn' = lastLsn, rec' = rec, disk' = disk,
         \A t \in Sessions : Promise(t)' = Promise(t)
  PROVE  UNCHANGED Log!vars
<1>1. LogGrows
  BY DEF LogGrows, OnDisk, LogSound, Shape
<1> QED
  BY <1>1, PromisesStand


(* A call without a promise stays without one; a promise stands while the  *)
(* call goes on.                                                           *)
NoCall == {"idle", "log", "sleep"}

LEMMA PromiseStands ==
  ASSUME LogSound, NEW s \in Sessions, NEW v, sess' = [sess EXCEPT ![s] = v],
         \/ sess[s].pc \in NoCall /\ v.pc \in NoCall
         \/ sess[s].pc \notin NoCall /\ v.pc \notin NoCall /\ v.target = sess[s].target
  PROVE  \A t \in Sessions : Promise(t)' = Promise(t)
<1>1. sess'[s] = v /\ \A t \in Sessions \ {s} : sess'[t] = sess[t]
  BY DEF LogSound, Shape
<1> QED
  BY <1>1 DEF Promise, NoCall

LEMMA LoggingStands ==
  ASSUME LogSound, LogSound', NEW s \in Sessions, StartWrite(s) \/ Allocate(s)
  PROVE  UNCHANGED Log!vars
<1>1. /\ lastLsn' = lastLsn /\ rec' = rec /\ disk' = disk
      /\ sess[s] \in CallType /\ sess \in [Sessions -> CallType] /\ sess[s].pc \in NoCall
  BY CallTypes DEF StartWrite, Allocate, log, Logging, At, NoCall
<1>2. PICK v : sess' = [sess EXCEPT ![s] = v] /\ v.pc \in NoCall
  <2>1. CASE StartWrite(s)
    <3>1. PICK k : sess' = [sess EXCEPT ![s] = [sess[s] EXCEPT
                              !.pc = "log", !.kind = k, !.active = TRUE, !.cs = FALSE]]
      BY <1>1, <2>1 DEF StartWrite
    <3>2. [sess[s] EXCEPT !.pc = "log", !.kind = k, !.active = TRUE, !.cs = FALSE].pc = "log"
      BY <1>1 DEF CallType
    <3> QED
      BY <3>1, <3>2 DEF NoCall
  <2>2. CASE sess' = [sess EXCEPT ![s] = Asleep(sess[s])]
    <3>1. Asleep(sess[s]).pc = "sleep"
      BY <1>1 DEF Asleep, CallType
    <3> QED
      BY <2>2, <3>1 DEF NoCall
  <2>3. CASE sess' = [sess EXCEPT ![s] = [sess[s] EXCEPT !.pc = "log", !.cs = FALSE]]
    <3>1. [sess[s] EXCEPT !.pc = "log", !.cs = FALSE].pc = "log"
      BY <1>1 DEF CallType
    <3> QED
      BY <2>3, <3>1 DEF NoCall
  <2> QED
    BY <1>1, <2>1, <2>2, <2>3 DEF Allocate
<1>3. \A t \in Sessions : Promise(t)' = Promise(t)
  BY <1>1, <1>2, PromiseStands
<1> QED
  BY <1>1, <1>3, LogStands

LEMMA CallStands ==
  ASSUME LogSound, LogSound', NEW s \in Sessions,
         SpanRelease(s) \/ SpanPlace(s) \/ Copied(s) \/ WakeGcmt(s) \/ Attach(s)
  PROVE  UNCHANGED Log!vars
<1>1. /\ lastLsn' = lastLsn /\ rec' = rec /\ disk' = disk
      /\ sess[s] \in CallType /\ sess \in [Sessions -> CallType]
  BY CallTypes DEF SpanRelease, SpanPlace, Copied, WakeGcmt, Attach, log
<1>2. sess[s].pc \notin NoCall
  BY DEF SpanRelease, SpanPlace, Copied, WakeGcmt, Attach, At, NoCall
<1>3. PICK v : /\ sess' = [sess EXCEPT ![s] = v]
               /\ v.pc \notin NoCall /\ v.target = sess[s].target
  <2>1. CASE SpanRelease(s)
    <3> DEFINE v == [sess[s] EXCEPT !.head = None, !.pc = "place"]
    <3>1. sess' = [sess EXCEPT ![s] = v]
      BY <1>1, <2>1 DEF SpanRelease
    <3>2. v.pc = "place" /\ v.target = sess[s].target
      BY <1>1 DEF CallType
    <3> QED
      BY <3>1, <3>2 DEF NoCall
  <2>2. CASE SpanPlace(s) \/ WakeGcmt(s)
    <3>1. PICK p \in {"copy", "return"} : sess' = [sess EXCEPT ![s] = [sess[s] EXCEPT !.pc = p]]
      BY <1>1, <2>2 DEF SpanPlace, WakeGcmt
    <3>2. [sess[s] EXCEPT !.pc = p].pc = p /\ [sess[s] EXCEPT !.pc = p].target = sess[s].target
      BY <1>1 DEF CallType
    <3> QED
      BY <3>1, <3>2 DEF NoCall
  <2>3. CASE Copied(s)
    <3>1. PICK b : b = sess[s].buf
      OBVIOUS
    <3> DEFINE forced == sess[s].kind # "plain"
               L == [lbb EXCEPT ![b].writers = @ - 1,
                       ![b].commits = IF sess[s].kind = "commit" THEN @ + 1 ELSE @]
               count == Cardinality(WaitersOn(b)) + 1
               last == L[b].writers = 0 /\ OnQueue(b)
               marks == forced /\ ~last /\ MarksForce(b, L, count)
               mine == [sess[s] EXCEPT !.pc = IF marks THEN "wake" ELSE "return", !.buf = None]
               lsn == IF mine.kind = "commit" THEN mine.first ELSE mine.last
    <3>2. sess' = [sess EXCEPT ![s] = IF forced THEN SuspendOn(mine, b, lsn) ELSE mine]
      BY <2>3, <3>1 DEF Copied
    <3>3. PICK p \in {"wake", "return"} : mine = [sess[s] EXCEPT !.pc = p, !.buf = None]
      OBVIOUS
    <3> HIDE DEF mine, lsn
    <3>4. mine \in CallType /\ mine.pc = p /\ mine.target = sess[s].target
      BY <1>1, <3>3 DEF CallType, Steps
    <3>5. SuspendOn(mine, b, lsn).pc = p /\ SuspendOn(mine, b, lsn).target = sess[s].target
      BY <3>4 DEF CallType, SuspendOn
    <3> QED
      BY <3>2, <3>4, <3>5 DEF NoCall
  <2>4. CASE Attach(s)
    <3>1. PICK b, w, n : b = sess[s].buf /\ w = sess[s].wlsn /\ n = Target(sess[s].target)
      OBVIOUS
    <3>2. \/ sess' = [sess EXCEPT ![s] = [SuspendOn(sess[s], b, w) EXCEPT
                                             !.pc = "return", !.buf = None]]
          \/ sess' = [sess EXCEPT ![s] = SeekOn(sess[s])]
      BY <1>1, <2>4, <3>1 DEF Attach
    <3>3. /\ [SuspendOn(sess[s], b, w) EXCEPT !.pc = "return", !.buf = None].pc = "return"
          /\ [SuspendOn(sess[s], b, w) EXCEPT !.pc = "return", !.buf = None].target
                = sess[s].target
      BY <1>1 DEF CallType, SuspendOn
    <3>4. SeekOn(sess[s]).pc \in {"return", "attach"} /\ SeekOn(sess[s]).target = sess[s].target
      BY <1>1, SeekOnGives
    <3> QED
      BY <3>2, <3>3, <3>4 DEF NoCall
  <2> QED
    BY <2>1, <2>2, <2>3, <2>4
<1>4. \A t \in Sessions : Promise(t)' = Promise(t)
  BY <1>1, <1>2, <1>3, PromiseStands
<1> QED
  BY <1>1, <1>4, LogStands

(* Threads, logwriters and the group commit thread promise nothing.        *)
LEMMA OthersStand ==
  ASSUME LogSound, LogSound',
         \/ \E t \in Threads : Complete(t) \/ ReturnBuffers(t)
         \/ \E w \in LogWriters : LogWriter(w)
         \/ CheckDead \/ GcmtWrite \/ GcmtSleep \/ UNCHANGED vars
  PROVE  UNCHANGED Log!vars
<1>1. lastLsn' = lastLsn /\ rec' = rec /\ disk' = disk
  BY DEF Complete, ReturnBuffers, LogWriter, Scan, Recheck, Park, CheckDead, GcmtWrite,
         GcmtSleep, vars, log
<1>2. \A s \in Sessions : sess'[s].pc = sess[s].pc /\ sess'[s].target = sess[s].target
  <2>1. ASSUME NEW t \in Threads, Complete(t), NEW s \in Sessions
        PROVE  sess'[s].pc = sess[s].pc /\ sess'[s].target = sess[s].target
    <3>1. PICK b, g, top : sess' = Relieved(t, b, g, top)
      BY <2>1 DEF Complete
    <3> QED
      BY <3>1, RelievedGives
  <2>2. ASSUME NEW t \in Threads, ReturnBuffers(t), NEW s \in Sessions
        PROVE  sess'[s].pc = sess[s].pc /\ sess'[s].target = sess[s].target
    <3>1. sess'[s] = sess[s] \/ sess'[s] = [sess[s] EXCEPT !.wait = FALSE, !.cs = TRUE]
      BY <2>2 DEF ReturnBuffers
    <3>2. sess[s] \in CallType
      BY CallTypes
    <3> QED
      BY <3>1, <3>2 DEF CallType
  <2>3. CASE sess' = sess
    BY <2>3
  <2>4. \/ \E t \in Threads : Complete(t) \/ ReturnBuffers(t)
        \/ sess' = sess
    BY DEF LogWriter, Scan, Recheck, Park, CheckDead, GcmtWrite, GcmtSleep, vars
  <2> QED
    BY <2>1, <2>2, <2>3, <2>4
<1>3. \A s \in Sessions : Promise(s)' = Promise(s)
  BY <1>2 DEF Promise
<1> QED
  BY <1>1, <1>3, LogStands


LEMMA SpanGoesOn ==
  ASSUME LogSound, LogSound', DiskSound, PromiseSound, NEW s \in Sessions, SpanNext(s)
  PROVE  UNCHANGED Log!vars
<1>1. /\ LogGrows /\ lastLsn' = lastLsn
      /\ sess'[s].pc \in Busy /\ sess'[s].target = sess[s].target
      /\ \A t \in Sessions \ {s} : sess'[t] = sess[t]
  BY SpanNextKeeps
<1>2. sess[s].pc = "span"
  BY DEF SpanNext, At
<1>3. \A t \in Sessions : Promise(t)' = Promise(t)
  BY <1>1, <1>2 DEF Promise, Busy
<1> QED
  BY <1>1, <1>3, PromisesStand

(* A record is logged, and its session may have to see it on disk.         *)
LEMMA RecordLogged ==
  ASSUME LogSound, LogSound', LogGrows, NEW s \in Sessions, Logs(s), sess[s].pc \in NoCall
  PROVE  Log!Log(s)
<1>1. /\ lastLsn \in Nat /\ lastLsn' \in Nat /\ lastLsn' = lastLsn + 1
      /\ sess'[s].pc \in Busy /\ sess'[s].target \in {0, lastLsn'}
      /\ \A t \in Sessions \ {s} : sess'[t] = sess[t]
  BY DEF LogSound, Shape, Logs
<1>2. Durable' = Durable
  BY <1>1, DurableStands
<1>3. Promise(s) = 0 /\ Promise(s)' = sess'[s].target
  BY <1>1 DEF Promise, NoCall, Busy
<1>4. \A t \in Sessions \ {s} : Promise(t)' = Promise(t)
  BY <1>1 DEF Promise
<1> DEFINE p == [t \in Sessions |-> Promise(t)]
<1>5. [t \in Sessions |-> Promise(t)'] \in {p, [p EXCEPT ![s] = lastLsn']}
  <2>1. CASE sess'[s].target = 0
    BY <1>3, <1>4, <2>1
  <2>2. CASE sess'[s].target = lastLsn'
    BY <1>3, <1>4, <2>2
  <2> QED
    BY <1>1, <2>1, <2>2
<1> QED
  BY <1>1, <1>2, <1>3, <1>5 DEF Log!Log

LEMMA LoggingRefines ==
  ASSUME LogSound, LogSound', DiskSound, PromiseSound, NEW s \in Sessions,
         LogOnPage(s) \/ LogSpan(s)
  PROVE  Log!Log(s) \/ UNCHANGED Log!vars
<1>1. sess[s].pc \in NoCall
  BY DEF LogOnPage, LogSpan, Logging, At, NoCall
<1>2. CASE LogOnPage(s)
  BY <1>1, <1>2, LogOnPageKeeps, RecordLogged
<1>3. CASE LogSpan(s)
  <2>1. CASE LogGrows /\ Logs(s)
    BY <1>1, <2>1, RecordLogged
  <2>2. CASE /\ lastLsn' = lastLsn /\ rec' = rec /\ disk' = disk
             /\ sess'[s].pc = "sleep" /\ \A t \in Sessions \ {s} : sess'[t] = sess[t]
    <3>1. \A t \in Sessions : Promise(t)' = Promise(t)
      BY <1>1, <2>2 DEF Promise, NoCall
    <3> QED
      BY <2>2, <3>1, LogStands
  <2> QED
    BY <1>3, <2>1, <2>2, LogSpanKeeps
<1> QED
  BY <1>2, <1>3

(* A force asks for records that have been logged.                         *)
LEMMA ForceAsks ==
  ASSUME LogSound, LogSound', DiskSound, PromiseSound, NEW s \in Sessions, LGforce(s)
  PROVE  Log!Ask(s) \/ UNCHANGED Log!vars
<1>1. /\ lastLsn' = lastLsn /\ rec' = rec /\ disk' = disk
      /\ sess[s].pc \in NoCall /\ lastLsn \in Nat
      /\ sess \in [Sessions -> CallType] /\ sess' \in [Sessions -> CallType]
  BY DEF LGforce, log, At, NoCall, LogSound, Shape
<1>2. sess'[s].target \in Nat /\ sess'[s].target <= lastLsn /\ sess'[s].pc \notin NoCall
  BY <1>1, LGforceKeeps DEF CallType, NoCall
<1>3. \A t \in Sessions \ {s} : sess'[t] = sess[t]
  BY <1>1 DEF LGforce
<1>4. /\ Promise(s) = 0 /\ Promise(s)' = sess'[s].target
      /\ \A t \in Sessions \ {s} : Promise(t)' = Promise(t)
  BY <1>1, <1>2, <1>3 DEF Promise, NoCall
<1>5. CASE sess'[s].target = 0
  BY <1>1, <1>4, <1>5, LogStands
<1>6. CASE sess'[s].target # 0
  <2> DEFINE p == [t \in Sessions |-> Promise(t)]
  <2>1. [t \in Sessions |-> Promise(t)'] = [p EXCEPT ![s] = sess'[s].target]
    BY <1>4
  <2>2. Durable' = Durable
    <3>1. LogGrows
      BY <1>1 DEF LogGrows, OnDisk
    <3> QED
      BY <1>1, <3>1, DurableStands
  <2>3. sess'[s].target \in 1..lastLsn
    BY <1>1, <1>2, <1>6
  <2> QED
    BY <1>1, <1>4, <2>1, <2>2, <2>3 DEF Log!Ask
<1> QED
  BY <1>5, <1>6

(* It returns when they are on disk.                                       *)
LEMMA ReturnAnswers ==
  ASSUME LogSound, LogSound', PromiseSound, NEW s \in Sessions, Return(s)
  PROVE  Log!Answer(s) \/ UNCHANGED Log!vars
<1>1. /\ lastLsn' = lastLsn /\ rec' = rec /\ disk' = disk
      /\ sess[s].pc \notin NoCall /\ lastLsn \in Nat
      /\ sess \in [Sessions -> CallType] /\ sess[s] \in CallType
  BY DEF Return, log, At, NoCall, LogSound, Shape
<1>2. Safe(sess[s].target) /\ sess[s].target \in Nat /\ sess[s].target <= lastLsn
  BY <1>1, ReturnKeeps DEF PromiseSound, CallSound, CallType
<1>3. PICK a, f, l, w, q, c :
        sess' = [sess EXCEPT ![s] = [NewSess EXCEPT !.active = a, !.first = f, !.last = l,
                                       !.wait = w, !.lwq = q, !.cs = c]]
  BY DEF Return
<1>4. sess'[s].pc = "idle" /\ \A t \in Sessions \ {s} : sess'[t] = sess[t]
  BY <1>1, <1>3 DEF NewSess
<1>5. /\ Promise(s)' = 0 /\ Promise(s) = sess[s].target
      /\ \A t \in Sessions \ {s} : Promise(t)' = Promise(t)
  BY <1>1, <1>4 DEF Promise, NoCall
<1>6. CASE sess[s].target = 0
  BY <1>1, <1>5, <1>6, LogStands
<1>7. CASE sess[s].target # 0
  <2> DEFINE p == [t \in Sessions |-> Promise(t)]
  <2>1. [t \in Sessions |-> Promise(t)'] = [p EXCEPT ![s] = 0]
    BY <1>5
  <2>2. Durable' = Durable
    <3>1. LogGrows
      BY <1>1 DEF LogGrows, OnDisk
    <3> QED
      BY <1>1, <3>1, DurableStands
  <2>3. p[s] # 0 /\ p[s] <= Durable
    BY <1>1, <1>2, <1>5, <1>7, DurableIsSafe
  <2> QED
    BY <1>1, <2>1, <2>2, <2>3 DEF Log!Answer
<1> QED
  BY <1>6, <1>7


(* The disk gets more of the log.                                          *)
LEMMA WriteHardens ==
  ASSUME LogSound, LogSound', NEW t \in Threads, WriteBlock(t)
  PROVE  Log!Harden \/ UNCHANGED Log!vars
<1>1. /\ lastLsn' = lastLsn /\ rec' = rec /\ disk \subseteq disk' /\ lastLsn \in Nat
      /\ sess \in [Sessions -> CallType]
  BY DEF WriteBlock, log, LogSound, Shape
<1>2. \A s \in Sessions : sess'[s].pc = sess[s].pc /\ sess'[s].target = sess[s].target
  <2>1. sess' = sess \/ (t \in Sessions /\ sess' = [sess EXCEPT ![t] = [sess[t] EXCEPT
                                                                        !.synch = TRUE]])
    BY <1>1 DEF WriteBlock
  <2>2. CASE sess' = sess
    BY <2>2
  <2>3. CASE t \in Sessions /\ sess' = [sess EXCEPT ![t] = [sess[t] EXCEPT !.synch = TRUE]]
    BY <1>1, <2>3 DEF CallType
  <2> QED
    BY <2>1, <2>2, <2>3
<1>3. [s \in Sessions |-> Promise(s)'] = [s \in Sessions |-> Promise(s)]
  BY <1>2 DEF Promise
<1> DEFINE A == {l \in 1..lastLsn : \A k \in 1..l : OnDisk(k)}
           B == {l \in 1..lastLsn' : \A k \in 1..l : OnDisk(k)'}
<1>4. PICK n \in Nat : n = lastLsn
  BY <1>1
<1>5. Durable = Highest(A) /\ Durable' = Highest(B)
  BY DEF Durable
<1>6. \A k : OnDisk(k) => OnDisk(k)'
  BY <1>1 DEF OnDisk
<1>7. A \subseteq B /\ A \subseteq 1..n /\ B \subseteq 1..n
  BY <1>1, <1>4, <1>6
<1> HIDE DEF A, B
<1>8. /\ Highest(A) \in 0..n /\ (A # {} => Highest(A) \in A)
      /\ Highest(B) \in 0..n /\ \A y \in B : y <= Highest(B)
  BY <1>7, HighestGiven
<1>9. Highest(A) <= Highest(B)
  <2>1. CASE A = {}
    <3>1. Highest(A) = 0
      BY <2>1, Zenon DEF Highest
    <3> QED
      BY <1>8, <3>1
  <2>2. CASE A # {}
    BY <1>7, <1>8, <2>2
  <2> QED
    BY <2>1, <2>2
<1>10. CASE Durable' = Durable
  BY <1>1, <1>3, <1>10 DEF Log!vars
<1>11. CASE Durable' # Durable
  <2>1. Durable' \in (Durable + 1)..lastLsn
    BY <1>4, <1>5, <1>8, <1>9, <1>11
  <2> QED
    BY <1>1, <1>3, <2>1 DEF Log!Harden
<1> QED
  BY <1>10, <1>11

LEMMA InitPromises == Init => Log!Init
<1>1. SUFFICES ASSUME Init PROVE Log!Init
  OBVIOUS
<1>2. lastLsn = 0 /\ \A s \in Sessions : Promise(s) = 0
  BY <1>1 DEF Init, NewSess, Promise
<1>3. Durable = 0
  <2>1. Durable \in 0..lastLsn
    BY <1>2, DurableIsSafe
  <2> QED
    BY <1>2, <2>1
<1> QED
  BY <1>2, <1>3 DEF Log!Init

LEMMA NextPromises ==
  PromisedSound /\ PromisedSound' /\ [Next]_vars => [Log!Next]_(Log!vars)
<1> SUFFICES ASSUME PromisedSound, PromisedSound', [Next]_vars
             PROVE  Log!Next \/ UNCHANGED Log!vars
  OBVIOUS
<1>1. LogSound /\ LogSound' /\ DiskSound /\ PromiseSound /\ NoStrays
  BY DEF PromisedSound
<1>2. ASSUME NEW s \in Sessions, InCall(s)
      PROVE  Log!Log(s) \/ Log!Ask(s) \/ Log!Answer(s) \/ UNCHANGED Log!vars
  BY <1>1, <1>2, LoggingStands, LoggingRefines, SpanGoesOn, CallStands, ReturnAnswers DEF InCall
<1>3. ASSUME NEW s \in Sessions, StartWrite(s) \/ LGforce(s) \/ StrayResume(s)
      PROVE  Log!Ask(s) \/ UNCHANGED Log!vars
  <2>1. ~StrayResume(s)
    BY <1>1 DEF NoStrays, StrayResume
  <2> QED
    BY <1>1, <1>3, <2>1, LoggingStands, ForceAsks
<1>4. ASSUME NEW t \in Threads, Writing(t) PROVE Log!Harden \/ UNCHANGED Log!vars
  BY <1>1, <1>4, WriteHardens, OthersStand DEF Writing
<1>5. CASE \/ \E w \in LogWriters : LogWriter(w)
           \/ CheckDead \/ GcmtWrite \/ GcmtSleep \/ UNCHANGED vars
  BY <1>1, <1>5, OthersStand
<1>6. CASE \E s \in Sessions : Log!Log(s) \/ Log!Ask(s) \/ Log!Answer(s)
  BY <1>6 DEF Log!Next
<1>7. CASE Log!Harden
  BY <1>7 DEF Log!Next
<1> QED
  BY <1>2, <1>3, <1>4, <1>5, <1>6, <1>7 DEF Next

(* A call that wants its record on disk, or asks for records of others,    *)
(* returns when they are there: LGwrite with LG_FORCE, and LGforce, which  *)
(* returns at once when it finds no page to wait for and trusts one resume *)
(* to end its wait, whatever buffers its session is moved to meanwhile.    *)
(* That nothing else resumes the session is needed: a stray resume ends    *)
(* the wait too early.                                                     *)
THEOREM PromisesKept == Spec /\ NoStrays => KeepsPromises
<1>1. PromisedSound /\ PromisedSound' /\ [Next]_vars => [Log!Next]_(Log!vars)
  BY NextPromises
<1> QED
  BY PromisesStaySound, InitPromises, <1>1, PTL DEF Spec, KeepsPromises, Log!Spec
=============================================================================
