-------------------------- MODULE LockWakeup_proofs --------------------------
(***************************************************************************)
(* Proofs that LockResource loses no wakeup while its sessions do not use  *)
(* LK_U, as under LKD_NO_ULOCKS: whenever a handler returns, the group     *)
(* mode is the highest mode held and the first waiting request is excluded *)
(* by a lock that is held; so is the first conversion unless LK_N is used. *)
(* With LK_U, and for the conversions with LK_N, this is not so (runs      *)
(* stalemode and lostconversion).                                          *)
(***************************************************************************)
EXTENDS LockResource_proofs

(* The modes in use, without LK_U; LK_N is no lock at all.                 *)
Plain == Wanted \ {U}
Known == Plain \cup {N}

-------------------------------------------------------------------------------
(* The mode table, without LK_U.                                           *)

(* Exclusion is mutual, and modes that are held together are compatible.   *)
LEMMA PlainTable ==
  ASSUME NEW a \in Known, NEW b \in Known
  PROVE  /\ a \in Modes
         /\ Compatible(a, b) <=> Compatible(b, a)
         /\ Coexist(a, b) => Compatible(a, b)
         /\ Compatible(a, N)
         /\ Compatible(a, X) => a = N
         /\ ~Compatible(a, b) /\ a = IS => b = X
         /\ Compatible(a, b) /\ b < a => b \in {N, IS}
         /\ Higher(a, b) \in Known
<1>1. a \in Modes \ {U} /\ b \in Modes \ {U}
  BY ListsAssumption, NullMode DEF Known, Plain, N, U
<1>2. Higher(a, b) \in Known
  BY DEF Higher
<1> QED
  BY <1>1, <1>2 DEF Modes, Compatible, CompatibleWith, Coexist, Higher,
                    N, IS, IX, S, SIX, U, X

(* What a group mode excludes is excluded by the mode it rises to, and     *)
(* what it admits by every mode it stands for.                             *)
LEMMA PlainGroup ==
  ASSUME NEW a \in Known, NEW b \in Known, NEW c \in Known
  PROVE  /\ Compatible(a, b) /\ ~Compatible(a, c) => ~Compatible(Higher(a, b), c)
         /\ Under(b, a) /\ Compatible(a, c) => Compatible(b, c)
<1>1. /\ a \in Modes \ {U} /\ b \in Modes \ {U} /\ c \in Modes \ {U}
  BY ListsAssumption, NullMode DEF Known, Plain, N, U
<1> USE DEF Modes, Compatible, CompatibleWith, Higher, Under,
            N, IS, IX, S, SIX, U, X
<1>2. CASE a \in {N, IS, IX}
  BY <1>1, <1>2
<1>3. CASE a \in {S, SIX, X}
  BY <1>1, <1>3
<1> QED
  BY <1>1, <1>2, <1>3

-------------------------------------------------------------------------------
(* The group mode.                                                         *)

(* g is the highest mode held, locks of ex left out.                       *)
Tops(r, ex, g) ==
  /\ \A h \in Holders(r) \ ex : r.grant[h] <= g
  /\ g # N => \E h \in Holders(r) \ ex : r.grant[h] = g

LEMMA GroupModeTops ==
  ASSUME NEW r \in RsbType, NEW ex
  PROVE  /\ GroupMode(r, ex) \in Modes
         /\ Tops(r, ex, GroupMode(r, ex))
         /\ \A g \in Modes : Tops(r, ex, g) => g = GroupMode(r, ex)
<1> DEFINE ms == {r.grant[h] : h \in Holders(r) \ ex}
           k  == GroupMode(r, ex)
<1>1. ms \in SUBSET Modes
  BY DEF RsbType, Holders
<1>2. k = Highest(ms)
  BY DEF GroupMode
<1>3. k \in ms \cup {N} /\ \A n \in ms : n <= k
  BY <1>1, <1>2, HighestBounds
<1>4. k \in Modes
  BY <1>1, <1>3, NullMode
<1> HIDE DEF k
<1>5. Tops(r, ex, k)
  BY <1>3 DEF Tops
<1>6. ASSUME NEW g \in Modes, Tops(r, ex, g) PROVE g = k
  <2>1. \A n \in ms : n <= g
    BY <1>6 DEF Tops
  <2>2. g # N => g \in ms
    BY <1>6 DEF Tops
  <2> HIDE DEF ms
  <2>3. k <= g
    BY <1>3, <2>1 DEF N, Modes
  <2>4. g <= k
    <3>1. CASE g = N
      BY <1>4, <3>1 DEF N, Modes
    <3>2. CASE g # N
      BY <1>3, <2>2, <3>2
    <3> QED
      BY <3>1, <3>2
  <2> QED
    BY <1>4, <2>3, <2>4 DEF Modes
<1> QED
  BY <1>4, <1>5, <1>6 DEF k

(* A lock of l in mode m beside the others, of which g is the highest.     *)
LEMMA TopsRises ==
  ASSUME NEW r, NEW t, NEW l, NEW g \in Modes, NEW m \in Modes,
         Holders(t) = Holders(r) \cup {l}, t.grant[l] = m,
         \A h \in Holders(r) \ {l} :
            t.grant[h] = r.grant[h] /\ r.grant[h] \in Modes /\ r.grant[h] <= g,
         m >= g \/ \E h \in Holders(r) \ {l} : r.grant[h] = g
  PROVE  Tops(t, {}, Higher(g, m)) /\ Higher(g, m) \in Modes
<1>1. Higher(g, m) \in Modes /\ Higher(g, m) >= g /\ Higher(g, m) >= m
  BY DEF Higher, Modes
<1>2. ASSUME NEW h \in Holders(t) PROVE t.grant[h] <= Higher(g, m)
  BY <1>1 DEF Modes
<1>3. \E h \in Holders(t) : t.grant[h] = Higher(g, m)
  <2>1. CASE m >= g
    <3>1. Higher(g, m) = m /\ l \in Holders(t)
      BY <2>1 DEF Higher, Modes
    <3> QED
      BY <3>1
  <2>2. CASE ~(m >= g)
    <3>1. Higher(g, m) = g
      BY <2>2 DEF Higher, Modes
    <3>2. PICK h \in Holders(r) \ {l} : r.grant[h] = g
      BY <2>2
    <3> QED
      BY <3>1, <3>2
  <2> QED
    BY <2>1, <2>2
<1> QED
  BY <1>1, <1>2, <1>3 DEF Tops

-------------------------------------------------------------------------------
(* Resource blocks whose queues have been served.                          *)

(* LK_IS is only excluded by LK_X, beside which nothing but LK_N is held.  *)
PlainModes(r) ==
  /\ \A h \in Holders(r) : r.grant[h] \in Plain
  /\ \A w \in Waiters(r) \cup Converters(r) : r.request[w] \in Plain
  /\ \A c \in Converters(r) : /\ r.request[c] # N
                              /\ r.request[c] = IS => r.grant[c] = N

(* A lock of another list excludes what l asks for.                        *)
Excluded(r, l) ==
  \E h \in Holders(r) \ {l} : ~Compatible(r.grant[h], r.request[l])

(* The mode recorded for the convert queue is the group mode, or the group *)
(* mode stands for a conversion alone.                                     *)
Led(r) ==
  \/ r.convert_mode = r.grant_mode
  \/ \E c \in Converters(r) :
        /\ r.grant[c] = r.grant_mode
        /\ \A h \in Holders(r) \ {c} : r.grant[h] < r.grant_mode

NoVictims(r) == \A c \in Converters(r) : r.search[c] # "dead"

(* f is the first conversion on the grant queue.                           *)
Foremost(r, f) ==
  f \in Converters(r) /\ \A x \in Converters(r) : ~Behind(r.grant_q, x, f)

ConvertersTried(r) ==
  N \notin Wanted /\ NoVictims(r) =>
    \A f \in Lists : Foremost(r, f) => Excluded(r, f)

Fits(r, l) == Compatible(r.grant_mode, r.request[l])

WaitersTried(r) ==
  Converters(r) = {} /\ r.wait_q # <<>> =>
    r.search[Head(r.wait_q)] = "dead" \/ ~Fits(r, Head(r.wait_q))

(* The group mode is the highest mode held.                                *)
Level(r) == r \in QueuedRsb /\ PlainModes(r) /\ Tops(r, {}, r.grant_mode)

(* What each handler leaves behind: the inductive invariant.               *)
Alert(r) == Level(r) /\ Led(r) /\ ConvertersTried(r) /\ WaitersTried(r)

LEMMA LevelGroup ==
  ASSUME NEW r, Level(r)
  PROVE  /\ r \in RsbType /\ r \in SoundRsb /\ r \in QueuedRsb
         /\ r.grant_mode \in Modes
         /\ r.grant_mode \in Known
         /\ \A h \in Holders(r) : /\ r.grant[h] \in Plain /\ r.grant[h] \in Known
                                  /\ r.grant[h] \in Modes
                                  /\ r.grant[h] <= r.grant_mode
                                  /\ Under(r.grant[h], r.grant_mode)
         /\ \A h, k \in Holders(r) : h # k => Compatible(r.grant[h], r.grant[k])
<1>1. r \in RsbType /\ r \in SoundRsb /\ r \in QueuedRsb /\ r.grant_mode \in Modes
  BY DEF Level, QueuedRsb, SoundRsb, RsbType
<1>2. \A h \in Holders(r) : /\ r.grant[h] \in Plain /\ r.grant[h] \in Known
                            /\ r.grant[h] \in Modes
                            /\ r.grant[h] <= r.grant_mode
  BY PlainTable DEF Level, PlainModes, Tops, Known
<1>3. r.grant_mode # N => \E h \in Holders(r) : r.grant[h] = r.grant_mode
  BY DEF Level, Tops
<1>4. r.grant_mode \in Known
  BY <1>2, <1>3 DEF Known
<1>5. \A h \in Holders(r) : Under(r.grant[h], r.grant_mode)
  BY <1>1, <1>2 DEF SoundRsb, Covered, Under
<1>6. ASSUME NEW h \in Holders(r), NEW k \in Holders(r), h # k
      PROVE  Compatible(r.grant[h], r.grant[k])
  <2>1. Coexist(r.grant[h], r.grant[k])
    BY <1>1, <1>6 DEF SoundRsb, CompatibleHolders
  <2> QED
    BY <1>2, <2>1, PlainTable
<1> QED
  BY <1>1, <1>2, <1>3, <1>4, <1>5, <1>6

(* A granted lock that does not lead the convert queue: another lock has   *)
(* the group mode, and its own mode is LK_IS, or LK_N.                     *)
LEMMA NotLeading ==
  ASSUME NEW r, Level(r), Led(r), NEW l \in Lists, r.state[l] = "granted",
         r.grant[l] # r.convert_mode
  PROVE  /\ \E h \in Holders(r) \ {l} : r.grant[h] = r.grant_mode
         /\ r.grant[l] \in {N, IS}
<1>1. l \in Holders(r) /\ l \notin Converters(r)
  BY DEF Holders, Converters
<1>2. /\ \A h \in Holders(r) : /\ r.grant[h] \in Known /\ r.grant[h] \in Modes
                               /\ r.grant[h] <= r.grant_mode
      /\ r.grant_mode \in Modes
      /\ \A h, k \in Holders(r) : h # k => Compatible(r.grant[h], r.grant[k])
  BY <1>1, LevelGroup
<1>3. /\ r.grant[l] < r.grant_mode
      /\ \E h \in Holders(r) \ {l} : r.grant[h] = r.grant_mode
  <2>1. CASE r.convert_mode = r.grant_mode
    <3>1. r.grant[l] < r.grant_mode
      BY <1>1, <1>2, <2>1 DEF Modes
    <3>2. r.grant_mode # N
      BY <1>1, <1>2, <3>1 DEF N, Modes
    <3>3. \E h \in Holders(r) : r.grant[h] = r.grant_mode
      BY <3>2 DEF Level, Tops
    <3> QED
      BY <3>1, <3>3, <1>1, <1>2 DEF Modes
  <2>2. CASE r.convert_mode # r.grant_mode
    <3>1. PICK c \in Converters(r) :
            /\ r.grant[c] = r.grant_mode
            /\ \A h \in Holders(r) \ {c} : r.grant[h] < r.grant_mode
      BY <2>2 DEF Led
    <3>2. c \in Holders(r) /\ c # l
      BY <1>1 DEF Holders, Converters
    <3> QED
      BY <1>1, <3>1, <3>2
  <2> QED
    BY <2>1, <2>2
<1>4. PICK h \in Holders(r) \ {l} : r.grant[h] = r.grant_mode
  BY <1>3
<1>5. /\ r.grant[h] \in Known /\ r.grant[l] \in Known /\ r.grant[l] < r.grant[h]
      /\ Compatible(r.grant[h], r.grant[l])
  BY <1>1, <1>2, <1>3, <1>4
<1> QED
  BY <1>3, <1>5, PlainTable

(* What the group mode of the other locks excludes is excluded by a lock.  *)
LEMMA GroupExcludes ==
  ASSUME NEW r, Level(r), NEW l \in Lists, r.request[l] \in Plain
  PROVE  /\ Excluded(r, l) <=> ~Compatible(GroupMode(r, {l}), r.request[l])
         /\ \A m \in Plain : ~Compatible(GroupMode(r, {l}), m) =>
              \E h \in Holders(r) \ {l} : ~Compatible(r.grant[h], m)
<1> DEFINE g == GroupMode(r, {l})
<1>1. r \in RsbType /\ CompatibleHolders(r)
  BY LevelGroup DEF SoundRsb
<1>2. g \in Modes /\ Tops(r, {l}, g) /\ \A h \in Holders(r) \ {l} : Under(r.grant[h], g)
  BY <1>1, GroupModeTops, GroupModeStands
<1> HIDE DEF g
<1>3. ASSUME NEW m \in Plain, ~Compatible(g, m)
      PROVE  \E h \in Holders(r) \ {l} : ~Compatible(r.grant[h], m)
  <2>1. g # N
    BY <1>3, PlainTable DEF Known
  <2> QED
    BY <1>2, <1>3, <2>1 DEF Tops
<1>4. ASSUME NEW m \in Plain, Compatible(g, m), NEW h \in Holders(r) \ {l}
      PROVE  Compatible(r.grant[h], m)
  <2>1. r.grant[h] \in Known /\ Under(r.grant[h], g)
    BY <1>2, LevelGroup
  <2>2. g # N => \E k \in Holders(r) \ {l} : r.grant[k] = g
    BY <1>2 DEF Tops
  <2>3. g \in Known /\ m \in Known
    BY <2>2, LevelGroup DEF Known
  <2> QED
    BY <1>4, <2>1, <2>3, PlainGroup
<1> QED
  BY <1>3, <1>4 DEF Excluded, g

-------------------------------------------------------------------------------
(* LK_try_wait.                                                            *)

(* A waiting request is granted, tried in vain, or passed over as the      *)
(* victim of a deadlock.                                                   *)
LEMMA WaitStepTries ==
  ASSUME NEW s \in Scans, Level(s.r), Converters(s.r) = {},
         s.r.convert_mode = s.r.grant_mode,
         NEW l \in Lists, s.r.state[l] = "waiting"
  PROVE  LET t == WaitStep(s, l)
         IN  /\ t \in Scans /\ Level(t.r) /\ Converters(t.r) = {}
             /\ t.r.convert_mode = t.r.grant_mode
             /\ \/ t = s /\ (s.stop \/ s.r.search[l] = "dead")
                \/ ~s.stop /\ t.stop /\ t.r = s.r /\ ~Fits(s.r, l)
                \/ /\ ~s.stop /\ ~t.stop /\ Awards(s.r, t.r, l)
                   /\ t.r.wait_q = Without(s.r.wait_q, l)
<1> DEFINE r == s.r
           u == [Grant(r, l) EXCEPT !.grant_q = <<l>> \o r.grant_q,
                                    !.wait_q  = Without(r.wait_q, l)]
           t == WaitStep(s, l)
           m == r.request[l]
<1>1. /\ r \in RsbType /\ r \in QueuedRsb /\ r.grant_mode \in Modes
      /\ \A h \in Holders(r) : r.grant[h] \in Modes /\ r.grant[h] <= r.grant_mode
  BY LevelGroup
<1>2. t \in Scans /\ t.r \in QueuedRsb
  BY <1>1, WaitStepMoves
<1>3. CASE s.stop \/ (Fits(r, l) /\ r.search[l] = "dead")
  <2>1. t = s
    BY <1>3 DEF WaitStep, Fits
  <2> QED
    BY <1>3, <2>1
<1>4. CASE ~s.stop /\ ~Fits(r, l)
  <2>1. t = [s EXCEPT !.stop = TRUE]
    BY <1>4 DEF WaitStep, Fits
  <2>2. t.stop /\ t.r = s.r
    BY <2>1 DEF Scans
  <2> HIDE DEF t
  <2> QED
    BY <1>2, <1>4, <2>2 DEF t
<1>5. CASE ~s.stop /\ Fits(r, l) /\ r.search[l] # "dead"
  <2>1. t = [s EXCEPT !.r = u]
    BY <1>5 DEF WaitStep, Fits
  <2>2. t.r = u /\ t.stop = s.stop
    BY <2>1 DEF Scans
  <2>3. /\ Awards(r, u, l) /\ u.wait_q = Without(r.wait_q, l)
        /\ u.grant_mode = Higher(r.grant_mode, m)
        /\ u.convert_mode = Higher(r.grant_mode, m)
    BY <1>1, <1>5 DEF Awards, Grant, SetMode, RsbType
  <2>4. m \in Plain /\ m \in Modes
    BY PlainTable DEF Level, PlainModes, Waiters, Known
  <2> HIDE DEF u, m
  <2>5. /\ Holders(u) = Holders(r) \cup {l} /\ l \notin Holders(r)
        /\ Waiters(u) \subseteq Waiters(r) /\ Converters(u) = {}
        /\ u.grant[l] = m /\ \A h \in Holders(r) : u.grant[h] = r.grant[h]
        /\ u.request = r.request
    BY <1>1, <2>3 DEF Awards, Holders, Waiters, Converters, RsbType, m
  <2>6. m >= r.grant_mode \/ \E h \in Holders(r) \ {l} : r.grant[h] = r.grant_mode
    <3>1. r.grant_mode # N => \E h \in Holders(r) : r.grant[h] = r.grant_mode
      BY DEF Level, Tops
    <3> QED
      BY <2>4, <2>5, <3>1 DEF N, Modes
  <2>7. Tops(u, {}, u.grant_mode)
    <3>1. \A h \in Holders(r) \ {l} :
             /\ u.grant[h] = r.grant[h] /\ r.grant[h] \in Modes
             /\ r.grant[h] <= r.grant_mode
      BY <1>1, <2>5
    <3> HIDE DEF r
    <3>2. Tops(u, {}, Higher(r.grant_mode, m))
      BY <1>1, <2>4, <2>5, <2>6, <3>1, TopsRises
    <3> QED
      BY <2>3, <3>2
  <2>8. PlainModes(u)
    BY <2>4, <2>5 DEF Level, PlainModes
  <2>9. Level(u)
    BY <1>2, <2>2, <2>7, <2>8 DEF Level
  <2> HIDE DEF t
  <2> QED
    BY <1>2, <1>5, <2>2, <2>3, <2>5, <2>9 DEF t
<1> QED
  BY <1>3, <1>4, <1>5

(* The wait queue of r has been scanned up to its entry i: the scan has    *)
(* stopped at the first request that is no victim, if it did not fit.      *)
WaitTried(r, i, s) ==
  /\ WaitSwept(r, i, s) /\ Level(s.r) /\ Converters(s.r) = {}
  /\ s.r.convert_mode = s.r.grant_mode
  /\ \A a, b \in 1..Len(r.wait_q) :
        /\ a < b /\ s.r.state[r.wait_q[a]] = "waiting"
        /\ s.r.state[r.wait_q[b]] = "waiting"
        => Behind(s.r.wait_q, r.wait_q[a], r.wait_q[b])
  /\ s.stop => \E a \in 1..Len(r.wait_q) :
        /\ s.r.state[r.wait_q[a]] = "waiting" /\ ~Fits(s.r, r.wait_q[a])
        /\ \A b \in 1..Len(r.wait_q) :
              b < a /\ s.r.state[r.wait_q[b]] = "waiting"
              => s.r.search[r.wait_q[b]] = "dead"

LEMMA WaitTriedStarts ==
  ASSUME NEW r, Level(r), Converters(r) = {}, r.convert_mode = r.grant_mode
  PROVE  WaitTried(r, 0, [r |-> r, stop |-> FALSE])
<1>1. r \in QueuedRsb /\ Len(r.wait_q) \in Nat /\ DOMAIN r.wait_q = 1..Len(r.wait_q)
  BY LevelGroup DEF QueuedRsb, LinksOnce
<1>2. WaitSwept(r, 0, [r |-> r, stop |-> FALSE])
  BY <1>1, WaitSweptStarts
<1>3. \A a, b \in 1..Len(r.wait_q) :
         a < b => Behind(r.wait_q, r.wait_q[a], r.wait_q[b])
  BY <1>1 DEF Behind
<1> QED
  BY <1>2, <1>3 DEF WaitTried

LEMMA WaitTriedStep ==
  ASSUME NEW r, Level(r), NEW i \in 1..Len(r.wait_q), NEW s,
         WaitTried(r, i - 1, s)
  PROVE  WaitTried(r, i, WaitStep(s, r.wait_q[i]))
<1> DEFINE q == r.wait_q
           n == Len(q)
           l == q[i]
           t == WaitStep(s, l)
<1>1. /\ r \in QueuedRsb /\ q \in Seq(Lists) /\ n \in Nat
      /\ \A a, b \in 1..n : q[a] = q[b] => a = b
      /\ \A a \in 1..n : q[a] \in Lists
  BY LevelGroup DEF QueuedRsb, LinksOnce
<1>2. /\ WaitSwept(r, i - 1, s) /\ s \in Scans
      /\ s.r.state[l] = "waiting"
  <2>1. i > i - 1
    BY <1>1
  <2> QED
    BY <2>1 DEF WaitTried, WaitSwept
<1>3. WaitSwept(r, i, t)
  BY <1>1, <1>2, WaitSweptStep
<1>4. /\ t \in Scans /\ Level(t.r) /\ Converters(t.r) = {}
      /\ t.r.convert_mode = t.r.grant_mode
      /\ \/ t = s /\ (s.stop \/ s.r.search[l] = "dead")
         \/ ~s.stop /\ t.stop /\ t.r = s.r /\ ~Fits(s.r, l)
         \/ /\ ~s.stop /\ ~t.stop /\ Awards(s.r, t.r, l)
            /\ t.r.wait_q = Without(s.r.wait_q, l)
  BY <1>1, <1>2, WaitStepTries DEF WaitTried
<1> HIDE DEF t
<1>5. CASE t = s
  BY <1>3, <1>5 DEF WaitTried, t
<1>6. CASE ~s.stop /\ t.stop /\ t.r = s.r /\ ~Fits(s.r, l)
  <2>1. ASSUME NEW b \in 1..n, b < i, s.r.state[q[b]] = "waiting"
        PROVE  s.r.search[q[b]] = "dead"
    <3>1. b <= i - 1
      BY <1>1, <2>1
    <3>2. r.search[q[b]] = "dead"
      BY <1>2, <1>6, <2>1, <3>1 DEF WaitSwept
    <3>3. Advances(r, s.r, q[b])
      BY <1>1, <1>2 DEF WaitSwept
    <3> QED
      BY <2>1, <3>2, <3>3 DEF Advances, SameLkb, Succeeds
  <2> QED
    BY <1>2, <1>3, <1>4, <1>6, <2>1 DEF WaitTried, t
<1>7. CASE /\ ~s.stop /\ ~t.stop /\ Awards(s.r, t.r, l)
           /\ t.r.wait_q = Without(s.r.wait_q, l)
  <2>1. /\ t.r.state[l] = "granted"
        /\ \A x \in Lists \ {l} : SameLkb(s.r, t.r, x)
        /\ LinksOnce(s.r.wait_q, Waiters(s.r))
    <3>1. s.r \in QueuedRsb /\ s.r \in RsbType
      BY <1>2 DEF WaitSwept, QueuedRsb, SoundRsb
    <3> QED
      BY <1>1, <1>2, <1>7, <3>1, AwardsAdvances DEF QueuedRsb
  <2>2. ASSUME NEW a \in 1..n, NEW b \in 1..n, a < b,
               t.r.state[q[a]] = "waiting", t.r.state[q[b]] = "waiting"
        PROVE  Behind(t.r.wait_q, q[a], q[b])
    <3>1. q[a] \in Lists \ {l} /\ q[b] \in Lists \ {l}
      BY <1>1, <2>1, <2>2
    <3>2. s.r.state[q[a]] = "waiting" /\ s.r.state[q[b]] = "waiting"
      BY <2>1, <2>2, <3>1 DEF SameLkb
    <3>3. Behind(s.r.wait_q, q[a], q[b])
      BY <2>2, <3>2 DEF WaitTried
    <3> QED
      BY <1>7, <2>1, <3>1, <3>3, WithoutLinks
  <2> QED
    BY <1>3, <1>4, <1>7, <2>2 DEF WaitTried, t
<1> QED
  BY <1>4, <1>5, <1>6, <1>7

(* Every entry of the queue is behind its head.                            *)
LEMMA HeadFirst ==
  ASSUME NEW q, NEW ls, LinksOnce(q, ls), NEW x
  PROVE  ~Behind(q, x, Head(q)) /\ (q # <<>> => Head(q) \in ls)
<1>1. q \in Seq(Lists) /\ DOMAIN q = 1..Len(q) /\ Len(q) \in Nat
  BY DEF LinksOnce
<1>2. CASE q = <<>>
  BY <1>1, <1>2 DEF Behind
<1>3. CASE q # <<>>
  <2>1. 1 \in 1..Len(q) /\ Head(q) = q[1]
    BY <1>1, <1>3
  <2>2. ASSUME NEW i \in 1..Len(q), NEW j \in 1..Len(q), i < j, q[j] = Head(q)
        PROVE  FALSE
    <3>1. j = 1
      BY <2>1, <2>2 DEF LinksOnce
    <3> QED
      BY <1>1, <2>2, <3>1
  <2> QED
    BY <1>1, <2>1, <2>2 DEF Behind, LinksOnce
<1> QED
  BY <1>2, <1>3

(* LK_try_wait leaves the head of the wait queue excluded.                 *)
LEMMA WaitSweepAlert ==
  ASSUME NEW r, Level(r), Converters(r) = {}, r.convert_mode = r.grant_mode
  PROVE  Alert(WaitSweep(r))
<1> DEFINE q == r.wait_q
           n == Len(q)
<1>1. /\ r \in QueuedRsb /\ r \in SoundRsb /\ n \in Nat /\ DOMAIN q = 1..n
      /\ \A a \in 1..n : q[a] \in Lists
      /\ \A x \in Waiters(r) : \E a \in 1..n : q[a] = x
  BY LevelGroup DEF QueuedRsb, LinksOnce
<1>2. PICK at : WaitScan(r, at)
  BY <1>1, WaitSweepScans
<1> DEFINE R == {p \in (0..n) \X Scans : WaitTried(r, p[1], p[2])}
           g == [i \in 0..n |-> <<i, at[i]>>]
<1>3. \A i \in 0..n : at[i] \in Scans
  BY <1>2 DEF WaitScan
<1>4. \A i \in 0..n : g[i] \in R <=> WaitTried(r, i, at[i])
  BY <1>3
<1>5. g[0] \in R
  <2>1. WaitTried(r, 0, at[0]) /\ 0 \in 0..n
    BY <1>1, <1>2, WaitTriedStarts DEF WaitScan
  <2> QED
    BY <1>4, <2>1
<1>6. ASSUME NEW i \in 1..n, g[i - 1] \in R PROVE g[i] \in R
  <2>1. i \in 0..n /\ i - 1 \in 0..n
    BY <1>1
  <2>2. WaitTried(r, i - 1, at[i - 1])
    BY <1>4, <1>6, <2>1
  <2>3. WaitTried(r, i, at[i])
    BY <1>2, <2>2, WaitTriedStep DEF WaitScan
  <2> QED
    BY <1>4, <2>1, <2>3
<1> HIDE DEF R, g
<1>7. \A i \in 0..n : g[i] \in R
  BY <1>1, <1>5, <1>6, ScanInduction
<1> DEFINE s == at[n]
           u == s.r
           f == Head(u.wait_q)
<1>8. WaitTried(r, n, s) /\ u = WaitSweep(r)
  BY <1>1, <1>2, <1>4, <1>7 DEF WaitScan
<1> HIDE DEF s
<1>9. /\ Level(u) /\ Converters(u) = {} /\ u.convert_mode = u.grant_mode
      /\ LinksOnce(u.wait_q, Waiters(u))
      /\ \A x \in Lists : Advances(r, u, x)
  BY <1>8, LevelGroup DEF WaitTried, WaitSwept, QueuedRsb
<1>10. ASSUME u.wait_q # <<>>, u.search[f] # "dead" PROVE ~Fits(u, f)
  <2>1. f \in Lists /\ u.state[f] = "waiting" /\ SameLkb(r, u, f)
    BY <1>9, <1>10, HeadFirst DEF Waiters, Advances, Succeeds
  <2>2. f \in Waiters(r) /\ r.search[f] # "dead"
    BY <1>10, <2>1 DEF SameLkb, Waiters
  <2>3. PICK j \in 1..n : q[j] = f
    BY <1>1, <2>2
  <2>4. j <= n /\ n \in 1..n
    BY <1>1, <2>3
  <2>5. s.stop
    BY <1>8, <2>1, <2>2, <2>3, <2>4 DEF WaitTried, WaitSwept
  <2>6. PICK a \in 1..n :
          /\ u.state[q[a]] = "waiting" /\ ~Fits(u, q[a])
          /\ \A b \in 1..n :
                b < a /\ u.state[q[b]] = "waiting" => u.search[q[b]] = "dead"
    BY <1>8, <2>5 DEF WaitTried
  <2>7. ~(j < a)
    BY <1>10, <2>1, <2>3, <2>6
  <2>8. ~(a < j)
    <3>1. a < j => Behind(u.wait_q, q[a], f)
      BY <1>8, <2>1, <2>3, <2>6 DEF WaitTried
    <3> QED
      BY <1>9, <3>1, HeadFirst
  <2>9. a = j
    BY <1>1, <2>7, <2>8
  <2> QED
    BY <2>3, <2>6, <2>9
<1>11. ConvertersTried(u)
  BY <1>9 DEF ConvertersTried, Foremost
<1> QED
  BY <1>8, <1>9, <1>10, <1>11 DEF Alert, Led, WaitersTried

-------------------------------------------------------------------------------
(* LK_try_convert.                                                         *)

(* l still waits to convert, and a lock of another list is the reason.     *)
Stuck(r, l) == r.state[l] = "convert" /\ Excluded(r, l)

(* The grant queue has been scanned up to its entry i: the conversions     *)
(* before the one that stopped the scan, if any, are victims.              *)
ConvertTried(q, i, s) ==
  /\ s \in Scans /\ Level(s.r) /\ Led(s.r) /\ s.r.grant_q = q
  /\ ~s.stop => /\ s.r.convert_mode = s.r.grant_mode
                /\ \A a \in 1..Len(q) : a <= i /\ s.r.state[q[a]] = "convert"
                                        => s.r.search[q[a]] = "dead"
  /\ s.stop => \E j \in 1..Len(q) :
                 /\ Stuck(s.r, q[j])
                 /\ \A a \in 1..Len(q) : a < j /\ s.r.state[q[a]] = "convert"
                                         => s.r.search[q[a]] = "dead"

(* A conversion that is granted beside the other locks.                    *)
LEMMA ConversionLevel ==
  ASSUME NEW r, Level(r), NEW l \in Converters(r), NEW g \in Modes,
         Tops(r, {l}, g) \/ (g = r.grant_mode /\ Fits(r, l)),
         NEW u \in QueuedRsb, Awards(r, u, l),
         u.grant_mode = Higher(g, r.request[l])
  PROVE  Level(u)
<1> DEFINE m == r.request[l]
<1>1. /\ r \in RsbType /\ r.grant_mode \in Modes /\ l \in Lists /\ l \in Holders(r)
      /\ \A h \in Holders(r) : /\ r.grant[h] \in Modes /\ r.grant[h] \in Plain
                               /\ r.grant[h] <= r.grant_mode
  BY LevelGroup DEF Converters, Holders
<1>2. /\ m \in Plain /\ m \in Known /\ m \in Modes
      /\ m # N /\ (m = IS => r.grant[l] = N)
  <2>1. m \in Plain
    BY DEF Level, PlainModes
  <2>2. m # N /\ (m = IS => r.grant[l] = N)
    BY DEF Level, PlainModes
  <2>3. m \in Known
    BY <2>1 DEF Known
  <2>4. m \in Modes
    BY <2>3, PlainTable
  <2> QED
    BY <2>1, <2>2, <2>3, <2>4
<1> HIDE DEF m
<1>3. /\ Holders(u) = Holders(r) \cup {l} /\ Waiters(u) \subseteq Waiters(r)
      /\ Converters(u) \subseteq Converters(r) \ {l}
      /\ Converters(r) \subseteq Holders(r)
      /\ u.grant[l] = m /\ \A h \in Holders(r) \ {l} : u.grant[h] = r.grant[h]
      /\ u.request = r.request
  BY <1>1 DEF Awards, Holders, Waiters, Converters, RsbType, m
<1>4. \A h \in Holders(r) \ {l} : r.grant[h] <= g
  BY <1>1 DEF Tops
<1>5. m >= g \/ \E h \in Holders(r) \ {l} : r.grant[h] = g
  <2>1. CASE Tops(r, {l}, g)
    <3>1. CASE g = N
      BY <1>2, <3>1 DEF N, Modes
    <3>2. CASE g # N
      BY <2>1, <3>2 DEF Tops
    <3> QED
      BY <3>1, <3>2
  <2>2. CASE g = r.grant_mode /\ Fits(r, l)
    <3>1. g \in Known /\ (g # N => \E h \in Holders(r) : r.grant[h] = g)
      BY <2>2, LevelGroup DEF Level, Tops
    <3>2. m < g => m = IS /\ g # N
      BY <1>2, <2>2, <3>1, PlainTable DEF Fits, m, N, Modes
    <3>3. CASE m < g
      BY <1>2, <3>1, <3>2, <3>3
    <3>4. CASE ~(m < g)
      BY <1>2, <3>4 DEF Modes
    <3> QED
      BY <3>3, <3>4
  <2> QED
    BY <2>1, <2>2
<1>6. Tops(u, {}, Higher(g, m))
  BY <1>1, <1>2, <1>3, <1>4, <1>5, TopsRises
<1>7. PlainModes(u)
  BY <1>1, <1>2, <1>3 DEF Level, PlainModes
<1> QED
  BY <1>6, <1>7 DEF Level, m

LEMMA ConvertTriedStep ==
  ASSUME NEW q \in Seq(Lists), NEW i \in 1..Len(q), NEW s,
         ConvertTried(q, i - 1, s)
  PROVE  ConvertTried(q, i, ConvertStep(s, q[i]))
<1> DEFINE r == s.r
           l == q[i]
           others == GroupMode(r, {l})
           alone == r.grant[l] = r.grant_mode
           skip == s.stop \/ r.state[l] # "convert" \/ r.search[l] = "dead"
           t == ConvertStep(s, l)
           u == t.r
           m == r.request[l]
<1>1. /\ Level(r) /\ Led(r) /\ r.grant_q = q /\ s \in Scans
      /\ r \in QueuedRsb /\ r \in RsbType /\ r.grant_mode \in Modes
      /\ \A a, b \in 1..Len(q) : q[a] = q[b] => a = b
      /\ \A a \in 1..Len(q) : q[a] \in Lists
      /\ Len(q) \in Nat /\ l \in Lists
  <2>1. Level(r) /\ Led(r) /\ q = r.grant_q /\ s \in Scans
    BY DEF ConvertTried
  <2>2. r \in QueuedRsb /\ r \in RsbType /\ r.grant_mode \in Modes
    BY <2>1, LevelGroup
  <2>3. LinksOnce(q, Holders(r))
    BY <2>1, <2>2 DEF QueuedRsb
  <2> HIDE DEF r
  <2> QED
    BY <2>1, <2>2, <2>3 DEF LinksOnce
<1>2. t \in Scans /\ u \in QueuedRsb
  BY <1>1, ConvertStepMoves
<1>3. CASE skip
  <2>1. t = s
    BY <1>3 DEF ConvertStep
  <2>2. \A a \in 1..Len(q) : a <= i => a <= i - 1 \/ a = i
    BY <1>1
  <2> HIDE DEF t
  <2> QED
    BY <1>3, <2>1, <2>2 DEF ConvertTried, t
<1>4. ASSUME ~skip
      PROVE  /\ ~s.stop /\ l \in Converters(r) /\ l \in Holders(r)
             /\ m \in Plain /\ r.convert_mode = r.grant_mode
             /\ others \in Modes /\ Tops(r, {l}, others)
             /\ \A a \in 1..Len(q) : a < i /\ r.state[q[a]] = "convert"
                                      => r.search[q[a]] = "dead"
  <2>1. \A a \in 1..Len(q) : a < i => a <= i - 1
    BY <1>1
  <2>2. l \in Converters(r) /\ l \in Holders(r)
    BY <1>1, <1>4 DEF Converters, Holders
  <2>3. m \in Plain
    BY <1>1, <2>2 DEF Level, PlainModes
  <2>4. others \in Modes /\ Tops(r, {l}, others)
    BY <1>1, GroupModeTops
  <2> HIDE DEF m, others, l
  <2> QED
    BY <1>4, <2>1, <2>2, <2>3, <2>4 DEF ConvertTried
<1>5. ASSUME ~skip, ~t.stop, Awards(r, u, l), u.grant_q = q, NEW g \in Modes,
             Tops(r, {l}, g) \/ (g = r.grant_mode /\ Fits(r, l)),
             u.grant_mode = Higher(g, m), u.convert_mode = Higher(g, m)
      PROVE  ConvertTried(q, i, t)
  <2> HIDE DEF u, t
  <2>1. Level(u)
    BY <1>1, <1>2, <1>4, <1>5, ConversionLevel
  <2>2. /\ u.state[l] = "granted"
        /\ \A x \in Lists \ {l} : SameLkb(r, u, x)
    BY <1>1, <1>4, <1>5, AwardsAdvances DEF Converters
  <2>3. ASSUME NEW a \in 1..Len(q), a <= i, u.state[q[a]] = "convert"
        PROVE  u.search[q[a]] = "dead"
    <3>1. a # i
      BY <2>2, <2>3
    <3>2. q[a] \in Lists \ {l} /\ a < i
      BY <1>1, <2>3, <3>1
    <3> QED
      BY <1>4, <1>5, <2>2, <2>3, <3>2 DEF SameLkb
  <2> QED
    BY <1>2, <1>5, <2>1, <2>3 DEF ConvertTried, Led, u
<1>6. ASSUME ~skip, t.stop, SameLocks(r, u), u.grant_mode = r.grant_mode,
             Led(u), Excluded(r, l)
      PROVE  ConvertTried(q, i, t)
  <2> HIDE DEF u, t
  <2>1. /\ Holders(u) = Holders(r) /\ Waiters(u) = Waiters(r)
        /\ Converters(u) = Converters(r)
        /\ u.grant = r.grant /\ u.request = r.request
    BY <1>6 DEF SameLocks, Holders, Waiters, Converters
  <2>2. Level(u)
    BY <1>1, <1>2, <1>6, <2>1 DEF Level, PlainModes, Tops
  <2>3. Stuck(u, l)
    BY <1>4, <1>6, <2>1 DEF Stuck, Excluded, Converters
  <2>4. \A a \in 1..Len(q) : a < i /\ u.state[q[a]] = "convert"
                             => u.search[q[a]] = "dead"
    BY <1>4, <1>6 DEF SameLocks
  <2>5. u.grant_q = q
    BY <1>1, <1>6 DEF SameLocks
  <2> QED
    BY <1>2, <1>6, <2>2, <2>3, <2>4, <2>5 DEF ConvertTried, u
<1>7. CASE ~skip /\ Fits(r, l)
  <2>1. t = [s EXCEPT !.r = Grant(r, l)]
    BY <1>7 DEF ConvertStep, Fits
  <2>2. u = Grant(r, l) /\ t.stop = s.stop
    BY <1>1, <2>1 DEF Scans
  <2>3. /\ Awards(r, u, l) /\ u.grant_q = r.grant_q
        /\ u.grant_mode = Higher(r.grant_mode, m)
        /\ u.convert_mode = Higher(r.grant_mode, m)
    BY <1>1, <1>7, <2>2 DEF Awards, Grant, SetMode, RsbType
  <2> HIDE DEF u, t
  <2> QED
    BY <1>1, <1>4, <1>5, <1>7, <2>2, <2>3 DEF t
<1>8. CASE ~skip /\ ~Fits(r, l) /\ ~alone
  <2>1. t = [s EXCEPT !.stop = TRUE]
    BY <1>8 DEF ConvertStep, Fits
  <2>2. t.stop /\ u = r
    BY <1>1, <2>1 DEF Scans
  <2>3. r.grant_mode # N
    BY <1>4, <1>8, PlainTable DEF Fits, Known
  <2>4. PICK h \in Holders(r) : r.grant[h] = r.grant_mode
    BY <1>1, <2>3 DEF Level, Tops
  <2>5. Excluded(r, l)
    BY <1>8, <2>4 DEF Excluded, Fits
  <2> HIDE DEF u, t
  <2> QED
    BY <1>1, <1>6, <1>8, <2>2, <2>5 DEF SameLocks, t
<1>9. CASE ~skip /\ ~Fits(r, l) /\ alone /\ Compatible(others, m)
  <2>1. t = [s EXCEPT !.r = Grant(SetMode(r, others), l)]
    BY <1>9 DEF ConvertStep, Fits
  <2>2. u = Grant(SetMode(r, others), l) /\ t.stop = s.stop
    BY <1>1, <2>1 DEF Scans
  <2> HIDE DEF others
  <2>3. /\ Awards(r, u, l) /\ u.grant_q = r.grant_q
        /\ u.grant_mode = Higher(others, m)
        /\ u.convert_mode = Higher(others, m)
    BY <1>1, <1>9, <2>2 DEF Awards, Grant, SetMode, RsbType
  <2> HIDE DEF u, t
  <2> QED
    BY <1>1, <1>4, <1>5, <1>9, <2>2, <2>3 DEF t
<1>10. CASE ~skip /\ ~Fits(r, l) /\ alone /\ ~Compatible(others, m)
  <2>1. t = [r |-> [r EXCEPT !.convert_mode = others], stop |-> TRUE]
    BY <1>10 DEF ConvertStep, Fits
  <2>2. u = [r EXCEPT !.convert_mode = others] /\ t.stop
    BY <2>1
  <2>3. Excluded(r, l)
    BY <1>1, <1>4, <1>10, GroupExcludes
  <2> HIDE DEF others
  <2>4. SameLocks(r, u) /\ u.grant_mode = r.grant_mode /\ u.convert_mode = others
    BY <1>1, <2>2 DEF SameLocks, RsbType
  <2> HIDE DEF u, t
  <2>5. Led(u)
    <3>1. Holders(u) = Holders(r) /\ Converters(u) = Converters(r) /\ u.grant = r.grant
      BY <2>4 DEF SameLocks, Holders, Converters
    <3>2. CASE \E h \in Holders(r) \ {l} : r.grant[h] = r.grant_mode
      <4>1. Tops(r, {l}, r.grant_mode)
        BY <1>1, <3>2 DEF Level, Tops
      <4>2. others = r.grant_mode
        BY <1>1, <4>1, GroupModeTops DEF others
      <4> QED
        BY <2>4, <4>2 DEF Led
    <3>3. CASE ~(\E h \in Holders(r) \ {l} : r.grant[h] = r.grant_mode)
      <4>1. \A h \in Holders(r) \ {l} : r.grant[h] < r.grant_mode
        BY <1>1, <3>3, LevelGroup DEF Modes
      <4> QED
        BY <1>4, <1>10, <2>4, <3>1, <4>1 DEF Led
    <3> QED
      BY <3>2, <3>3
  <2> QED
    BY <1>6, <1>10, <2>2, <2>3, <2>4, <2>5 DEF t
<1> QED
  BY <1>3, <1>7, <1>8, <1>9, <1>10

LEMMA ConvertSweepTries ==
  ASSUME NEW r, Level(r), r.convert_mode = r.grant_mode
  PROVE  LET u == ConvertSweep(r)
         IN  /\ Level(u) /\ Led(u) /\ ConvertersTried(u)
             /\ Converters(u) = {} => u.convert_mode = u.grant_mode
<1> DEFINE q == r.grant_q
           n == Len(q)
<1>1. /\ r \in SoundRsb /\ q \in Seq(Lists) /\ n \in Nat /\ DOMAIN q = 1..n
      /\ \A a \in 1..n : ~(a <= 0)
  BY LevelGroup DEF QueuedRsb, LinksOnce
<1>2. PICK at : ConvertScan(r, at)
  BY <1>1, ConvertSweepScans
<1> DEFINE R == {p \in (0..n) \X Scans : ConvertTried(q, p[1], p[2])}
           g == [i \in 0..n |-> <<i, at[i]>>]
<1>3. \A i \in 0..n : at[i] \in Scans
  BY <1>2 DEF ConvertScan
<1>4. \A i \in 0..n : g[i] \in R <=> ConvertTried(q, i, at[i])
  BY <1>3
<1>5. g[0] \in R
  <2>1. at[0] = [r |-> r, stop |-> FALSE] /\ 0 \in 0..n
    BY <1>1, <1>2 DEF ConvertScan
  <2>2. ConvertTried(q, 0, at[0])
    BY <1>1, <1>3, <2>1 DEF ConvertTried, Led
  <2> QED
    BY <1>4, <2>1, <2>2
<1>6. ASSUME NEW i \in 1..n, g[i - 1] \in R PROVE g[i] \in R
  <2>1. i \in 0..n /\ i - 1 \in 0..n
    BY <1>1
  <2>2. ConvertTried(q, i - 1, at[i - 1])
    BY <1>4, <1>6, <2>1
  <2>3. ConvertTried(q, i, at[i])
    BY <1>1, <1>2, <2>2, ConvertTriedStep DEF ConvertScan
  <2> QED
    BY <1>4, <2>1, <2>3
<1> HIDE DEF R, g
<1>7. \A i \in 0..n : g[i] \in R
  BY <1>1, <1>5, <1>6, ScanInduction
<1> DEFINE s == at[n]
           u == s.r
<1>8. ConvertTried(q, n, s) /\ u = ConvertSweep(r)
  BY <1>1, <1>2, <1>4, <1>7 DEF ConvertScan
<1> HIDE DEF s
<1>9. /\ Level(u) /\ Led(u) /\ u.grant_q = q /\ LinksOnce(q, Holders(u))
      /\ \A a \in 1..n : q[a] \in Lists
  <2>1. Level(u) /\ Led(u) /\ q = u.grant_q
    BY <1>8 DEF ConvertTried
  <2>2. LinksOnce(q, Holders(u))
    BY <2>1, LevelGroup DEF QueuedRsb
  <2> QED
    BY <1>1, <2>1, <2>2
<1>10. ASSUME NoVictims(u), NEW f \in Lists, Foremost(u, f)
       PROVE  Excluded(u, f)
  <2>1. u.state[f] = "convert" /\ f \in Holders(u)
    BY <1>10 DEF Foremost, Converters, Holders
  <2>2. PICK k \in 1..n : q[k] = f
    BY <1>9, <2>1 DEF LinksOnce
  <2>3. k <= n /\ \A a \in 1..n : u.state[q[a]] = "convert" => u.search[q[a]] # "dead"
    BY <1>1, <1>9, <1>10 DEF NoVictims, Converters
  <2>4. PICK j \in 1..n :
          /\ Stuck(u, q[j])
          /\ \A a \in 1..n : a < j /\ u.state[q[a]] = "convert"
                             => u.search[q[a]] = "dead"
    BY <1>8, <2>1, <2>2, <2>3 DEF ConvertTried
  <2>5. ~(k < j)
    BY <2>1, <2>2, <2>3, <2>4
  <2>6. ~(j < k)
    <3>1. q[j] \in Converters(u)
      BY <1>9, <2>4 DEF Stuck, Converters
    <3>2. j < k => Behind(q, q[j], f)
      BY <1>1, <2>2, <2>4 DEF Behind
    <3> QED
      BY <1>9, <1>10, <3>1, <3>2 DEF Foremost
  <2>7. j = k
    BY <1>1, <2>5, <2>6
  <2> QED
    BY <2>2, <2>4, <2>7 DEF Stuck
<1>11. Converters(u) = {} => u.convert_mode = u.grant_mode
  BY <1>9 DEF Led
<1> QED
  BY <1>8, <1>9, <1>10, <1>11 DEF ConvertersTried

LEMMA SameModeLevel ==
  ASSUME NEW r, Level(r)
  PROVE  /\ Level(SetMode(r, r.grant_mode))
         /\ SameLocks(r, SetMode(r, r.grant_mode))
<1> DEFINE v == SetMode(r, r.grant_mode)
<1>1. r \in RsbType /\ r \in QueuedRsb /\ r \in SoundRsb
  BY LevelGroup
<1>2. SameLocks(r, v) /\ v.grant_mode = r.grant_mode
  BY <1>1, SetModeLocks
<1>3. v \in QueuedRsb
  BY <1>1, <1>2, SameModeSound, SameLocksQueued
<1> HIDE DEF v
<1>4. /\ Holders(v) = Holders(r) /\ Waiters(v) = Waiters(r)
      /\ Converters(v) = Converters(r) /\ v.grant = r.grant /\ v.request = r.request
  BY <1>2 DEF SameLocks, Holders, Waiters, Converters
<1>5. Level(v)
  BY <1>2, <1>3, <1>4 DEF Level, PlainModes, Tops
<1> QED
  BY <1>2, <1>5 DEF v

LEMMA TryWaitAlert ==
  ASSUME NEW r \in RsbType, NEW mode, Level(SetMode(r, mode)), Converters(r) = {}
  PROVE  Alert(TryWait(r, mode))
<1> DEFINE v == SetMode(r, mode)
<1>1. SameLocks(r, v) /\ v.convert_mode = v.grant_mode
  BY SetModeLocks
<1> HIDE DEF v
<1>2. Converters(v) = {}
  BY <1>1 DEF SameLocks, Converters
<1>3. Alert(WaitSweep(v))
  BY <1>1, <1>2, WaitSweepAlert DEF v
<1> QED
  BY <1>3 DEF TryWait, v

(* LK_try_convert leaves the first conversion excluded, or the head of the *)
(* wait queue when none is left.                                           *)
LEMMA TryConvertAlert ==
  ASSUME NEW r \in RsbType, NEW mode, Level(SetMode(r, mode))
  PROVE  Alert(TryConvert(r, mode))
<1> DEFINE v == SetMode(r, mode)
           w == ConvertSweep(v)
<1>1. v.convert_mode = v.grant_mode
  BY SetModeLocks
<1>2. Level(w) /\ Led(w) /\ ConvertersTried(w)
  BY <1>1, ConvertSweepTries
<1>3. TryConvert(r, mode) =
        IF Converters(w) = {} THEN TryWait(w, w.grant_mode) ELSE w
  BY DEF TryConvert
<1> HIDE DEF w, v
<1>4. CASE Converters(w) = {}
  <2>1. Alert(TryWait(w, w.grant_mode))
    BY <1>2, <1>4, LevelGroup, SameModeLevel, TryWaitAlert
  <2> QED
    BY <1>3, <1>4, <2>1
<1>5. CASE Converters(w) # {}
  <2>1. Alert(w)
    BY <1>2, <1>5 DEF Alert, WaitersTried
  <2> QED
    BY <1>3, <1>5, <2>1
<1> QED
  BY <1>4, <1>5

-------------------------------------------------------------------------------
(* The handlers.                                                           *)

LEMMA TriedStays ==
  ASSUME NEW r, NEW t, ConvertersTried(r), Converters(t) = Converters(r),
         \A c \in Converters(r) : t.search[c] # "dead" => r.search[c] # "dead",
         \A x, y \in Converters(r) :
            Behind(r.grant_q, x, y) => Behind(t.grant_q, x, y),
         N \notin Wanted =>
           \A c \in Converters(r) : Excluded(r, c) => Excluded(t, c)
  PROVE  ConvertersTried(t)
  BY DEF ConvertersTried, NoVictims, Foremost

(* A new lock is granted where nobody waits.                               *)
LEMMA GrantNewAlert ==
  ASSUME NEW r, Alert(r), NEW l \in Lists, NEW m \in Plain,
         r.state[l] = "free", Admits(r, m)
  PROVE  Alert(GrantNew(r, l, m))
<1> DEFINE t == GrantNew(r, l, m)
<1>1. /\ Level(r) /\ r \in RsbType /\ r \in QueuedRsb /\ r.grant_mode \in Modes
      /\ \A h \in Holders(r) : r.grant[h] \in Modes /\ r.grant[h] <= r.grant_mode
      /\ m \in Modes
  BY LevelGroup, PlainTable DEF Alert, Known
<1>2. t \in QueuedRsb
  BY <1>1, GrantNewMoves DEF Moves
<1>3. /\ t.state = [r.state EXCEPT ![l] = "granted"]
      /\ t.grant = [r.grant EXCEPT ![l] = m]
      /\ t.request = [r.request EXCEPT ![l] = m]
      /\ t.wait_q = r.wait_q
      /\ t.grant_mode = Higher(r.grant_mode, m)
      /\ t.convert_mode = IF m > r.grant_mode THEN m ELSE r.convert_mode
  BY <1>1 DEF GrantNew, RsbType
<1> HIDE DEF t
<1>4. /\ Holders(t) = Holders(r) \cup {l} /\ Waiters(t) = Waiters(r)
      /\ Converters(t) = Converters(r) /\ l \notin Holders(r)
      /\ t.grant[l] = m /\ \A h \in Holders(r) : t.grant[h] = r.grant[h]
  BY <1>1, <1>3 DEF Holders, Waiters, Converters, RsbType
<1>5. Converters(r) = {} /\ Waiters(r) = {}
  BY DEF Admits
<1>6. t.convert_mode = t.grant_mode
  <2>1. r.convert_mode = r.grant_mode
    BY <1>5 DEF Alert, Led
  <2> QED
    BY <1>1, <1>3, <2>1 DEF Higher, Modes
<1>7. Tops(t, {}, t.grant_mode)
  <2>1. r.grant_mode # N => \E h \in Holders(r) : r.grant[h] = r.grant_mode
    BY <1>1 DEF Level, Tops
  <2>2. m >= r.grant_mode \/ \E h \in Holders(r) \ {l} : r.grant[h] = r.grant_mode
    BY <1>1, <1>4, <2>1 DEF N, Modes
  <2>3. Tops(t, {}, Higher(r.grant_mode, m))
    BY <1>1, <1>4, <2>2, TopsRises
  <2> QED
    BY <1>3, <2>3
<1>8. PlainModes(t)
  BY <1>1, <1>4, <1>5 DEF Level, PlainModes
<1>9. t.wait_q = <<>>
  BY <1>1, <1>3, <1>5, HeadFirst DEF QueuedRsb
<1>10. Level(t) /\ Led(t) /\ ConvertersTried(t) /\ WaitersTried(t)
  BY <1>2, <1>4, <1>5, <1>6, <1>7, <1>8, <1>9
     DEF Level, Led, ConvertersTried, Foremost, WaitersTried
<1> QED
  BY <1>10 DEF Alert, t

(* A new request is queued behind the others, or because a lock that is    *)
(* held excludes it.                                                       *)
LEMMA QueueNewAlert ==
  ASSUME NEW r, Alert(r), NEW l \in Lists, NEW m \in Plain,
         r.state[l] = "free", ~Admits(r, m)
  PROVE  Alert(QueueNew(r, l, m))
<1> DEFINE t == QueueNew(r, l, m)
<1>1. /\ Level(r) /\ r \in RsbType /\ r \in QueuedRsb /\ m \in Modes
      /\ LinksOnce(r.wait_q, Waiters(r))
  BY LevelGroup, PlainTable DEF Alert, QueuedRsb, Known
<1>2. t \in QueuedRsb
  BY <1>1, QueueNewMoves DEF Moves
<1>3. /\ t.state = [r.state EXCEPT ![l] = "waiting"]
      /\ t.grant = r.grant
      /\ t.request = [r.request EXCEPT ![l] = m]
      /\ \A k \in Lists \ {l} : t.search[k] = r.search[k]
      /\ t.grant_q = r.grant_q /\ t.wait_q = Append(r.wait_q, l)
      /\ t.grant_mode = r.grant_mode /\ t.convert_mode = r.convert_mode
  BY <1>1 DEF QueueNew, Suspend, RsbType
<1> HIDE DEF t
<1>4. /\ Holders(t) = Holders(r) /\ Waiters(t) = Waiters(r) \cup {l}
      /\ Converters(t) = Converters(r)
      /\ l \notin Holders(r) /\ l \notin Converters(r) /\ l \notin Waiters(r)
      /\ t.request[l] = m /\ \A k \in Lists \ {l} : t.request[k] = r.request[k]
  BY <1>1, <1>3 DEF Holders, Waiters, Converters, RsbType
<1>5. Converters(r) \subseteq Lists \ {l} /\ Waiters(r) \subseteq Lists \ {l}
  BY <1>4 DEF Converters, Waiters
<1>6. PlainModes(t)
  BY <1>1, <1>3, <1>4, <1>5 DEF Level, PlainModes
<1>7. Level(t)
  BY <1>1, <1>2, <1>3, <1>4, <1>6 DEF Level, Tops
<1>8. Led(t)
  BY <1>3, <1>4 DEF Alert, Led
<1>9. ConvertersTried(t)
  <2>1. \A c \in Converters(r) : Excluded(r, c) => Excluded(t, c)
    BY <1>3, <1>4, <1>5 DEF Excluded
  <2>2. \A c \in Converters(r) : t.search[c] = r.search[c]
    BY <1>3, <1>5
  <2> QED
    BY <1>3, <1>4, <2>1, <2>2, TriedStays DEF Alert
<1>10. WaitersTried(t)
  <2>1. SUFFICES ASSUME Converters(t) = {}
                 PROVE  t.search[Head(t.wait_q)] = "dead" \/ ~Fits(t, Head(t.wait_q))
    BY DEF WaitersTried
  <2>2. CASE r.wait_q = <<>>
    <3>1. Waiters(r) = {}
      BY <1>1, <2>2 DEF LinksOnce
    <3>2. ~Compatible(r.grant_mode, m)
      BY <1>4, <2>1, <3>1 DEF Admits
    <3>3. Head(t.wait_q) = l
      BY <1>3, <2>2
    <3> QED
      BY <1>3, <1>4, <3>2, <3>3 DEF Fits
  <2>3. CASE r.wait_q # <<>>
    <3>1. r.wait_q \in Seq(Lists)
      BY <1>1 DEF RsbType
    <3>2. Head(t.wait_q) = Head(r.wait_q)
      BY <1>3, <2>3, <3>1
    <3>3. Head(r.wait_q) \in Lists \ {l}
      BY <1>1, <1>5, <2>3, HeadFirst
    <3> QED
      BY <1>3, <1>4, <2>1, <2>3, <3>2, <3>3 DEF Alert, WaitersTried, Fits
  <2> QED
    BY <2>2, <2>3
<1> QED
  BY <1>7, <1>8, <1>9, <1>10 DEF Alert, t

(* A conversion waits because another lock excludes it.                    *)
LEMMA ConversionExcluded ==
  ASSUME NEW r, Alert(r), NEW l \in Lists, NEW m \in Plain,
         r.state[l] = "granted", ~Convertible(r, l, m)
  PROVE  /\ m # N /\ (m = IS => r.grant[l] = N)
         /\ \E h \in Holders(r) \ {l} : ~Compatible(r.grant[h], m)
<1>1. /\ Level(r) /\ Led(r) /\ l \in Holders(r)
      /\ ~Compatible(ConvertGroup(r, l), m)
  BY DEF Alert, Holders, Convertible
<1>2. PICK h \in Holders(r) \ {l} : ~Compatible(r.grant[h], m)
  <2>1. CASE Leads(r, l)
    <3>1. /\ r \in RsbType /\ CompatibleHolders(r)
          /\ ~Compatible(GroupMode(r, {l}), m)
      BY <1>1, <2>1, LevelGroup DEF ConvertGroup, SoundRsb
    <3>2. GroupMode(r, {l}) # N /\ Tops(r, {l}, GroupMode(r, {l}))
      BY <3>1, GroupModeTops, PlainTable DEF Known
    <3> QED
      BY <3>1, <3>2 DEF Tops
  <2>2. CASE ~Leads(r, l)
    BY <1>1, <2>2, NotLeading DEF ConvertGroup, Leads
  <2> QED
    BY <2>1, <2>2
<1>3. /\ r.grant[h] \in Known /\ r.grant[l] \in Known /\ m \in Known
      /\ Compatible(r.grant[h], r.grant[l])
  BY <1>1, LevelGroup DEF Known
<1>4. m # N /\ (m = IS => r.grant[l] = N)
  BY <1>2, <1>3, PlainTable
<1> QED
  BY <1>2, <1>4

LEMMA QueueConvertAlert ==
  ASSUME NEW r, Alert(r), NEW l \in Lists, NEW m \in Plain,
         r.state[l] = "granted", ~Convertible(r, l, m)
  PROVE  Alert(QueueConvert(r, l, m))
<1> DEFINE t == QueueConvert(r, l, m)
           others == GroupMode(r, {l})
<1>1. /\ Level(r) /\ r \in RsbType /\ r \in QueuedRsb /\ m \in Modes
      /\ LinksOnce(r.grant_q, Holders(r))
  BY LevelGroup, PlainTable DEF Alert, QueuedRsb, Known
<1>2. t \in QueuedRsb
  BY <1>1, QueueConvertMoves DEF Moves
<1>3. /\ t.state = [r.state EXCEPT ![l] = "convert"]
      /\ t.grant = r.grant
      /\ t.request = [r.request EXCEPT ![l] = m]
      /\ \A k \in Lists \ {l} : t.search[k] = r.search[k]
      /\ t.search[l] # "dead"
      /\ t.grant_q = Append(Without(r.grant_q, l), l)
      /\ t.grant_mode = r.grant_mode
      /\ t.convert_mode = IF Converters(r) = {} THEN ConvertGroup(r, l)
                                                ELSE r.convert_mode
  BY <1>1 DEF QueueConvert, Suspend, RsbType
<1> HIDE DEF t
<1>4. /\ Holders(t) = Holders(r) /\ Waiters(t) = Waiters(r)
      /\ Converters(t) = Converters(r) \cup {l}
      /\ l \in Holders(r) /\ l \notin Converters(r) /\ l \notin Waiters(r)
      /\ t.request[l] = m /\ \A k \in Lists \ {l} : t.request[k] = r.request[k]
      /\ Converters(r) \subseteq Lists /\ Waiters(r) \subseteq Lists
  BY <1>1, <1>3 DEF Holders, Waiters, Converters, RsbType
<1>5. /\ m # N /\ (m = IS => r.grant[l] = N)
      /\ \E h \in Holders(r) \ {l} : ~Compatible(r.grant[h], m)
  BY ConversionExcluded
<1>6. PlainModes(t)
  BY <1>1, <1>3, <1>4, <1>5 DEF Level, PlainModes
<1>7. Level(t)
  BY <1>1, <1>2, <1>3, <1>4, <1>6 DEF Level, Tops
<1>8. Led(t)
  <2>1. CASE Converters(r) = {} /\ Leads(r, l)
    <3>1. t.convert_mode = others
      BY <1>3, <2>1 DEF ConvertGroup
    <3>2. r.convert_mode = r.grant_mode /\ r.grant[l] = r.grant_mode
      BY <2>1 DEF Alert, Led, Leads
    <3>3. CASE \E h \in Holders(r) \ {l} : r.grant[h] = r.grant_mode
      <4>1. Tops(r, {l}, r.grant_mode) /\ r.grant_mode \in Modes
        BY <1>1, <3>3, LevelGroup DEF Level, Tops
      <4>2. others = r.grant_mode
        BY <1>1, <4>1, GroupModeTops
      <4> QED
        BY <1>3, <3>1, <4>2 DEF Led
    <3>4. CASE ~(\E h \in Holders(r) \ {l} : r.grant[h] = r.grant_mode)
      <4>1. \A h \in Holders(r) \ {l} : r.grant[h] < r.grant_mode
        BY <1>1, <3>4, LevelGroup DEF Modes
      <4> QED
        BY <1>3, <1>4, <3>2, <4>1 DEF Led
    <3> QED
      BY <3>3, <3>4
  <2>2. CASE Converters(r) = {} /\ ~Leads(r, l)
    BY <1>3, <2>2 DEF ConvertGroup, Led
  <2>3. CASE Converters(r) # {}
    BY <1>3, <1>4, <2>3 DEF Alert, Led
  <2> QED
    BY <2>1, <2>2, <2>3
<1>9. ASSUME N \notin Wanted, NoVictims(t), NEW f \in Lists, Foremost(t, f) PROVE Excluded(t, f)
  <2>1. CASE f = l
    BY <1>3, <1>4, <1>5, <2>1 DEF Excluded
  <2>2. CASE f # l
    <3>1. f \in Converters(r) /\ NoVictims(r)
      BY <1>3, <1>4, <1>9, <2>2 DEF Foremost, NoVictims
    <3>2. ASSUME NEW x \in Converters(r), Behind(r.grant_q, x, f) PROVE FALSE
      <4>1. x # l /\ x \in Converters(t)
        BY <1>4
      <4>2. /\ LinksOnce(Without(r.grant_q, l), Holders(r) \ {l})
            /\ Behind(Without(r.grant_q, l), x, f)
        BY <1>1, <2>2, <3>2, <4>1, WithoutLinks
      <4>3. Behind(Append(Without(r.grant_q, l), l), x, f)
        <5>1. l \in Lists \ (Holders(r) \ {l})
          OBVIOUS
        <5> QED
          BY <4>2, <5>1, AppendLinks
      <4>4. Behind(t.grant_q, x, f)
        BY <1>3, <4>3
      <4> QED
        BY <1>9, <4>1, <4>4 DEF Foremost
    <3>3. Excluded(r, f)
      BY <1>9, <3>1, <3>2 DEF Alert, ConvertersTried, Foremost
    <3> QED
      BY <1>3, <1>4, <2>2, <3>3 DEF Excluded
  <2> QED
    BY <2>1, <2>2
<1>10. WaitersTried(t)
  BY <1>4 DEF WaitersTried
<1> QED
  BY <1>7, <1>8, <1>9, <1>10 DEF Alert, ConvertersTried, t

(* l holds mode m beside the other locks, whose highest mode is below or g.*)
LEMMA HeldLevel ==
  ASSUME NEW r, Level(r), NEW l \in Lists, NEW m \in Plain, NEW g \in Modes,
         r.state[l] = "granted", NEW v \in QueuedRsb,
         v.state = r.state, v.grant = [r.grant EXCEPT ![l] = m],
         v.request = [r.request EXCEPT ![l] = m], v.grant_mode = Higher(g, m),
         \A h \in Holders(r) \ {l} : r.grant[h] <= g,
         g # N => \E h \in Holders(r) \ {l} : r.grant[h] = g
  PROVE  Level(v)
<1>1. /\ r \in RsbType /\ m \in Modes
      /\ \A h \in Holders(r) : r.grant[h] \in Modes /\ r.grant[h] \in Plain
  BY LevelGroup, PlainTable DEF Known
<1>2. /\ Holders(v) = Holders(r) /\ Waiters(v) = Waiters(r)
      /\ Converters(v) = Converters(r) /\ l \in Holders(r)
      /\ l \notin Waiters(r) /\ l \notin Converters(r)
      /\ v.grant[l] = m /\ \A h \in Holders(r) \ {l} : v.grant[h] = r.grant[h]
      /\ \A k \in Lists \ {l} : v.request[k] = r.request[k]
  BY <1>1 DEF Holders, Waiters, Converters, RsbType
<1>3. Waiters(r) \subseteq Lists \ {l} /\ Converters(r) \subseteq Lists \ {l}
  BY <1>2 DEF Waiters, Converters
<1>4. PlainModes(v)
  BY <1>1, <1>2, <1>3 DEF Level, PlainModes
<1>5. m >= g \/ \E h \in Holders(r) \ {l} : r.grant[h] = g
  BY <1>1 DEF N, Modes
<1>6. \A h \in Holders(r) \ {l} :
         v.grant[h] = r.grant[h] /\ r.grant[h] \in Modes /\ r.grant[h] <= g
  BY <1>1, <1>2
<1>7. Holders(v) = Holders(r) \cup {l}
  BY <1>2
<1>8. Tops(v, {}, Higher(g, m))
  BY <1>1, <1>2, <1>5, <1>6, <1>7, TopsRises
<1> QED
  BY <1>4, <1>8 DEF Level

(* A conversion is granted: the queues are served when l may have led      *)
(* them, and it has kept nobody waiting otherwise.                         *)
LEMMA GrantConvertAlert ==
  ASSUME NEW r, Alert(r), NEW l \in Lists, NEW m \in Plain,
         r.state[l] = "granted", Convertible(r, l, m)
  PROVE  Alert(GrantConvert(r, l, m))
<1> DEFINE held == Held(r, l, m)
           g == ConvertGroup(r, l)
           mode == Higher(g, m)
           u == GrantConvert(r, l, m)
<1>1. /\ Level(r) /\ Led(r) /\ r \in RsbType /\ r \in QueuedRsb
      /\ r.grant_mode \in Modes /\ m \in Modes
      /\ \A h \in Holders(r) : /\ r.grant[h] \in Modes /\ r.grant[h] \in Plain
                               /\ r.grant[h] <= r.grant_mode
  BY LevelGroup, PlainTable DEF Alert, Known
<1>2. l \in Holders(r) /\ l \notin Converters(r)
  BY DEF Holders, Converters
<1>3. /\ held \in RsbType /\ held.state = r.state /\ held.search = r.search
      /\ held.grant = [r.grant EXCEPT ![l] = m]
      /\ held.request = [r.request EXCEPT ![l] = m]
      /\ held.grant_q = r.grant_q /\ held.wait_q = r.wait_q
      /\ Holders(held) = Holders(r) /\ Converters(held) = Converters(r)
      /\ OnlyHolder(r, l) => SetMode(held, m) \in QueuedRsb
      /\ ~OnlyHolder(r, l) => SetMode(held, mode) \in QueuedRsb
  BY <1>1, HeldQueued
<1>4. u = IF OnlyHolder(r, l) THEN TryWait(held, m)
          ELSE IF Leads(r, l) THEN TryConvert(held, mode)
          ELSE SetMode(held, mode)
  BY DEF GrantConvert, Held
<1>5. ~OnlyHolder(r, l) => Compatible(g, m)
  BY DEF Convertible
<1> HIDE DEF held, g, u
<1>6. ASSUME NEW n
      PROVE  /\ SameLocks(held, SetMode(held, n))
             /\ SetMode(held, n).grant_mode = n
             /\ SetMode(held, n).convert_mode = n
             /\ SetMode(held, n).state = r.state
             /\ SetMode(held, n).grant = [r.grant EXCEPT ![l] = m]
             /\ SetMode(held, n).request = [r.request EXCEPT ![l] = m]
             /\ SetMode(held, n).search = r.search
             /\ SetMode(held, n).grant_q = r.grant_q
             /\ SetMode(held, n).wait_q = r.wait_q
  BY <1>3, SetModeLocks DEF SameLocks
<1>7. CASE OnlyHolder(r, l)
  <2>1. Holders(r) = {l} /\ Converters(r) = {}
    BY <1>2, <1>7 DEF OnlyHolder, Holders, Converters
  <2>2. Higher(N, m) = m /\ N \in Modes
    BY <1>1 DEF Higher, N, Modes
  <2> DEFINE v == SetMode(held, m)
  <2>3. /\ v \in QueuedRsb /\ v.state = r.state /\ v.grant = [r.grant EXCEPT ![l] = m]
        /\ v.request = [r.request EXCEPT ![l] = m] /\ v.grant_mode = m
    BY <1>3, <1>6, <1>7
  <2> HIDE DEF v
  <2>4. Level(v)
    BY <1>1, <2>1, <2>2, <2>3, HeldLevel
  <2> QED
    BY <1>3, <1>4, <1>7, <2>1, <2>4, TryWaitAlert DEF v, u
<1>8. CASE ~OnlyHolder(r, l) /\ Leads(r, l)
  <2>1. g \in Modes /\ Tops(r, {l}, g)
    BY <1>1, <1>8, GroupModeTops DEF g, ConvertGroup
  <2> DEFINE v == SetMode(held, mode)
  <2>2. /\ v \in QueuedRsb /\ v.state = r.state /\ v.grant = [r.grant EXCEPT ![l] = m]
        /\ v.request = [r.request EXCEPT ![l] = m] /\ v.grant_mode = Higher(g, m)
    BY <1>3, <1>6, <1>8
  <2> HIDE DEF v
  <2>3. Level(v)
    BY <1>1, <2>1, <2>2, HeldLevel DEF Tops
  <2> QED
    BY <1>3, <1>4, <1>8, <2>3, TryConvertAlert DEF v, u
<1>9. CASE ~OnlyHolder(r, l) /\ ~Leads(r, l)
  <2>1. g = r.grant_mode
    BY <1>9 DEF g, ConvertGroup
  <2>2. /\ \E h \in Holders(r) \ {l} : r.grant[h] = r.grant_mode
        /\ r.grant[l] \in {N, IS}
    BY <1>1, <1>9, NotLeading DEF Leads
  <2> DEFINE v == SetMode(held, mode)
  <2>3. /\ v \in QueuedRsb /\ v.state = r.state /\ v.grant = [r.grant EXCEPT ![l] = m]
        /\ v.request = [r.request EXCEPT ![l] = m] /\ v.grant_mode = Higher(r.grant_mode, m)
        /\ v.convert_mode = v.grant_mode /\ v.search = r.search
        /\ v.grant_q = r.grant_q /\ v.wait_q = r.wait_q /\ u = v
    BY <1>3, <1>4, <1>6, <1>9, <2>1
  <2> HIDE DEF v, mode
  <2>4. Level(v) /\ Led(v)
    BY <1>1, <2>2, <2>3, HeldLevel DEF Led
  <2>5. /\ Holders(v) = Holders(r) /\ Converters(v) = Converters(r)
        /\ Waiters(v) = Waiters(r)
        /\ v.grant[l] = m /\ \A h \in Holders(r) \ {l} : v.grant[h] = r.grant[h]
        /\ \A k \in Lists \ {l} : v.request[k] = r.request[k]
    BY <1>1, <1>2, <2>3 DEF Holders, Converters, Waiters, RsbType
  <2>6. ASSUME N \notin Wanted, NEW c \in Converters(r), Excluded(r, c)
        PROVE  Excluded(v, c)
    <3>1. PICK h \in Holders(r) \ {c} : ~Compatible(r.grant[h], r.request[c])
      BY <2>6 DEF Excluded
    <3>2. c \in Lists \ {l} /\ v.request[c] = r.request[c] /\ r.request[c] \in Plain
      BY <1>1, <1>2, <2>5 DEF Converters, Level, PlainModes
    <3>3. ~Compatible(v.grant[h], r.request[c])
      <4>1. CASE h = l
        <5>1. m # N /\ r.grant[l] = IS
          BY <1>1, <1>2, <2>2, <2>6 DEF Plain
        <5>2. r.request[c] = X
          BY <1>1, <1>2, <3>1, <3>2, <4>1, <5>1, PlainTable DEF Known
        <5>3. ~Compatible(m, X)
          BY <3>2, <5>1, <5>2, PlainTable DEF Known
        <5> QED
          BY <2>5, <4>1, <5>2, <5>3
      <4>2. CASE h # l
        BY <2>5, <3>1, <4>2
      <4> QED
        BY <4>1, <4>2
    <3> QED
      BY <2>5, <3>1, <3>2, <3>3 DEF Excluded
  <2>7. ConvertersTried(v)
    BY <2>3, <2>5, <2>6, TriedStays DEF Alert
  <2>8. WaitersTried(v)
    <3> DEFINE w == Head(r.wait_q)
    <3>1. SUFFICES ASSUME Converters(r) = {}, r.wait_q # <<>>, r.search[w] # "dead"
                   PROVE  ~Fits(v, w)
      BY <2>3, <2>5 DEF WaitersTried
    <3>2. ~Fits(r, w)
      BY <3>1 DEF Alert, WaitersTried
    <3>3. w \in Waiters(r)
      BY <1>1, <3>1, HeadFirst DEF QueuedRsb
    <3>4. w \in Lists \ {l} /\ r.request[w] \in Plain
      BY <1>1, <3>3 DEF Waiters, Level, PlainModes
    <3>5. r.grant_mode \in Known
      BY <1>1, <1>2, LevelGroup
    <3> QED
      BY <1>5, <1>9, <2>1, <2>3, <2>5, <3>2, <3>4, <3>5, PlainGroup DEF Fits, Known
  <2> QED
    BY <2>3, <2>4, <2>7, <2>8 DEF Alert, u
<1> QED
  BY <1>7, <1>8, <1>9 DEF u

(* Only lock modes nobody waits for change, or a request becomes a victim. *)
LEMMA StillAlert ==
  ASSUME NEW r, Alert(r), NEW t \in QueuedRsb,
         t.state = r.state, t.grant = r.grant,
         t.grant_q = r.grant_q, t.wait_q = r.wait_q,
         t.grant_mode = r.grant_mode, t.convert_mode = r.convert_mode,
         \A w \in Waiters(r) \cup Converters(r) : t.request[w] = r.request[w],
         \A k \in Lists : r.search[k] = "dead" => t.search[k] = "dead"
  PROVE  Alert(t)
<1>1. /\ Holders(t) = Holders(r) /\ Waiters(t) = Waiters(r)
      /\ Converters(t) = Converters(r) /\ Converters(r) \subseteq Lists
      /\ Waiters(r) \subseteq Lists /\ LinksOnce(r.wait_q, Waiters(r))
  BY LevelGroup DEF Alert, Holders, Waiters, Converters, QueuedRsb
<1>2. Level(t) /\ Led(t)
  BY <1>1 DEF Alert, Level, PlainModes, Tops, Led
<1>3. \A c \in Converters(r) : Excluded(r, c) => Excluded(t, c)
  BY <1>1 DEF Excluded
<1>4. ConvertersTried(t)
  <2>1. \A c \in Converters(r) : t.search[c] # "dead" => r.search[c] # "dead"
    BY <1>1
  <2>2. \A x, y \in Converters(r) :
           Behind(r.grant_q, x, y) => Behind(t.grant_q, x, y)
    OBVIOUS
  <2> QED
    BY <1>1, <1>3, <2>1, <2>2, TriedStays DEF Alert
<1>5. WaitersTried(t)
  <2>1. r.wait_q # <<>> => Head(r.wait_q) \in Waiters(r)
    BY <1>1, HeadFirst
  <2> QED
    BY <1>1, <2>1 DEF Alert, WaitersTried, Fits
<1> QED
  BY <1>2, <1>4, <1>5 DEF Alert

(* The lock block of l is gone.                                            *)
LEMMA RestAlert ==
  ASSUME NEW r, Level(r), NEW l \in Lists
  PROVE  LET rest == Removed(r, l)
         IN  /\ rest \in QueuedRsb /\ rest \in SoundRsb /\ rest \in RsbType
             /\ Holders(rest) = Holders(r) \ {l}
             /\ Waiters(rest) = Waiters(r) \ {l}
             /\ Converters(rest) = Converters(r) \ {l}
             /\ \A k \in Lists \ {l} : SameLkb(r, rest, k)
             /\ rest.grant_mode = r.grant_mode
             /\ rest.convert_mode = r.convert_mode
             /\ rest.grant_q = Without(r.grant_q, l)
             /\ rest.wait_q = Without(r.wait_q, l)
             /\ \A v \in QueuedRsb :
                   SameLocks(rest, v) /\ Tops(rest, {}, v.grant_mode) => Level(v)
<1> DEFINE rest == Removed(r, l)
<1>1. r \in RsbType /\ r \in QueuedRsb
  BY LevelGroup
<1>2. rest \in QueuedRsb /\ rest \in SoundRsb /\ rest \in RsbType
  BY <1>1, RemovedQueued DEF QueuedRsb, SoundRsb
<1>3. \A k \in Lists \ {l} : SameLkb(r, rest, k)
  BY <1>1, RemovedQueued
<1>4. /\ rest.state = [r.state EXCEPT ![l] = "free"]
      /\ rest.grant_mode = r.grant_mode
      /\ rest.convert_mode = r.convert_mode
      /\ rest.grant_q = Without(r.grant_q, l)
      /\ rest.wait_q = Without(r.wait_q, l)
  BY <1>1 DEF Removed, RsbType
<1> HIDE DEF rest
<1>5. /\ Holders(rest) = Holders(r) \ {l} /\ Waiters(rest) = Waiters(r) \ {l}
      /\ Converters(rest) = Converters(r) \ {l}
  BY <1>1, <1>4 DEF Holders, Waiters, Converters, RsbType
<1>6. ASSUME NEW v \in QueuedRsb, SameLocks(rest, v), Tops(rest, {}, v.grant_mode)
      PROVE  Level(v)
  <2>1. /\ Holders(v) = Holders(rest) /\ Waiters(v) = Waiters(rest)
        /\ Converters(v) = Converters(rest)
        /\ v.grant = rest.grant /\ v.request = rest.request
    BY <1>6 DEF SameLocks, Holders, Waiters, Converters
  <2>2. Holders(r) \subseteq Lists /\ Waiters(r) \subseteq Lists
        /\ Converters(r) \subseteq Lists
    BY DEF Holders, Waiters, Converters
  <2>3. PlainModes(v)
    BY <1>3, <1>5, <2>1, <2>2 DEF Level, PlainModes, SameLkb
  <2>4. Tops(v, {}, v.grant_mode)
    BY <1>6, <2>1 DEF Tops
  <2> QED
    BY <2>3, <2>4 DEF Level
<1>7. \A v \in QueuedRsb :
         SameLocks(rest, v) /\ Tops(rest, {}, v.grant_mode) => Level(v)
  BY <1>6
<1> QED
  BY <1>2, <1>3, <1>4, <1>5, <1>7, Zenon DEF rest

LEMMA WithoutNone ==
  ASSUME NEW q, NEW ls, LinksOnce(q, ls), NEW l, l \notin ls
  PROVE  Without(q, l) = q
<1>1. l \notin {q[i] : i \in DOMAIN q}
  BY DEF LinksOnce
<1> QED
  BY <1>1 DEF Without

(* A lock is released.  When nothing is tried, another lock has the group  *)
(* mode, and what only the lock of l excluded, an LK_X for its LK_IS, the  *)
(* granted lock at the head of the grant queue excludes as well.           *)
LEMMA UnlockGrantedAlert ==
  ASSUME NEW r, Alert(r), NEW l \in Lists, r.state[l] = "granted"
  PROVE  Alert(UnlockGranted(r, l))
<1> DEFINE rest == Removed(r, l)
           g == GroupMode(rest, {})
           u == UnlockGranted(r, l)
           head == Head(rest.grant_q)
<1>1. /\ Level(r) /\ Led(r) /\ r \in RsbType /\ r \in QueuedRsb
      /\ \A h \in Holders(r) : r.grant[h] \in Plain
  BY LevelGroup DEF Alert
<1>2. l \in Holders(r) /\ l \notin Converters(r) /\ l \notin Waiters(r)
  BY DEF Holders, Converters, Waiters
<1>3. /\ rest \in QueuedRsb /\ rest \in SoundRsb /\ rest \in RsbType
      /\ Holders(rest) = Holders(r) \ {l} /\ Waiters(rest) = Waiters(r) \ {l}
      /\ Converters(rest) = Converters(r) \ {l}
      /\ \A k \in Lists \ {l} : SameLkb(r, rest, k)
      /\ rest.grant_mode = r.grant_mode /\ rest.convert_mode = r.convert_mode
      /\ rest.grant_q = Without(r.grant_q, l)
      /\ rest.wait_q = Without(r.wait_q, l)
      /\ \A v \in QueuedRsb :
            SameLocks(rest, v) /\ Tops(rest, {}, v.grant_mode) => Level(v)
  BY <1>1, RestAlert
<1>4. u = IF Holders(rest) = {}
            THEN IF Waiters(rest) = {}
                   THEN [SetMode(rest, N) EXCEPT !.allocated = FALSE]
                   ELSE TryWait(rest, N)
            ELSE IF \/ rest.state[head] # "granted"
                    \/ r.grant[l] = r.convert_mode
                   THEN TryConvert(rest, g)
                   ELSE rest
  BY DEF UnlockGranted
<1>5. /\ rest.wait_q = r.wait_q /\ LinksOnce(rest.wait_q, Waiters(rest))
      /\ Waiters(rest) = Waiters(r) /\ Converters(rest) = Converters(r)
  BY <1>1, <1>2, <1>3, WithoutNone DEF QueuedRsb
<1> HIDE DEF rest, g, u, head
<1>6. CASE Holders(rest) = {}
  <2>1. /\ SetMode(rest, N) \in SoundRsb
        /\ [SetMode(rest, N) EXCEPT !.allocated = FALSE] \in SoundRsb
    BY <1>3, <1>5, <1>6, UnheldSound
  <2>2. Converters(rest) = {} /\ Tops(rest, {}, N)
    BY <1>6 DEF Holders, Converters, Tops
  <2>3. CASE Waiters(rest) = {}
    <3>1. u \in SoundRsb /\ u = [SetMode(rest, N) EXCEPT !.allocated = FALSE]
      BY <1>4, <1>6, <2>1, <2>3
    <3>2. SameLocks(rest, u) /\ u.grant_mode = N /\ u.convert_mode = N
      BY <1>3, <1>5, <3>1 DEF SameLocks, SetMode, RsbType
    <3>3. u \in QueuedRsb
      BY <1>3, <1>5, <3>1, <3>2, SameLocksQueued
    <3>4. Level(u) /\ Led(u)
      BY <1>3, <1>5, <2>2, <3>2, <3>3 DEF Led
    <3>5. Converters(u) = {}
      BY <2>2, <3>2 DEF SameLocks, Converters
    <3>6. u.wait_q = <<>>
      BY <1>5, <2>3, <3>2, HeadFirst DEF SameLocks
    <3> QED
      BY <3>4, <3>5, <3>6 DEF Alert, ConvertersTried, Foremost, WaitersTried, u
  <2>4. CASE Waiters(rest) # {}
    <3>1. /\ SameLocks(rest, SetMode(rest, N)) /\ SetMode(rest, N).grant_mode = N
          /\ SetMode(rest, N) \in QueuedRsb
      BY <1>3, <1>5, <2>1, SetModeLocks, SameLocksQueued
    <3>2. Level(SetMode(rest, N))
      BY <1>3, <1>5, <2>2, <3>1
    <3> QED
      BY <1>3, <1>5, <1>4, <1>6, <2>2, <2>4, <3>2, TryWaitAlert DEF u
  <2> QED
    BY <2>3, <2>4
<1>7. CASE /\ Holders(rest) # {}
           /\ rest.state[head] # "granted" \/ r.grant[l] = r.convert_mode
  <2>1. /\ SameLocks(rest, SetMode(rest, g)) /\ SetMode(rest, g).grant_mode = g
        /\ SetMode(rest, g) \in QueuedRsb
    BY <1>3, <1>5, RecomputedSound, SetModeLocks, SameLocksQueued DEF g
  <2>2. Tops(rest, {}, g)
    BY <1>3, <1>5, GroupModeTops DEF g
  <2>3. Level(SetMode(rest, g))
    BY <1>3, <1>5, <2>1, <2>2
  <2> QED
    BY <1>3, <1>5, <1>4, <1>7, <2>3, TryConvertAlert DEF u
<1>8. CASE /\ Holders(rest) # {}
           /\ rest.state[head] = "granted" /\ r.grant[l] # r.convert_mode
  <2>1. /\ \E h \in Holders(r) \ {l} : r.grant[h] = r.grant_mode
        /\ r.grant[l] \in {N, IS}
    BY <1>1, <1>8, NotLeading
  <2>2. \A h \in Holders(r) \ {l} : rest.grant[h] = r.grant[h]
    BY <1>3, <1>5 DEF SameLkb, Holders
  <2>3. \A c \in Converters(r) :
           c \in Lists \ {l} /\ rest.request[c] = r.request[c]
           /\ rest.search[c] = r.search[c] /\ rest.grant[c] = r.grant[c]
    BY <1>2, <1>3, <1>5 DEF SameLkb, Converters
  <2>4. Tops(rest, {}, rest.grant_mode)
    BY <1>1, <1>3, <1>5, <2>1, <2>2 DEF Level, Tops
  <2>5. Level(rest)
    BY <1>3, <1>5, <2>4 DEF SameLocks
  <2>6. Led(rest)
    BY <1>1, <1>3, <1>5, <2>2, <2>3 DEF Led
  <2>7. head \in Holders(r) \ {l} /\ head \notin Converters(r)
    <3>1. LinksOnce(rest.grant_q, Holders(rest))
      BY <1>3, <1>5 DEF QueuedRsb
    <3>2. rest.grant_q # <<>>
      BY <1>8, <3>1 DEF LinksOnce
    <3>3. head \in Holders(rest)
      BY <3>1, <3>2, HeadFirst DEF head
    <3>4. head \notin Converters(rest)
      BY <1>8 DEF Converters
    <3> QED
      BY <1>3, <1>5, <3>3, <3>4
  <2>8. ASSUME N \notin Wanted, NEW c \in Converters(r), Excluded(r, c)
        PROVE  Excluded(rest, c)
    <3>1. PICK h \in Holders(r) \ {c} : ~Compatible(r.grant[h], r.request[c])
      BY <2>8 DEF Excluded
    <3>2. r.request[c] \in Plain
      BY <1>1 DEF Level, PlainModes
    <3>3. CASE h # l
      BY <1>3, <1>5, <2>2, <2>3, <3>1, <3>3 DEF Excluded
    <3>4. CASE h = l
      <4>1. /\ r.grant[l] \in Known /\ r.grant[l] = IS
            /\ r.grant[head] \in Known /\ r.grant[head] # N
        BY <1>1, <1>2, <2>1, <2>7, <2>8 DEF Plain, Known
      <4>2. r.request[c] = X
        BY <3>1, <3>2, <3>4, <4>1, PlainTable DEF Known
      <4>3. ~Compatible(r.grant[head], r.request[c])
        BY <3>2, <4>1, <4>2, PlainTable DEF Known
      <4>4. head \in Holders(rest) \ {c} /\ rest.grant[head] = r.grant[head]
        BY <1>3, <1>5, <2>2, <2>7
      <4> QED
        BY <2>3, <4>3, <4>4 DEF Excluded
    <3> QED
      BY <3>3, <3>4
  <2>9. ConvertersTried(rest)
    <3>1. \A x, y \in Converters(r) :
             Behind(r.grant_q, x, y) => Behind(rest.grant_q, x, y)
      <4>1. LinksOnce(r.grant_q, Holders(r))
        BY <1>1 DEF QueuedRsb
      <4>2. \A x, y : /\ Behind(r.grant_q, x, y) /\ x # l /\ y # l
                      => Behind(Without(r.grant_q, l), x, y)
        BY <4>1, WithoutLinks
      <4> QED
        BY <1>2, <1>3, <1>5, <4>2
    <3> QED
      BY <1>3, <1>5, <2>3, <2>8, <3>1, TriedStays DEF Alert
  <2>10. WaitersTried(rest)
    <3>1. r.wait_q # <<>> => Head(r.wait_q) \in Lists \ {l}
      BY <1>2, <1>3, <1>5, HeadFirst DEF Waiters
    <3> QED
      BY <1>3, <1>5, <3>1 DEF Alert, WaitersTried, Fits, SameLkb
  <2> QED
    BY <1>4, <1>8, <2>5, <2>6, <2>9, <2>10 DEF Alert, u
<1> QED
  BY <1>6, <1>7, <1>8

(* A waiting request is taken back, and who waited behind it is tried.     *)
LEMMA UnlockWaitingAlert ==
  ASSUME NEW r, Alert(r), NEW l \in Lists, r.state[l] = "waiting"
  PROVE  Alert(UnlockWaiting(r, l))
<1> DEFINE rest == Removed(r, l)
           v == [rest EXCEPT !.convert_mode = rest.grant_mode]
           u == UnlockWaiting(r, l)
<1>1. /\ Level(r) /\ r \in RsbType /\ r \in QueuedRsb
      /\ Holders(r) \subseteq Lists /\ Converters(r) \subseteq Lists
  BY LevelGroup DEF Alert, Holders, Converters
<1>2. l \notin Holders(r) /\ l \notin Converters(r)
  BY DEF Holders, Converters
<1>3. /\ rest \in QueuedRsb /\ rest \in SoundRsb /\ rest \in RsbType
      /\ Holders(rest) = Holders(r) \ {l} /\ Waiters(rest) = Waiters(r) \ {l}
      /\ Converters(rest) = Converters(r) \ {l}
      /\ \A k \in Lists \ {l} : SameLkb(r, rest, k)
      /\ rest.grant_mode = r.grant_mode /\ rest.convert_mode = r.convert_mode
      /\ rest.grant_q = Without(r.grant_q, l)
      /\ rest.wait_q = Without(r.wait_q, l)
      /\ \A w \in QueuedRsb :
            SameLocks(rest, w) /\ Tops(rest, {}, w.grant_mode) => Level(w)
  BY <1>1, RestAlert
<1>4. u = IF Waiters(rest) # {} /\ Converters(rest) = {}
            THEN TryWait(rest, rest.grant_mode) ELSE v
  BY DEF UnlockWaiting
<1>5. /\ SameLocks(rest, v) /\ v.grant_mode = rest.grant_mode
      /\ v.convert_mode = rest.grant_mode /\ v \in RsbType
  BY <1>3 DEF SameLocks, RsbType
<1> HIDE DEF rest, v, u
<1>6. /\ Holders(rest) = Holders(r) /\ Converters(rest) = Converters(r)
      /\ rest.grant_q = r.grant_q
      /\ LinksOnce(rest.wait_q, Waiters(rest))
      /\ \A k \in Holders(r) \cup Converters(r) : SameLkb(r, rest, k)
  BY <1>1, <1>2, <1>3, WithoutNone DEF QueuedRsb
<1>7. Tops(rest, {}, rest.grant_mode)
  BY <1>1, <1>3, <1>6 DEF Level, Tops, SameLkb
<1>8. CASE Waiters(rest) # {} /\ Converters(rest) = {}
  <2>1. Level(rest)
    BY <1>3, <1>7 DEF SameLocks
  <2>2. Level(SetMode(rest, rest.grant_mode))
    BY <2>1, SameModeLevel
  <2> QED
    BY <1>3, <1>4, <1>8, <2>2, TryWaitAlert DEF u
<1>9. CASE ~(Waiters(rest) # {} /\ Converters(rest) = {})
  <2>1. v \in QueuedRsb
    <3>1. v \in SoundRsb
      BY <1>3, <1>5, RelinkedSound DEF SameLocks
    <3> QED
      BY <1>3, <1>5, <3>1, SameLocksQueued
  <2>2. Level(v) /\ Led(v)
    BY <1>3, <1>5, <1>7, <2>1 DEF Led
  <2>3. /\ Holders(v) = Holders(r) /\ Converters(v) = Converters(r)
        /\ v.grant_q = r.grant_q /\ v.wait_q = rest.wait_q
        /\ \A h \in Holders(r) : v.grant[h] = r.grant[h]
        /\ \A c \in Converters(r) : /\ v.request[c] = r.request[c]
                                    /\ v.search[c] = r.search[c]
    BY <1>5, <1>6 DEF SameLocks, SameLkb, Holders, Converters
  <2>4. \A c \in Converters(r) : Excluded(r, c) => Excluded(v, c)
    BY <2>3 DEF Excluded
  <2>5. ConvertersTried(v)
    BY <2>3, <2>4, TriedStays DEF Alert
  <2>6. WaitersTried(v)
    <3>1. Waiters(rest) = {} => rest.wait_q = <<>>
      BY <1>6, HeadFirst
    <3> QED
      BY <1>6, <1>9, <2>3, <3>1 DEF WaitersTried
  <2> QED
    BY <1>4, <1>9, <2>2, <2>5, <2>6 DEF Alert, u
<1> QED
  BY <1>8, <1>9

(* A conversion is taken back, and the queues are served.                  *)
LEMMA CancelConvertAlert ==
  ASSUME NEW r, Alert(r), NEW l \in Lists, r.state[l] = "convert"
  PROVE  Alert(CancelConvert(r, l))
<1> DEFINE back == Back(r, l)
<1>1. /\ Level(r) /\ r \in RsbType /\ r \in QueuedRsb
      /\ \A h \in Holders(r) : r.grant[h] \in Plain
  BY LevelGroup DEF Alert
<1>2. /\ back \in QueuedRsb /\ back \in RsbType
      /\ back.state = [r.state EXCEPT ![l] = "granted"]
      /\ back.request = [r.request EXCEPT ![l] = r.grant[l]]
      /\ back.grant = r.grant /\ back.grant_mode = r.grant_mode
      /\ Holders(back) = Holders(r) /\ Waiters(back) = Waiters(r)
  BY <1>1, BackQueued
<1>3. CancelConvert(r, l) = TryConvert(back, back.grant_mode)
  BY DEF CancelConvert, Back
<1> HIDE DEF back
<1>4. Converters(back) \subseteq Converters(r)
  BY <1>1, <1>2 DEF Converters, RsbType
<1>5. /\ \A k \in Lists \ {l} : back.request[k] = r.request[k]
      /\ l \notin Converters(back) /\ l \notin Waiters(back)
      /\ Converters(back) \subseteq Lists /\ Waiters(back) \subseteq Lists
  BY <1>1, <1>2 DEF Converters, Waiters, RsbType
<1>6. PlainModes(back)
  BY <1>1, <1>2, <1>4, <1>5 DEF Level, PlainModes
<1>7. Level(back)
  BY <1>1, <1>2, <1>6 DEF Level, Tops
<1> QED
  BY <1>2, <1>3, <1>7, SameModeLevel, TryConvertAlert

LEMMA FreshAlert == Alert(FreshRsb)
<1>1. /\ FreshRsb.grant_mode = N /\ FreshRsb.convert_mode = N
      /\ FreshRsb.wait_q = <<>> /\ Holders(FreshRsb) = {}
      /\ Waiters(FreshRsb) = {} /\ Converters(FreshRsb) = {}
  BY DEF FreshRsb, Holders, Waiters, Converters
<1> QED
  BY <1>1, FreshQueued
     DEF Alert, Level, PlainModes, Tops, Led, ConvertersTried, Foremost, WaitersTried

-------------------------------------------------------------------------------
(* The inductive invariant.                                                *)

LEMMA NextAlert ==
  ASSUME U \notin Wanted, Alert(rsb), [Next]_vars
  PROVE  Alert(rsb')
<1> USE DEF Plain
<1>1. rsb \in QueuedRsb /\ rsb \in RsbType
  BY LevelGroup DEF Alert
<1>2. ASSUME NEW l \in Lists, NEW m \in Wanted,
             RequestGranted(l, m) \/ RequestWaits(l, m)
      PROVE  Alert(rsb')
  BY <1>2, GrantNewAlert, QueueNewAlert
     DEF RequestGranted, RequestWaits, NewGranted, NewWaits
<1>3. ASSUME NEW l \in Lists, NEW m \in Wanted,
             ConvertGranted(l, m) \/ ConvertWaits(l, m)
      PROVE  Alert(rsb')
  BY <1>3, GrantConvertAlert, QueueConvertAlert
     DEF ConvertGranted, ConvertWaits, Converted, ConversionWaits, Converts
<1>4. ASSUME NEW l \in Lists, NEW m \in Wanted,
             ConvertBusy(l, m) \/ ConvertRefused(l, m)
      PROVE  Alert(rsb')
  <2>1. /\ rsb.state[l] = "granted" /\ m \in Modes /\ rsb.grant[l] \in Modes
        /\ \E n \in Modes : rsb' = [rsb EXCEPT !.request[l] = n]
    BY <1>1, <1>4, ListsAssumption
       DEF ConvertBusy, ConvertRefused, ConversionRefused, Converts, RsbType
  <2>2. PICK n \in Modes : rsb' = [rsb EXCEPT !.request[l] = n]
    BY <2>1
  <2> DEFINE u == [rsb EXCEPT !.request[l] = n]
  <2>3. u \in QueuedRsb
    BY <1>1, <2>1, RequestMoves DEF Moves
  <2>4. /\ u.state = rsb.state /\ u.grant = rsb.grant
        /\ u.grant_q = rsb.grant_q /\ u.wait_q = rsb.wait_q
        /\ u.grant_mode = rsb.grant_mode /\ u.convert_mode = rsb.convert_mode
        /\ u.search = rsb.search
        /\ \A k \in Lists \ {l} : u.request[k] = rsb.request[k]
    BY <1>1 DEF RsbType
  <2> HIDE DEF u
  <2>5. Waiters(rsb) \cup Converters(rsb) \subseteq Lists \ {l}
    BY <2>1 DEF Waiters, Converters
  <2>6. Alert(u)
    BY <2>3, <2>4, <2>5, StillAlert
  <2> QED
    BY <2>2, <2>6 DEF u
<1>5. ASSUME NEW l \in Lists, Release(l)
      PROVE  Alert(rsb')
  BY <1>5, UnlockGrantedAlert DEF Release, Unlocked
<1>6. ASSUME NEW l \in Lists, CancelWaiting(l)
      PROVE  Alert(rsb')
  BY <1>6, UnlockWaitingAlert DEF CancelWaiting, WaitCancelled
<1>7. ASSUME NEW l \in Lists, CancelConversion(l)
      PROVE  Alert(rsb')
  BY <1>7, CancelConvertAlert DEF CancelConversion, ConversionCancelled
<1>8. ASSUME NEW l \in Lists, NEW victim \in BOOLEAN, DeadlockSearch(l, victim)
      PROVE  Alert(rsb')
  <2> DEFINE found == IF victim THEN "dead" ELSE "off"
             u == [rsb EXCEPT !.search[l] = found]
  <2>1. rsb.search[l] = "listed" /\ rsb' = u /\ found \in {"off", "dead"}
    BY <1>8 DEF DeadlockSearch, Searched
  <2> HIDE DEF found
  <2>2. u \in QueuedRsb
    BY <1>1, <2>1, SearchMoves DEF Moves
  <2>3. /\ u.state = rsb.state /\ u.grant = rsb.grant
        /\ u.grant_q = rsb.grant_q /\ u.wait_q = rsb.wait_q
        /\ u.grant_mode = rsb.grant_mode /\ u.convert_mode = rsb.convert_mode
        /\ u.request = rsb.request
        /\ \A k \in Lists \ {l} : u.search[k] = rsb.search[k]
    BY <1>1 DEF RsbType
  <2> HIDE DEF u
  <2>4. \A k \in Lists : rsb.search[k] = "dead" => u.search[k] = "dead"
    BY <2>1, <2>3
  <2>5. Alert(u)
    BY <2>2, <2>3, <2>4, StillAlert
  <2> QED
    BY <2>1, <2>5
<1>9. ASSUME NEW l \in Lists, Orphan(l) \/ Adopt(l) \/ ListEnds(l)
      PROVE  Alert(rsb')
  BY <1>9 DEF Orphan, Adopt, ListEnds
<1>10. ASSUME UNCHANGED vars PROVE Alert(rsb')
  BY <1>10 DEF vars
<1> QED
  BY <1>2, <1>3, <1>4, <1>5, <1>6, <1>7, <1>8, <1>9, <1>10 DEF Next

LEMMA StaysAlert ==
  ASSUME U \notin Wanted
  PROVE  Spec => []Alert(rsb)
<1>1. Init => Alert(rsb)
  BY FreshAlert DEF Init
<1>2. Alert(rsb) /\ [Next]_vars => Alert(rsb)'
  BY NextAlert
<1> QED
  BY <1>1, <1>2, PTL DEF Spec

-------------------------------------------------------------------------------
(* The conversion that FirstConverter names is the first on its queue.     *)
LEMMA FirstIsForemost ==
  ASSUME rsb \in QueuedRsb, Converters(rsb) # {}
  PROVE  FirstConverter \in Lists /\ Foremost(rsb, FirstConverter)
<1> DEFINE q == rsb.grant_q
           n == Len(q)
           T == {i \in Nat : i \in 1..n /\ rsb.state[q[i]] = "convert"}
           First(i) == /\ rsb.state[q[i]] = "convert"
                       /\ \A j \in 1..(i - 1) : rsb.state[q[j]] # "convert"
           at == CHOOSE i \in DOMAIN q : First(i)
<1>1. /\ LinksOnce(q, Holders(rsb)) /\ n \in Nat /\ DOMAIN q = 1..n
      /\ \A i \in 1..n : q[i] \in Lists
  BY DEF QueuedRsb, LinksOnce
<1>2. T # {}
  <2>1. PICK c \in Lists : rsb.state[c] = "convert"
    BY DEF Converters
  <2>2. c \in Holders(rsb)
    BY <2>1 DEF Holders
  <2>3. PICK i \in 1..n : q[i] = c
    BY <1>1, <2>2 DEF LinksOnce
  <2> QED
    BY <1>1, <2>1, <2>3
<1>3. PICK k \in T : \A i \in T : <<i, k>> \notin LessRel
  <2>1. T \subseteq Nat
    OBVIOUS
  <2> HIDE DEF T
  <2> QED
    BY <1>2, <2>1, LessWF, WFMin
<1>4. k \in DOMAIN q /\ First(k)
  <2>1. ASSUME NEW j \in 1..(k - 1) PROVE rsb.state[q[j]] # "convert"
    <3>1. j \in Nat /\ j \in 1..n /\ k \in Nat /\ j < k
      BY <1>1
    <3>2. <<j, k>> \in LessRel
      BY <3>1 DEF LessRel, OpToRel
    <3> QED
      BY <1>3, <3>1, <3>2
  <2> QED
    BY <1>1, <2>1
<1>5. at \in DOMAIN q /\ First(at)
  BY <1>4
<1>6. FirstConverter = q[at]
  BY DEF FirstConverter
<1> HIDE DEF at
<1>7. q[at] \in Converters(rsb)
  BY <1>1, <1>5 DEF Converters
<1>8. ASSUME NEW x \in Converters(rsb), Behind(q, x, q[at]) PROVE FALSE
  <2>1. PICK i \in DOMAIN q, j \in DOMAIN q : i < j /\ q[i] = x /\ q[j] = q[at]
    BY <1>8 DEF Behind
  <2>2. j = at
    BY <1>1, <1>5, <2>1 DEF LinksOnce
  <2>3. i \in 1..(at - 1)
    BY <1>1, <1>5, <2>1, <2>2
  <2> QED
    BY <1>5, <1>8, <2>1, <2>3 DEF Converters
<1> QED
  BY <1>1, <1>5, <1>6, <1>7, <1>8 DEF Foremost

-------------------------------------------------------------------------------
(* rsb_grant_mode is the highest mode held, after any sequence of grants,  *)
(* conversions, cancellations and releases, not an older, stronger one.    *)
THEOREM GroupModeIsSummary ==
  ASSUME U \notin Wanted
  PROVE  Spec => []SummaryGrantMode
<1>1. Alert(rsb) => SummaryGrantMode
  BY LevelGroup, GroupModeTops DEF Alert, Level, SummaryGrantMode
<1> QED
  BY StaysAlert, <1>1, PTL

(* No lost wakeup on the wait queue: whatever ended, the first request is  *)
(* excluded by a lock that is held, waits behind a conversion, or is the   *)
(* victim of a deadlock.                                                   *)
THEOREM WaitersAreTried ==
  ASSUME U \notin Wanted
  PROVE  Spec => []NoMissedGrant
<1>1. Alert(rsb) => NoMissedGrant
  <2> DEFINE first == Head(rsb.wait_q)
  <2> SUFFICES ASSUME Alert(rsb), Converters(rsb) = {}, Waiters(rsb) # {}
               PROVE  \/ rsb.search[first] = "dead"
                      \/ ~Compatible(GroupMode(rsb, {}), rsb.request[first])
    BY DEF NoMissedGrant
  <2>1. rsb.wait_q # <<>>
    BY LevelGroup DEF Alert, QueuedRsb, LinksOnce
  <2>2. GroupMode(rsb, {}) = rsb.grant_mode
    BY LevelGroup, GroupModeTops DEF Alert, Level
  <2> QED
    BY <2>1, <2>2 DEF Alert, WaitersTried, Fits
<1> QED
  BY StaysAlert, <1>1, PTL

(* No lost wakeup on the convert queue: while no deadlock victim is to be  *)
(* cleaned up, the first conversion is excluded by a lock of another list. *)
THEOREM ConvertersAreTried ==
  ASSUME U \notin Wanted, N \notin Wanted
  PROVE  Spec => []NoMissedConversion
<1>1. Alert(rsb) => NoMissedConversion
  <2> DEFINE c == FirstConverter
  <2> SUFFICES ASSUME Alert(rsb), Converters(rsb) # {},
                      \A l \in Lists : rsb.search[l] # "dead"
               PROVE  ~Compatible(GroupMode(rsb, {c}), rsb.request[c])
    BY DEF NoMissedConversion
  <2>1. Level(rsb) /\ rsb \in QueuedRsb
    BY LevelGroup DEF Alert
  <2>2. c \in Lists /\ Foremost(rsb, c)
    BY <2>1, FirstIsForemost
  <2> HIDE DEF c
  <2>3. Excluded(rsb, c)
    BY <2>2 DEF Alert, ConvertersTried, NoVictims, Converters
  <2>4. rsb.request[c] \in Plain
    BY <2>1, <2>2 DEF Foremost, Level, PlainModes
  <2> QED
    BY <2>1, <2>2, <2>3, <2>4, GroupExcludes DEF c
<1> QED
  BY StaysAlert, <1>1, PTL
=============================================================================
