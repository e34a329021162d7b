------------------------- MODULE ResourceBlock_proofs -------------------------
(***************************************************************************)
(* Proofs about ResourceBlock for any set of lock lists: what each handler *)
(* keeps and what it does to the locks of other lists.                     *)
(***************************************************************************)
EXTENDS ResourceBlock, SequenceTheorems, FiniteSetTheorems, NaturalsInduction,
        WellFoundedInduction, TLAPS

-------------------------------------------------------------------------------
(* Induction over the natural numbers, for sets.                           *)

LessRel == {p \in Nat \X Nat : p[1] < p[2]}

LEMMA LessWF == IsWellFoundedOn(LessRel, Nat)
  BY NatLessThanWellFounded DEF LessRel, OpToRel

(* A set with 0 and the successor of each of its members holds every       *)
(* natural number.                                                         *)
LEMMA SetInduction ==
  ASSUME NEW T, 0 \in T, \A n \in Nat : n \in T => n + 1 \in T
  PROVE  Nat \subseteq T
<1>1. SUFFICES ASSUME Nat \ T # {} PROVE FALSE
  OBVIOUS
<1>2. PICK x \in Nat \ T : \A y \in Nat \ T : ~(<<y, x>> \in LessRel)
  BY LessWF, WFMin, <1>1
<1>3. x # 0
  BY <1>2
<1>4. x - 1 \in Nat /\ x - 1 < x
  BY <1>2, <1>3
<1>5. x - 1 \in T
  BY <1>2, <1>4 DEF LessRel
<1> QED
  BY <1>2, <1>4, <1>5

(* A property of the first entry that each entry hands to the next holds   *)
(* of all of them.                                                         *)
LEMMA ScanInduction ==
  ASSUME NEW R, NEW n \in Nat, NEW g, g[0] \in R,
         \A i \in 1..n : g[i - 1] \in R => g[i] \in R
  PROVE  \A i \in 0..n : g[i] \in R
<1> DEFINE T == {k \in Nat : k <= n => g[k] \in R}
<1>1. 0 \in T
  OBVIOUS
<1>2. ASSUME NEW k \in Nat, k \in T PROVE k + 1 \in T
  <2>1. SUFFICES ASSUME k + 1 <= n PROVE g[k + 1] \in R
    OBVIOUS
  <2>2. g[k] \in R /\ k + 1 \in 1..n /\ (k + 1) - 1 = k
    BY <1>2, <2>1
  <2> QED
    BY <2>2
<1> HIDE DEF T
<1>3. Nat \subseteq T
  BY <1>1, <1>2, SetInduction
<1> QED
  BY <1>3 DEF T

(* A scan of n entries from base, each computed from the one before, exists. *)
HasScan(R, n, base, f) ==
  \E g \in [0..n -> R] :
     g[0] = base /\ \A i \in 1..n : g[i] = f[<<i, g[i - 1]>>]

LEMMA ScanExists ==
  ASSUME NEW R, NEW n \in Nat, NEW base \in R, NEW f \in [(1..n) \X R -> R]
  PROVE  HasScan(R, n, base, f)
<1> DEFINE Good(k, g) ==
             g[0] = base /\ \A i \in 1..k : g[i] = f[<<i, g[i - 1]>>]
           T == {k \in Nat : k <= n => \E g \in [0..k -> R] : Good(k, g)}
<1>1. 0 \in T
  <2>1. [i \in 0..0 |-> base] \in [0..0 -> R] /\ Good(0, [i \in 0..0 |-> base])
    OBVIOUS
  <2> QED
    BY <2>1
<1>2. ASSUME NEW k \in Nat, k \in T PROVE k + 1 \in T
  <2>1. SUFFICES ASSUME k + 1 <= n
                 PROVE \E g \in [0..(k + 1) -> R] : Good(k + 1, g)
    OBVIOUS
  <2>2. PICK g \in [0..k -> R] : Good(k, g)
    BY <1>2, <2>1
  <2> DEFINE h == [i \in 0..(k + 1) |->
                     IF i <= k THEN g[i] ELSE f[<<k + 1, g[k]>>]]
  <2>3. f[<<k + 1, g[k]>>] \in R
    BY <2>1
  <2>4. h \in [0..(k + 1) -> R]
    BY <2>3
  <2>5. h[0] = base
    BY <2>2
  <2>6. ASSUME NEW i \in 1..(k + 1) PROVE h[i] = f[<<i, h[i - 1]>>]
    <3>1. CASE i \in 1..k
      <4>1. h[i] = g[i] /\ h[i - 1] = g[i - 1]
        BY <3>1
      <4> QED
        BY <4>1, <2>2, <3>1
    <3>2. CASE i = k + 1
      <4>1. h[i] = f[<<i, g[k]>>] /\ h[i - 1] = g[k]
        BY <3>2
      <4> QED
        BY <4>1
    <3> QED
      BY <3>1, <3>2
  <2> QED
    BY <2>4, <2>5, <2>6
<1> HIDE DEF T
<1>3. Nat \subseteq T
  BY <1>1, <1>2, SetInduction
<1> QED
  BY <1>3 DEF T, HasScan

-------------------------------------------------------------------------------
(* The mode table.                                                         *)

(* A group mode g stands for a lock held in mode h.                        *)
Under(h, g) == h <= g /\ (g = S => h # IX)

(* What the group mode admits may be held beside every mode it stands for, *)
(* and the group mode that results stands for the old and the new lock.    *)
LEMMA GroupAdmits ==
  ASSUME NEW g \in Modes, NEW h \in Modes, NEW m \in Modes,
         Under(h, g), Compatible(g, m)
  PROVE  /\ Coexist(h, m) /\ Coexist(m, h)
         /\ Under(h, Higher(g, m)) /\ Under(m, Higher(g, m))
         /\ Higher(g, m) \in Modes
<1> USE DEF Modes, N, IS, IX, S, SIX, U, X
<1>1. CASE g \in {N, IS, IX}
  BY <1>1 DEF Under, Compatible, CompatibleWith, Coexist, Higher
<1>2. CASE g = S
  BY <1>2 DEF Under, Compatible, CompatibleWith, Coexist, Higher
<1>3. CASE g \in {SIX, U, X}
  BY <1>3 DEF Under, Compatible, CompatibleWith, Coexist, Higher
<1> QED
  BY <1>1, <1>2, <1>3

LEMMA NullMode == N \in Modes
  BY DEF N, Modes

(* LK_S and LK_IX exclude each other.                                      *)
LEMMA SharedExcludesIX == ~Coexist(S, IX) /\ ~Coexist(IX, S)
  BY DEF Coexist, Compatible, CompatibleWith, Modes, N, IS, IX, S, SIX, U, X

(* The highest of a set of modes is one of them and bounds them.           *)
LEMMA HighestBounds ==
  ASSUME NEW ms \in SUBSET Modes
  PROVE  /\ Highest(ms) \in ms \cup {N}
         /\ \A n \in ms : n <= Highest(ms)
<1>1. \E m \in ms \cup {N} : \A n \in ms : n <= m
  <2> USE DEF Modes, N
  <2>1. CASE 6 \in ms
    BY <2>1
  <2>2. CASE 6 \notin ms /\ 5 \in ms
    BY <2>2
  <2>3. CASE 6 \notin ms /\ 5 \notin ms /\ 4 \in ms
    BY <2>3
  <2>4. CASE 6 \notin ms /\ 5 \notin ms /\ 4 \notin ms /\ 3 \in ms
    BY <2>4
  <2>5. CASE ms \subseteq 0..2 /\ 2 \in ms
    BY <2>5
  <2>6. CASE ms \subseteq 0..1
    BY <2>6
  <2> QED
    BY <2>1, <2>2, <2>3, <2>4, <2>5, <2>6
<1> QED
  BY <1>1 DEF Highest

-------------------------------------------------------------------------------
(* Sound resource blocks.                                                  *)

SoundRsb ==
  {r \in RsbType : Quiet(r) /\ Covered(r) /\ CompatibleHolders(r)}

(* The group mode found by scanning the grant queue stands for the locks   *)
(* on it.                                                                  *)
LEMMA GroupModeStands ==
  ASSUME NEW r \in RsbType, CompatibleHolders(r), NEW ex
  PROVE  /\ GroupMode(r, ex) \in Modes
         /\ \A h \in Holders(r) \ ex : Under(r.grant[h], GroupMode(r, ex))
<1> DEFINE ms == {r.grant[h] : h \in Holders(r) \ ex}
           g  == Highest(ms)
<1>1. ms \in SUBSET Modes
  BY DEF RsbType, Holders
<1>2. g \in ms \cup {N} /\ \A n \in ms : n <= g
  BY <1>1, HighestBounds
<1>3. g \in Modes
  BY <1>1, <1>2 DEF Modes, N
<1>4. ASSUME NEW h \in Holders(r) \ ex PROVE Under(r.grant[h], g)
  <2>1. r.grant[h] <= g
    BY <1>2
  <2>2. ASSUME g = S, r.grant[h] = IX PROVE FALSE
    <3>1. PICK k \in Holders(r) \ ex : r.grant[k] = S
      BY <1>2, <2>2 DEF S, N
    <3>2. h # k
      BY <2>2, <3>1 DEF S, IX
    <3>3. Coexist(IX, S)
      BY <2>2, <3>1, <3>2 DEF CompatibleHolders
    <3> QED
      BY <3>3, SharedExcludesIX
  <2> QED
    BY <2>1, <2>2 DEF Under
<1> HIDE DEF ms
<1> QED
  BY <1>3, <1>4 DEF GroupMode, ms

(* Taking locks away, or moving lock blocks about, keeps a resource block  *)
(* sound when its group mode still stands for the locks that remain.       *)
LEMMA KeepsSound ==
  ASSUME NEW r \in SoundRsb, NEW t \in RsbType, Quiet(t),
         Holders(t) \subseteq Holders(r),
         \A h \in Holders(t) :
            t.grant[h] = r.grant[h] /\ Under(t.grant[h], t.grant_mode)
  PROVE  t \in SoundRsb
  BY DEF SoundRsb, Covered, CompatibleHolders, Under

(* Granting l a mode that a group mode of the other locks admits.          *)
LEMMA ExtendsSound ==
  ASSUME NEW r \in SoundRsb, NEW t \in RsbType, Quiet(t),
         NEW l \in Lists, NEW g \in Modes, NEW m \in Modes,
         \A h \in Holders(r) \ {l} : Under(r.grant[h], g),
         Compatible(g, m),
         Holders(t) \subseteq Holders(r) \cup {l},
         t.grant[l] = m,
         \A h \in Holders(t) \ {l} : t.grant[h] = r.grant[h],
         t.grant_mode = Higher(g, m)
  PROVE  t \in SoundRsb
<1>1. \A h \in Holders(r) : r.grant[h] \in Modes
  BY DEF SoundRsb, RsbType, Holders
<1>2. ASSUME NEW h \in Holders(t), h # l
      PROVE  /\ Coexist(t.grant[h], m) /\ Coexist(m, t.grant[h])
             /\ Under(t.grant[h], Higher(g, m))
  BY <1>1, <1>2, GroupAdmits
<1>3. Under(m, Higher(g, m))
  <2>1. N \in Modes /\ Under(N, g)
    BY DEF Under, Modes, N, IX
  <2> QED
    BY <2>1, GroupAdmits
<1>4. Covered(t)
  BY <1>2, <1>3 DEF Covered, Under
<1>5. CompatibleHolders(t)
  BY <1>2 DEF SoundRsb, CompatibleHolders
<1> QED
  BY <1>4, <1>5 DEF SoundRsb

-------------------------------------------------------------------------------
(* The queue operations.                                                   *)

LEMMA PartType ==
  ASSUME NEW q \in Seq(Lists), NEW i \in Int, NEW j \in Int, 1 <= i, j <= Len(q)
  PROVE  SubSeq(q, i, j) \in Seq(Lists)
<1>1. \A k \in i..j : q[k] \in Lists
  OBVIOUS
<1> QED
  BY <1>1, SubSeqProperties

LEMMA WithoutType ==
  ASSUME NEW q \in Seq(Lists), NEW l \in Lists
  PROVE  Without(q, l) \in Seq(Lists)
<1> DEFINE at == CHOOSE i \in DOMAIN q : q[i] = l
<1>1. CASE l \in {q[i] : i \in DOMAIN q}
  <2>1. at \in 1..Len(q)
    BY <1>1
  <2> HIDE DEF at
  <2>2. SubSeq(q, 1, at - 1) \in Seq(Lists)
    <3>1. at - 1 \in Int /\ at - 1 <= Len(q)
      BY <2>1
    <3> QED
      BY <3>1, PartType
  <2>3. SubSeq(q, at + 1, Len(q)) \in Seq(Lists)
    <3>1. at + 1 \in Int /\ 1 <= at + 1 /\ Len(q) \in Int
      BY <2>1
    <3> QED
      BY <3>1, PartType
  <2>4. SubSeq(q, 1, at - 1) \o SubSeq(q, at + 1, Len(q)) \in Seq(Lists)
    BY <2>2, <2>3, ConcatProperties
  <2> QED
    BY <1>1, <2>4 DEF Without, at
<1>2. CASE l \notin {q[i] : i \in DOMAIN q}
  BY <1>2 DEF Without
<1> QED
  BY <1>1, <1>2

(* A request granted beside the locks that g stands for.                   *)
LEMMA GrantSound ==
  ASSUME NEW r \in SoundRsb, NEW l \in Lists, NEW g \in Modes,
         \A h \in Holders(r) \ {l} : Under(r.grant[h], g),
         Compatible(g, r.request[l])
  PROVE  Grant(SetMode(r, g), l) \in SoundRsb
<1> DEFINE m == r.request[l]
           t == Grant(SetMode(r, g), l)
<1>1. r \in RsbType /\ Quiet(r) /\ m \in Modes
  BY DEF SoundRsb, RsbType
<1>2. Higher(g, m) \in Modes
  BY <1>1 DEF Higher
<1>3. t \in RsbType
  BY <1>1, <1>2 DEF Grant, SetMode, RsbType, LkbStates, Searches
<1>4. /\ t.state = [r.state EXCEPT ![l] = "granted"]
      /\ t.grant = [r.grant EXCEPT ![l] = m]
      /\ t.search = [r.search EXCEPT ![l] = "off"]
      /\ t.grant_mode = Higher(g, m)
  BY <1>1 DEF Grant, SetMode, RsbType
<1> HIDE DEF t
<1>5. Quiet(t)
  BY <1>1, <1>4 DEF Quiet, RsbType
<1>6. /\ Holders(t) \subseteq Holders(r) \cup {l}
      /\ t.grant[l] = m
      /\ \A h \in Holders(t) \ {l} : t.grant[h] = r.grant[h]
  BY <1>1, <1>4 DEF Holders, RsbType
<1> HIDE DEF m
<1>7. t \in SoundRsb
  BY <1>1, <1>3, <1>4, <1>5, <1>6, ExtendsSound DEF m
<1> QED
  BY <1>7 DEF t

(* A sound resource block whose queues or convert mode change.             *)
LEMMA RelinkedSound ==
  ASSUME NEW r \in SoundRsb, NEW t \in RsbType,
         t.state = r.state, t.grant = r.grant, t.search = r.search,
         t.grant_mode = r.grant_mode
  PROVE  t \in SoundRsb
  BY DEF SoundRsb, Quiet, Covered, CompatibleHolders, Holders

-------------------------------------------------------------------------------
(* The sweeps of LK_try_wait and LK_try_convert.                           *)

Scans == [r : SoundRsb, stop : BOOLEAN]

LEMMA WaitStepSound ==
  ASSUME NEW s \in Scans, NEW l \in Lists
  PROVE  WaitStep(s, l) \in Scans
<1> DEFINE r == s.r
           fits == Compatible(r.grant_mode, r.request[l])
           t == [Grant(r, l) EXCEPT !.grant_q = <<l>> \o r.grant_q,
                                    !.wait_q  = Without(r.wait_q, l)]
<1>1. r \in SoundRsb /\ r \in RsbType /\ r.grant_mode \in Modes
  BY DEF Scans, SoundRsb, RsbType
<1>2. CASE s.stop \/ (fits /\ r.search[l] = "dead")
  BY <1>2 DEF WaitStep
<1>3. CASE ~s.stop /\ ~fits
  BY <1>3 DEF WaitStep, Scans
<1>4. CASE ~s.stop /\ fits /\ r.search[l] # "dead"
  <2>1. \A h \in Holders(r) \ {l} : Under(r.grant[h], r.grant_mode)
    BY <1>1 DEF SoundRsb, Covered, Under
  <2>2. Grant(SetMode(r, r.grant_mode), l) \in SoundRsb
    BY <1>1, <1>4, <2>1, GrantSound
  <2>4. Grant(r, l) = Grant(SetMode(r, r.grant_mode), l)
    BY <1>1 DEF Grant, SetMode, RsbType
  <2>5. Without(r.wait_q, l) \in Seq(Lists) /\ <<l>> \o r.grant_q \in Seq(Lists)
    BY <1>1, WithoutType DEF RsbType
  <2>6. Grant(r, l) \in SoundRsb /\ Grant(r, l) \in RsbType
    BY <2>2, <2>4 DEF SoundRsb
  <2>7. t \in RsbType
    BY <2>5, <2>6 DEF RsbType
  <2>8. /\ t.state = Grant(r, l).state /\ t.grant = Grant(r, l).grant
        /\ t.search = Grant(r, l).search /\ t.grant_mode = Grant(r, l).grant_mode
    BY <2>6 DEF RsbType
  <2>9. t \in SoundRsb
    BY <2>6, <2>7, <2>8, RelinkedSound
  <2>10. WaitStep(s, l) = [s EXCEPT !.r = t]
    BY <1>4 DEF WaitStep
  <2> QED
    BY <2>9, <2>10 DEF Scans
<1> QED
  BY <1>2, <1>3, <1>4

(* The entries that the scan of WaitSweep(r) goes through.                  *)
WaitScan(r, at) ==
  /\ at[0] = [r |-> r, stop |-> FALSE]
  /\ \A i \in 1..Len(r.wait_q) : at[i] = WaitStep(at[i - 1], r.wait_q[i])
  /\ \A i \in 0..Len(r.wait_q) : at[i] \in Scans
  /\ WaitSweep(r) = at[Len(r.wait_q)].r

LEMMA WaitSweepScans ==
  ASSUME NEW r \in SoundRsb
  PROVE  \E at : WaitScan(r, at)
<1> DEFINE q == r.wait_q
           n == Len(q)
           base == [r |-> r, stop |-> FALSE]
           Good(g) == g = [i \in 0..n |-> IF i = 0 THEN base
                                          ELSE WaitStep(g[i - 1], q[i])]
           f == [p \in (1..n) \X Scans |-> WaitStep(p[2], q[p[1]])]
           at == CHOOSE g : Good(g)
<1>1. q \in Seq(Lists) /\ n \in Nat /\ base \in Scans
  BY DEF SoundRsb, RsbType, Scans
<1>2. \A i \in 1..n : q[i] \in Lists
  BY <1>1
<1>3. f \in [(1..n) \X Scans -> Scans]
  BY <1>2, WaitStepSound
<1>4. PICK g \in [0..n -> Scans] :
         g[0] = base /\ \A i \in 1..n : g[i] = f[<<i, g[i - 1]>>]
  <2>1. HasScan(Scans, n, base, f)
    BY <1>1, <1>3, ScanExists
  <2> QED
    BY <2>1 DEF HasScan
<1>5. ASSUME NEW i \in 1..n PROVE g[i] = WaitStep(g[i - 1], q[i])
  <2>1. i - 1 \in 0..n
    BY <1>1
  <2>2. g[i - 1] \in Scans /\ g[i] = f[<<i, g[i - 1]>>]
    BY <1>4, <2>1
  <2> QED
    BY <2>2
<1>6. Good(g)
  <2> HIDE DEF base
  <2> QED
    BY <1>1, <1>4, <1>5
<1>7. Good(at)
  BY <1>6
<1> HIDE DEF at
<1>8. at[0] = base /\ \A i \in 1..n : at[i] = WaitStep(at[i - 1], q[i])
  <2> HIDE DEF base, n
  <2> QED
    BY <1>1, <1>7
<1>9. \A i \in 1..n : at[i - 1] \in Scans => at[i] \in Scans
  BY <1>2, <1>8, WaitStepSound
<1>10. \A i \in 0..n : at[i] \in Scans
  <2> HIDE DEF n
  <2> QED
    BY <1>1, <1>8, <1>9, ScanInduction
<1>11. WaitSweep(r) = at[n].r
  BY DEF WaitSweep, at
<1> QED
  BY <1>8, <1>10, <1>11 DEF WaitScan

LEMMA ConvertStepSound ==
  ASSUME NEW s \in Scans, NEW l \in Lists
  PROVE  ConvertStep(s, l) \in Scans
<1> DEFINE r == s.r
           others == GroupMode(r, {l})
           alone == r.grant[l] = r.grant_mode
           skip == s.stop \/ r.state[l] # "convert" \/ r.search[l] = "dead"
           Fits(m) == Compatible(m, r.request[l])
<1>1. r \in SoundRsb /\ r \in RsbType /\ r.grant_mode \in Modes
  BY DEF Scans, SoundRsb, RsbType
<1>2. /\ others \in Modes
      /\ \A h \in Holders(r) \ {l} : Under(r.grant[h], others)
  <2>1. CompatibleHolders(r)
    BY <1>1 DEF SoundRsb
  <2> QED
    BY <1>1, <2>1, GroupModeStands
<1>3. CASE skip
  BY <1>3 DEF ConvertStep
<1>4. CASE ~skip /\ Fits(r.grant_mode)
  <2>1. \A h \in Holders(r) \ {l} : Under(r.grant[h], r.grant_mode)
    BY <1>1 DEF SoundRsb, Covered, Under
  <2>2. Grant(SetMode(r, r.grant_mode), l) \in SoundRsb
    BY <1>1, <1>4, <2>1, GrantSound
  <2>3. Grant(r, l) = Grant(SetMode(r, r.grant_mode), l)
    BY <1>1 DEF Grant, SetMode, RsbType
  <2>4. ConvertStep(s, l) = [s EXCEPT !.r = Grant(r, l)]
    BY <1>4 DEF ConvertStep
  <2> QED
    BY <2>2, <2>3, <2>4 DEF Scans
<1>5. CASE ~skip /\ ~Fits(r.grant_mode) /\ ~alone
  <2>1. ConvertStep(s, l) = [s EXCEPT !.stop = TRUE]
    BY <1>5 DEF ConvertStep
  <2> QED
    BY <2>1 DEF Scans
<1>6. CASE ~skip /\ ~Fits(r.grant_mode) /\ alone /\ Fits(others)
  <2>1. Grant(SetMode(r, others), l) \in SoundRsb
    BY <1>1, <1>2, <1>6, GrantSound
  <2>2. ConvertStep(s, l) = [s EXCEPT !.r = Grant(SetMode(r, others), l)]
    BY <1>6 DEF ConvertStep
  <2> QED
    BY <2>1, <2>2 DEF Scans
<1>7. CASE ~skip /\ ~Fits(r.grant_mode) /\ alone /\ ~Fits(others)
  <2> DEFINE t == [r EXCEPT !.convert_mode = others]
  <2>1. /\ t \in RsbType
        /\ t.state = r.state /\ t.grant = r.grant
        /\ t.search = r.search /\ t.grant_mode = r.grant_mode
    BY <1>1, <1>2 DEF RsbType
  <2>2. ConvertStep(s, l) = [r |-> t, stop |-> TRUE]
    BY <1>7 DEF ConvertStep
  <2> HIDE DEF t
  <2>3. t \in SoundRsb
    BY <1>1, <2>1, RelinkedSound
  <2> QED
    BY <2>2, <2>3 DEF Scans
<1> QED
  BY <1>3, <1>4, <1>5, <1>6, <1>7

(* The entries that the scan of ConvertSweep(r) goes through.               *)
ConvertScan(r, at) ==
  /\ at[0] = [r |-> r, stop |-> FALSE]
  /\ \A i \in 1..Len(r.grant_q) : at[i] = ConvertStep(at[i - 1], r.grant_q[i])
  /\ \A i \in 0..Len(r.grant_q) : at[i] \in Scans
  /\ ConvertSweep(r) = at[Len(r.grant_q)].r

LEMMA ConvertSweepScans ==
  ASSUME NEW r \in SoundRsb
  PROVE  \E at : ConvertScan(r, at)
<1> DEFINE q == r.grant_q
           n == Len(q)
           base == [r |-> r, stop |-> FALSE]
           Good(g) == g = [i \in 0..n |-> IF i = 0 THEN base
                                          ELSE ConvertStep(g[i - 1], q[i])]
           f == [p \in (1..n) \X Scans |-> ConvertStep(p[2], q[p[1]])]
           at == CHOOSE g : Good(g)
<1>1. q \in Seq(Lists) /\ n \in Nat /\ base \in Scans
  BY DEF SoundRsb, RsbType, Scans
<1>2. \A i \in 1..n : q[i] \in Lists
  BY <1>1
<1>3. f \in [(1..n) \X Scans -> Scans]
  BY <1>2, ConvertStepSound
<1>4. PICK g \in [0..n -> Scans] :
         g[0] = base /\ \A i \in 1..n : g[i] = f[<<i, g[i - 1]>>]
  <2>1. HasScan(Scans, n, base, f)
    BY <1>1, <1>3, ScanExists
  <2> QED
    BY <2>1 DEF HasScan
<1>5. ASSUME NEW i \in 1..n PROVE g[i] = ConvertStep(g[i - 1], q[i])
  <2>1. i - 1 \in 0..n
    BY <1>1
  <2>2. g[i - 1] \in Scans /\ g[i] = f[<<i, g[i - 1]>>]
    BY <1>4, <2>1
  <2> QED
    BY <2>2
<1>6. Good(g)
  <2> HIDE DEF base
  <2> QED
    BY <1>1, <1>4, <1>5
<1>7. Good(at)
  BY <1>6
<1> HIDE DEF at
<1>8. at[0] = base /\ \A i \in 1..n : at[i] = ConvertStep(at[i - 1], q[i])
  <2> HIDE DEF base, n
  <2> QED
    BY <1>1, <1>7
<1>9. \A i \in 1..n : at[i - 1] \in Scans => at[i] \in Scans
  BY <1>2, <1>8, ConvertStepSound
<1>10. \A i \in 0..n : at[i] \in Scans
  <2> HIDE DEF n
  <2> QED
    BY <1>1, <1>8, <1>9, ScanInduction
<1>11. ConvertSweep(r) = at[n].r
  BY DEF ConvertSweep, at
<1> QED
  BY <1>8, <1>10, <1>11 DEF ConvertScan

LEMMA SweepsSound ==
  ASSUME NEW r \in SoundRsb
  PROVE  WaitSweep(r) \in SoundRsb /\ ConvertSweep(r) \in SoundRsb
<1>1. Len(r.wait_q) \in Nat /\ Len(r.grant_q) \in Nat
  BY DEF SoundRsb, RsbType
<1>2. WaitSweep(r) \in SoundRsb
  <2>1. PICK at : WaitScan(r, at)
    BY WaitSweepScans
  <2> QED
    BY <1>1, <2>1 DEF WaitScan, Scans
<1>3. ConvertSweep(r) \in SoundRsb
  <2>1. PICK at : ConvertScan(r, at)
    BY ConvertSweepScans
  <2> QED
    BY <1>1, <2>1 DEF ConvertScan, Scans
<1> QED
  BY <1>2, <1>3

LEMMA SameModeSound ==
  ASSUME NEW r \in SoundRsb
  PROVE  SetMode(r, r.grant_mode) \in SoundRsb
<1> DEFINE t == SetMode(r, r.grant_mode)
<1>1. r \in RsbType
  BY DEF SoundRsb
<1>2. /\ t \in RsbType
      /\ t.state = r.state /\ t.grant = r.grant
      /\ t.search = r.search /\ t.grant_mode = r.grant_mode
  BY <1>1 DEF SetMode, RsbType
<1> QED
  BY <1>2, RelinkedSound

-------------------------------------------------------------------------------
(* The handlers keep the resource block sound.                             *)

LEMMA GrantNewSound ==
  ASSUME NEW r \in SoundRsb, NEW l \in Lists, NEW m \in Modes,
         r.state[l] = "free", Admits(r, m)
  PROVE  GrantNew(r, l, m) \in SoundRsb
<1> DEFINE t == GrantNew(r, l, m)
<1>1. r \in RsbType /\ Quiet(r) /\ r.grant_mode \in Modes
  BY DEF SoundRsb, RsbType
<1>2. Higher(r.grant_mode, m) \in Modes
  BY <1>1 DEF Higher
<1>3. <<l>> \o r.grant_q \in Seq(Lists)
  BY <1>1 DEF RsbType
<1>4. t \in RsbType
  BY <1>1, <1>2, <1>3 DEF GrantNew, RsbType, LkbStates
<1>5. /\ t.state = [r.state EXCEPT ![l] = "granted"]
      /\ t.grant = [r.grant EXCEPT ![l] = m]
      /\ t.search = r.search
      /\ t.grant_mode = Higher(r.grant_mode, m)
  BY <1>1 DEF GrantNew, RsbType
<1> HIDE DEF t
<1>6. Quiet(t)
  BY <1>1, <1>5 DEF Quiet, RsbType
<1>7. /\ Holders(t) \subseteq Holders(r) \cup {l}
      /\ t.grant[l] = m
      /\ \A h \in Holders(t) \ {l} : t.grant[h] = r.grant[h]
  BY <1>1, <1>5 DEF Holders, RsbType
<1>8. \A h \in Holders(r) \ {l} : Under(r.grant[h], r.grant_mode)
  BY DEF SoundRsb, Covered, Under
<1>9. t \in SoundRsb
  BY <1>1, <1>4, <1>5, <1>6, <1>7, <1>8, ExtendsSound DEF Admits
<1> QED
  BY <1>9 DEF t

(* A lock that must wait holds what it held.                               *)
LEMMA SuspendsSound ==
  ASSUME NEW r \in SoundRsb, NEW t \in RsbType, NEW l \in Lists,
         r.state[l] \in {"free", "granted"},
         t.state = [r.state EXCEPT ![l] = IF r.state[l] = "free" THEN "waiting"
                                                                 ELSE "convert"],
         t.grant = r.grant, \A k \in Lists \ {l} : t.search[k] = r.search[k],
         t.grant_mode = r.grant_mode
  PROVE  t \in SoundRsb
<1>1. r \in RsbType
  BY DEF SoundRsb
<1>2. Holders(t) = Holders(r)
  BY <1>1 DEF Holders, RsbType
<1>3. Quiet(t)
  BY <1>1 DEF SoundRsb, Quiet, RsbType
<1>4. \A h \in Holders(t) :
         t.grant[h] = r.grant[h] /\ Under(t.grant[h], t.grant_mode)
  BY <1>2 DEF SoundRsb, Covered, Under
<1> QED
  BY <1>2, <1>3, <1>4, KeepsSound

LEMMA QueueNewSound ==
  ASSUME NEW r \in SoundRsb, NEW l \in Lists, NEW m \in Modes,
         r.state[l] = "free"
  PROVE  QueueNew(r, l, m) \in SoundRsb
<1> DEFINE t == QueueNew(r, l, m)
<1>1. r \in RsbType
  BY DEF SoundRsb
<1>2. Append(r.wait_q, l) \in Seq(Lists)
  BY <1>1 DEF RsbType
<1>3. t \in RsbType
  BY <1>1, <1>2 DEF QueueNew, Suspend, RsbType, LkbStates, Searches
<1>4. /\ t.state = [r.state EXCEPT ![l] = "waiting"]
      /\ t.grant = r.grant /\ t.grant_mode = r.grant_mode
      /\ \A k \in Lists \ {l} : t.search[k] = r.search[k]
  BY <1>1 DEF QueueNew, Suspend, RsbType
<1> HIDE DEF t
<1>5. t \in SoundRsb
  BY <1>3, <1>4, SuspendsSound
<1> QED
  BY <1>5 DEF t

LEMMA QueueConvertSound ==
  ASSUME NEW r \in SoundRsb, NEW l \in Lists, NEW m \in Modes,
         r.state[l] = "granted"
  PROVE  QueueConvert(r, l, m) \in SoundRsb
<1> DEFINE t == QueueConvert(r, l, m)
<1>1. r \in RsbType /\ CompatibleHolders(r)
  BY DEF SoundRsb
<1>2. ConvertGroup(r, l) \in Modes
  BY <1>1, GroupModeStands DEF ConvertGroup, RsbType
<1>3. Append(Without(r.grant_q, l), l) \in Seq(Lists)
  BY <1>1, WithoutType DEF RsbType
<1>4. t \in RsbType
  BY <1>1, <1>2, <1>3 DEF QueueConvert, Suspend, RsbType, LkbStates, Searches
<1>5. /\ t.state = [r.state EXCEPT ![l] = "convert"]
      /\ t.grant = r.grant /\ t.grant_mode = r.grant_mode
      /\ \A k \in Lists \ {l} : t.search[k] = r.search[k]
  BY <1>1 DEF QueueConvert, Suspend, RsbType
<1> HIDE DEF t
<1>6. t \in SoundRsb
  BY <1>4, <1>5, SuspendsSound
<1> QED
  BY <1>6 DEF t

(* A lock converted to a mode that the others admit.                       *)
LEMMA ConvertedSound ==
  ASSUME NEW r \in SoundRsb, NEW l \in Lists, NEW m \in Modes,
         r.state[l] = "granted", Convertible(r, l, m)
  PROVE  LET held == [r EXCEPT !.grant[l] = m, !.request[l] = m]
         IN  /\ OnlyHolder(r, l) => SetMode(held, m) \in SoundRsb
             /\ ~OnlyHolder(r, l) =>
                   SetMode(held, Higher(ConvertGroup(r, l), m)) \in SoundRsb
<1> DEFINE held == [r EXCEPT !.grant[l] = m, !.request[l] = m]
           g == ConvertGroup(r, l)
           t(mode) == SetMode(held, mode)
<1>1. r \in RsbType /\ Quiet(r) /\ CompatibleHolders(r)
  BY DEF SoundRsb
<1>2. g \in Modes /\ \A h \in Holders(r) \ {l} : Under(r.grant[h], g)
  <2>1. CASE Leads(r, l)
    BY <1>1, <2>1, GroupModeStands DEF ConvertGroup
  <2>2. CASE ~Leads(r, l)
    BY <1>1, <2>2 DEF ConvertGroup, SoundRsb, Covered, Under, RsbType
  <2> QED
    BY <2>1, <2>2
<1>3. ASSUME NEW mode \in Modes
      PROVE  /\ t(mode) \in RsbType /\ Quiet(t(mode))
             /\ Holders(t(mode)) = Holders(r)
             /\ t(mode).grant = [r.grant EXCEPT ![l] = m]
             /\ t(mode).grant_mode = mode
  <2>1. /\ t(mode) \in RsbType
        /\ t(mode).state = r.state /\ t(mode).search = r.search
        /\ t(mode).grant = [r.grant EXCEPT ![l] = m]
        /\ t(mode).grant_mode = mode
    BY <1>1 DEF SetMode, RsbType
  <2>2. Holders(t(mode)) = Holders(r)
    BY <2>1 DEF Holders
  <2>3. Quiet(t(mode))
    BY <1>1, <2>1 DEF Quiet, RsbType
  <2> QED
    BY <2>1, <2>2, <2>3
<1>4. CASE OnlyHolder(r, l)
  <2> HIDE DEF t
  <2>1. t(m) \in SoundRsb
    <3>1. \A h \in Holders(t(m)) : t(m).grant[h] = m
      BY <1>1, <1>3, <1>4 DEF OnlyHolder, RsbType
    <3>2. Covered(t(m))
      BY <1>3, <3>1 DEF Covered, Modes, S, IX
    <3>3. CompatibleHolders(t(m))
      BY <1>3, <1>4 DEF OnlyHolder, CompatibleHolders
    <3> QED
      BY <1>3, <3>2, <3>3 DEF SoundRsb
  <2> QED
    BY <1>4, <2>1 DEF t
<1>5. CASE ~OnlyHolder(r, l)
  <2> DEFINE mode == Higher(g, m)
  <2>1. mode \in Modes
    BY <1>2 DEF Higher
  <2>2. Compatible(g, m)
    BY <1>5 DEF Convertible
  <2> HIDE DEF t, mode
  <2>3. /\ Holders(t(mode)) \subseteq Holders(r) \cup {l}
        /\ t(mode).grant[l] = m
        /\ \A h \in Holders(t(mode)) \ {l} : t(mode).grant[h] = r.grant[h]
    <3>1. /\ t(mode).grant = [r.grant EXCEPT ![l] = m]
          /\ Holders(t(mode)) = Holders(r)
      BY <1>3, <2>1
    <3>2. r.grant \in [Lists -> Modes] /\ Holders(r) \subseteq Lists
      BY <1>1 DEF RsbType, Holders
    <3> QED
      BY <3>1, <3>2
  <2>4. t(mode) \in SoundRsb
    BY <1>2, <1>3, <2>1, <2>2, <2>3, ExtendsSound DEF mode
  <2> QED
    BY <1>5, <2>4 DEF t, mode
<1> QED
  BY <1>4, <1>5

(* Finding the group mode anew stands for the locks that are held.         *)
LEMMA RecomputedSound ==
  ASSUME NEW r \in SoundRsb
  PROVE  SetMode(r, GroupMode(r, {})) \in SoundRsb
<1> DEFINE g == GroupMode(r, {})
           t == SetMode(r, g)
<1>1. r \in RsbType /\ Quiet(r) /\ CompatibleHolders(r)
  BY DEF SoundRsb
<1>2. g \in Modes /\ \A h \in Holders(r) : Under(r.grant[h], g)
  BY <1>1, GroupModeStands
<1> HIDE DEF g
<1>3. /\ t \in RsbType
      /\ t.state = r.state /\ t.grant = r.grant
      /\ t.search = r.search /\ t.grant_mode = g
  BY <1>1, <1>2 DEF SetMode, RsbType
<1> HIDE DEF t
<1>4. Quiet(t) /\ Holders(t) = Holders(r)
  BY <1>1, <1>3 DEF Quiet, Holders
<1>5. t \in SoundRsb
  BY <1>2, <1>3, <1>4, KeepsSound
<1> QED
  BY <1>5 DEF t, g

LEMMA RemovedSound ==
  ASSUME NEW r \in SoundRsb, NEW l \in Lists
  PROVE  Removed(r, l) \in SoundRsb
<1> DEFINE t == Removed(r, l)
<1>1. r \in RsbType /\ Quiet(r)
  BY DEF SoundRsb
<1>2. Without(r.grant_q, l) \in Seq(Lists) /\ Without(r.wait_q, l) \in Seq(Lists)
  BY <1>1, WithoutType DEF RsbType
<1>3. t \in RsbType
  BY <1>1, <1>2, NullMode DEF Removed, RsbType, LkbStates, Searches
<1>4. /\ t.state = [r.state EXCEPT ![l] = "free"]
      /\ t.grant = [r.grant EXCEPT ![l] = N]
      /\ t.search = [r.search EXCEPT ![l] = "off"]
      /\ t.grant_mode = r.grant_mode
  BY <1>1 DEF Removed, RsbType
<1> HIDE DEF t
<1>5. Quiet(t)
  BY <1>1, <1>4 DEF Quiet, RsbType
<1>6. Holders(t) \subseteq Holders(r) /\ \A h \in Holders(t) : h # l
  BY <1>1, <1>4 DEF Holders, RsbType
<1>7. \A h \in Holders(t) :
         t.grant[h] = r.grant[h] /\ Under(t.grant[h], t.grant_mode)
  BY <1>1, <1>4, <1>6 DEF SoundRsb, Covered, Under, RsbType, Holders
<1>8. t \in SoundRsb
  BY <1>3, <1>5, <1>6, <1>7, KeepsSound
<1> QED
  BY <1>8 DEF t

(* A resource block nobody holds is sound with the group mode LK_N.        *)
LEMMA UnheldSound ==
  ASSUME NEW r \in SoundRsb, Holders(r) = {}
  PROVE  /\ SetMode(r, N) \in SoundRsb
         /\ [SetMode(r, N) EXCEPT !.allocated = FALSE] \in SoundRsb
<1> DEFINE t == SetMode(r, N)
           u == [t EXCEPT !.allocated = FALSE]
<1>1. r \in RsbType /\ Quiet(r)
  BY DEF SoundRsb
<1>2. /\ t \in RsbType /\ u \in RsbType
      /\ t.state = r.state /\ t.search = r.search /\ t.grant = r.grant
      /\ u.state = r.state /\ u.search = r.search /\ u.grant = r.grant
  BY <1>1, NullMode DEF SetMode, RsbType
<1> HIDE DEF t, u
<1>3. Quiet(t) /\ Quiet(u) /\ Holders(t) = {} /\ Holders(u) = {}
  BY <1>1, <1>2 DEF Quiet, Holders
<1>4. t \in SoundRsb /\ u \in SoundRsb
  BY <1>2, <1>3, KeepsSound
<1> QED
  BY <1>4 DEF t, u

-------------------------------------------------------------------------------
(* Queues.                                                                 *)

Entries(q) == {q[i] : i \in DOMAIN q}

(* The queue q links each of the lists ls, and links it once.              *)
LinksOnce(q, ls) ==
  /\ q \in Seq(Lists)
  /\ \A i, j \in 1..Len(q) : q[i] = q[j] => i = j
  /\ \A x : x \in ls <=> \E i \in 1..Len(q) : q[i] = x

LEMMA LinksOnceLinks ==
  ASSUME NEW q, NEW ls, LinksOnce(q, ls)
  PROVE  Links(q, ls)
<1>1. q \in Seq(Lists) /\ Len(q) \in Nat /\ DOMAIN q = 1..Len(q)
  BY DEF LinksOnce
<1>2. q \in Bijection(1..Len(q), ls)
  <2>1. q \in [1..Len(q) -> ls]
    BY <1>1 DEF LinksOnce
  <2>2. q \in Injection(1..Len(q), ls)
    BY <2>1 DEF LinksOnce, Injection, IsInjective
  <2>3. q \in Surjection(1..Len(q), ls)
    BY <2>1 DEF LinksOnce, Surjection
  <2> QED
    BY <2>2, <2>3 DEF Bijection
<1>3. ExistsBijection(1..Len(q), ls)
  BY <1>2 DEF ExistsBijection
<1>4. Cardinality(ls) = Len(q)
  BY <1>1, <1>3, FS_CountingElements
<1>5. Entries(q) = ls
  BY <1>1 DEF LinksOnce, Entries
<1> QED
  BY <1>4, <1>5 DEF Links, Entries

LEMMA WithoutParts ==
  ASSUME NEW q \in Seq(Lists), NEW l, \E i \in 1..Len(q) : q[i] = l
  PROVE  \E at \in 1..Len(q) :
            /\ q[at] = l
            /\ Without(q, l) \in Seq(Lists)
            /\ Len(Without(q, l)) = Len(q) - 1
            /\ \A i \in 1..(Len(q) - 1) :
                  Without(q, l)[i] = IF i < at THEN q[i] ELSE q[i + 1]
<1> DEFINE at == CHOOSE i \in DOMAIN q : q[i] = l
           a  == SubSeq(q, 1, at - 1)
           b  == SubSeq(q, at + 1, Len(q))
<1>1. DOMAIN q = 1..Len(q) /\ Len(q) \in Nat
  OBVIOUS
<1>2. at \in 1..Len(q) /\ q[at] = l
  BY <1>1
<1>3. Without(q, l) = a \o b
  BY <1>1 DEF Without
<1> HIDE DEF at
<1>4. /\ a \in Seq(Lists) /\ Len(a) = at - 1
      /\ \A i \in 1..(at - 1) : a[i] = q[i]
  <2>1. \A k \in 1..(at - 1) : q[k] \in Lists
    BY <1>1, <1>2
  <2>2. at - 1 \in Int /\ 1 \in Int
    BY <1>2
  <2>3. a \in Seq(Lists)
    BY <2>1, <2>2, SubSeqProperties
  <2> QED
    BY <1>2, <2>3
<1>5. /\ b \in Seq(Lists) /\ Len(b) = Len(q) - at
      /\ \A i \in 1..(Len(q) - at) : b[i] = q[at + i]
  <2>1. \A k \in (at + 1)..Len(q) : q[k] \in Lists
    BY <1>1, <1>2
  <2>2. at + 1 \in Int /\ Len(q) \in Int
    BY <1>1, <1>2
  <2>3. /\ b \in Seq(Lists)
        /\ Len(b) = IF at + 1 <= Len(q) THEN Len(q) - (at + 1) + 1 ELSE 0
        /\ \A i \in 1..(Len(q) - (at + 1) + 1) : b[i] = q[(at + 1) + i - 1]
    BY <2>1, <2>2, SubSeqProperties
  <2> HIDE DEF b
  <2>4. Len(q) - (at + 1) + 1 = Len(q) - at
    BY <1>1, <1>2
  <2>5. \A i \in 1..(Len(q) - at) : (at + 1) + i - 1 = at + i
    BY <1>1, <1>2
  <2>6. Len(b) = Len(q) - at
    <3>1. Len(b) = IF at + 1 <= Len(q) THEN Len(q) - at ELSE 0
      BY <2>3, <2>4, Zenon
    <3>2. at \in Int /\ Len(q) \in Int /\ at <= Len(q)
      BY <1>1, <1>2
    <3>3. ASSUME NEW k \in Int, NEW n \in Int, k <= n
          PROVE  k + 1 <= n \/ n - k = 0
      BY <3>3
    <3>4. at + 1 <= Len(q) \/ Len(q) - at = 0
      BY <3>2, <3>3
    <3> QED
      BY <3>1, <3>2, <3>4
  <2> QED
    BY <2>3, <2>4, <2>5, <2>6
<1> HIDE DEF a, b
<1>6. /\ a \o b \in Seq(Lists)
      /\ Len(a \o b) = Len(q) - 1
  <2>1. a \o b \in Seq(Lists) /\ Len(a \o b) = Len(a) + Len(b)
    BY <1>4, <1>5, ConcatProperties
  <2> QED
    BY <1>1, <1>2, <1>4, <1>5, <2>1
<1>7. ASSUME NEW i \in 1..(Len(q) - 1)
      PROVE  (a \o b)[i] = IF i < at THEN q[i] ELSE q[i + 1]
  <2>1. CASE i < at
    <3>1. i \in 1..(at - 1)
      BY <1>2, <2>1
    <3>2. (a \o b)[i] = a[i]
      BY <1>4, <1>5, <3>1
    <3> QED
      BY <1>4, <2>1, <3>1, <3>2
  <2>2. CASE ~(i < at)
    <3>1. i - (at - 1) \in 1..(Len(q) - at) /\ at + (i - (at - 1)) = i + 1
      BY <1>1, <1>2, <2>2
    <3>2. (a \o b)[i] = b[i - (at - 1)]
      BY <1>1, <1>2, <1>4, <1>5, <2>2
    <3> QED
      BY <1>5, <2>2, <3>1, <3>2
  <2> QED
    BY <2>1, <2>2
<1> QED
  BY <1>2, <1>3, <1>6, <1>7

(* The queue without l links the other lists once, in their old order.     *)
LEMMA WithoutLinks ==
  ASSUME NEW q, NEW ls, LinksOnce(q, ls), NEW l
  PROVE  /\ LinksOnce(Without(q, l), ls \ {l})
         /\ \A x, y : /\ Behind(q, x, y) /\ x # l /\ y # l
                      => Behind(Without(q, l), x, y)
<1> DEFINE w == Without(q, l)
<1>1. q \in Seq(Lists) /\ Len(q) \in Nat /\ DOMAIN q = 1..Len(q)
  BY DEF LinksOnce
<1>2. CASE l \in ls
  <2>1. \E i \in 1..Len(q) : q[i] = l
    BY <1>2 DEF LinksOnce
  <2>2. PICK at \in 1..Len(q) :
            /\ q[at] = l
            /\ w \in Seq(Lists)
            /\ Len(w) = Len(q) - 1
            /\ \A i \in 1..(Len(q) - 1) : w[i] = IF i < at THEN q[i] ELSE q[i + 1]
    BY <1>1, <2>1, WithoutParts
  <2> HIDE DEF w
  <2> DEFINE from(i) == IF i < at THEN i ELSE i + 1
             to(i) == IF i < at THEN i ELSE i - 1
  <2>3. \A i \in 1..Len(w) : from(i) \in 1..Len(q) \ {at} /\ w[i] = q[from(i)]
    BY <1>1, <2>2
  <2>4. \A i \in 1..Len(q) \ {at} : to(i) \in 1..Len(w) /\ w[to(i)] = q[i]
    BY <1>1, <2>2
  <2>5. ASSUME NEW i \in 1..Len(w), NEW j \in 1..Len(w), w[i] = w[j]
        PROVE  i = j
    <3>1. q[from(i)] = q[from(j)]
      BY <2>3, <2>5
    <3>2. from(i) = from(j)
      BY <2>3, <3>1 DEF LinksOnce
    <3> QED
      BY <1>1, <2>2, <3>2
  <2>6. ASSUME NEW x
        PROVE  x \in ls \ {l} <=> \E i \in 1..Len(w) : w[i] = x
    <3>1. ASSUME x \in ls, x # l PROVE \E i \in 1..Len(w) : w[i] = x
      <4>1. PICK i \in 1..Len(q) : q[i] = x
        BY <3>1 DEF LinksOnce
      <4>2. i # at
        BY <2>2, <3>1, <4>1
      <4> QED
        BY <2>4, <4>1, <4>2
    <3>2. ASSUME NEW i \in 1..Len(w), w[i] = x PROVE x \in ls /\ x # l
      <4>1. from(i) \in 1..Len(q) /\ q[from(i)] = x /\ from(i) # at
        BY <2>3, <3>2
      <4>2. x \in ls
        BY <4>1 DEF LinksOnce
      <4>3. x # l
        BY <2>2, <4>1 DEF LinksOnce
      <4> QED
        BY <4>2, <4>3
    <3> QED
      BY <3>1, <3>2
  <2>7. LinksOnce(w, ls \ {l})
    BY <2>2, <2>5, <2>6 DEF LinksOnce
  <2>8. ASSUME NEW x, NEW y, Behind(q, x, y), x # l, y # l
        PROVE  Behind(w, x, y)
    <3>1. PICK i, j \in 1..Len(q) : i < j /\ q[i] = x /\ q[j] = y
      BY <1>1, <2>8 DEF Behind
    <3>2. i # at /\ j # at
      BY <2>2, <2>8, <3>1
    <3>3. /\ to(i) \in 1..Len(w) /\ w[to(i)] = x
          /\ to(j) \in 1..Len(w) /\ w[to(j)] = y
      BY <2>4, <3>1, <3>2
    <3>4. to(i) < to(j)
      BY <1>1, <3>1, <3>2
    <3>5. DOMAIN w = 1..Len(w)
      BY <2>2
    <3> HIDE DEF to
    <3> QED
      BY <3>3, <3>4, <3>5 DEF Behind
  <2> QED
    BY <2>7, <2>8 DEF w
<1>3. CASE l \notin ls
  <2>1. l \notin {q[i] : i \in DOMAIN q}
    BY <1>1, <1>3 DEF LinksOnce
  <2>2. w = q
    BY <2>1 DEF Without
  <2>3. ls \ {l} = ls
    BY <1>3
  <2> QED
    BY <2>2, <2>3
<1> QED
  BY <1>2, <1>3

LEMMA PrependLinks ==
  ASSUME NEW q, NEW ls, LinksOnce(q, ls), NEW l \in Lists \ ls
  PROVE  LinksOnce(<<l>> \o q, ls \cup {l})
<1> DEFINE w == <<l>> \o q
<1>1. q \in Seq(Lists) /\ Len(q) \in Nat
  BY DEF LinksOnce
<1>2. /\ w \in Seq(Lists) /\ Len(w) = Len(q) + 1 /\ w[1] = l
      /\ \A i \in 1..Len(q) : w[i + 1] = q[i]
  BY <1>1
<1> HIDE DEF w
<1>3. \A i \in 2..Len(w) : i - 1 \in 1..Len(q) /\ w[i] = q[i - 1]
  <2>1. ASSUME NEW i \in 2..Len(w)
        PROVE  i - 1 \in 1..Len(q) /\ w[i] = q[i - 1]
    <3>1. i - 1 \in 1..Len(q) /\ (i - 1) + 1 = i
      BY <1>1, <1>2
    <3> QED
      BY <1>2, <3>1
  <2> QED
    BY <2>1
<1>4. \A i \in 1..Len(q) : q[i] # l
  BY DEF LinksOnce
<1>5. ASSUME NEW i \in 1..Len(w), NEW j \in 1..Len(w), w[i] = w[j]
      PROVE  i = j
  <2>1. CASE i = 1 /\ j = 1
    BY <2>1
  <2>2. CASE i = 1 /\ j # 1
    BY <1>1, <1>2, <1>3, <1>4, <1>5, <2>2
  <2>3. CASE i # 1 /\ j = 1
    BY <1>1, <1>2, <1>3, <1>4, <1>5, <2>3
  <2>4. CASE i # 1 /\ j # 1
    <3>1. /\ i - 1 \in 1..Len(q) /\ j - 1 \in 1..Len(q)
          /\ q[i - 1] = q[j - 1]
      BY <1>1, <1>2, <1>3, <1>5, <2>4
    <3>2. i - 1 = j - 1
      BY <3>1 DEF LinksOnce
    <3> QED
      BY <3>2
  <2> QED
    BY <2>1, <2>2, <2>3, <2>4
<1>6. ASSUME NEW x
      PROVE  x \in ls \cup {l} <=> \E i \in 1..Len(w) : w[i] = x
  <2>1. ASSUME x \in ls PROVE \E i \in 1..Len(w) : w[i] = x
    <3>1. PICK i \in 1..Len(q) : q[i] = x
      BY <2>1 DEF LinksOnce
    <3> QED
      BY <1>1, <1>2, <3>1
  <2>2. ASSUME x = l PROVE \E i \in 1..Len(w) : w[i] = x
    BY <1>1, <1>2, <2>2
  <2>3. ASSUME NEW i \in 1..Len(w), w[i] = x PROVE x \in ls \cup {l}
    <3>1. CASE i = 1
      BY <1>2, <2>3, <3>1
    <3>2. CASE i # 1
      <4>1. i - 1 \in 1..Len(q) /\ q[i - 1] = x
        BY <1>1, <1>2, <1>3, <2>3, <3>2
      <4> QED
        BY <4>1 DEF LinksOnce
    <3> QED
      BY <3>1, <3>2
  <2> QED
    BY <2>1, <2>2, <2>3
<1> QED
  BY <1>2, <1>5, <1>6 DEF LinksOnce, w

LEMMA AppendLinks ==
  ASSUME NEW q, NEW ls, LinksOnce(q, ls), NEW l \in Lists \ ls
  PROVE  /\ LinksOnce(Append(q, l), ls \cup {l})
         /\ \A x, y : Behind(q, x, y) => Behind(Append(q, l), x, y)
<1> DEFINE w == Append(q, l)
           n == Len(q)
<1>1. q \in Seq(Lists) /\ n \in Nat /\ DOMAIN q = 1..n
  BY DEF LinksOnce
<1>2. /\ w \in Seq(Lists) /\ Len(w) = n + 1 /\ w[n + 1] = l
      /\ \A i \in 1..n : w[i] = q[i]
      /\ DOMAIN w = 1..(n + 1)
  BY <1>1
<1> HIDE DEF w
<1>3. \A i \in 1..n : q[i] # l
  BY DEF LinksOnce
<1>4. ASSUME NEW i \in 1..Len(w), NEW j \in 1..Len(w), w[i] = w[j]
      PROVE  i = j
  <2>1. CASE i = n + 1 \/ j = n + 1
    BY <1>1, <1>2, <1>3, <1>4, <2>1
  <2>2. CASE i \in 1..n /\ j \in 1..n
    <3>1. q[i] = q[j]
      BY <1>2, <1>4, <2>2
    <3> QED
      BY <2>2, <3>1 DEF LinksOnce
  <2> QED
    BY <1>1, <1>2, <2>1, <2>2
<1>5. ASSUME NEW x
      PROVE  x \in ls \cup {l} <=> \E i \in 1..Len(w) : w[i] = x
  <2>1. ASSUME x \in ls PROVE \E i \in 1..Len(w) : w[i] = x
    <3>1. PICK i \in 1..n : q[i] = x
      BY <2>1 DEF LinksOnce
    <3> QED
      BY <1>1, <1>2, <3>1
  <2>2. ASSUME x = l PROVE \E i \in 1..Len(w) : w[i] = x
    BY <1>1, <1>2, <2>2
  <2>3. ASSUME NEW i \in 1..Len(w), w[i] = x PROVE x \in ls \cup {l}
    <3>1. CASE i = n + 1
      BY <1>2, <2>3, <3>1
    <3>2. CASE i \in 1..n
      <4>1. q[i] = x
        BY <1>2, <2>3, <3>2
      <4> QED
        BY <3>2, <4>1 DEF LinksOnce
    <3> QED
      BY <1>1, <1>2, <3>1, <3>2
  <2> QED
    BY <2>1, <2>2, <2>3
<1>6. ASSUME NEW x, NEW y, Behind(q, x, y) PROVE Behind(w, x, y)
  <2>1. PICK i, j \in 1..n : i < j /\ q[i] = x /\ q[j] = y
    BY <1>1, <1>6 DEF Behind
  <2>2. i \in 1..(n + 1) /\ j \in 1..(n + 1) /\ w[i] = x /\ w[j] = y
    BY <1>1, <1>2, <2>1
  <2> QED
    BY <1>2, <2>1, <2>2 DEF Behind
<1> QED
  BY <1>2, <1>4, <1>5, <1>6 DEF LinksOnce, w

-------------------------------------------------------------------------------
(* Queued resource blocks, and how the locks of a list advance.            *)

QueuedRsb ==
  {r \in SoundRsb : /\ LinksOnce(r.grant_q, Holders(r))
                    /\ LinksOnce(r.wait_q, Waiters(r))}

SameLkb(r, u, t) ==
  /\ u.state[t] = r.state[t] /\ u.grant[t] = r.grant[t]
  /\ u.request[t] = r.request[t] /\ u.search[t] = r.search[t]

SameLocks(r, u) ==
  /\ u.state = r.state /\ u.grant = r.grant
  /\ u.request = r.request /\ u.search = r.search
  /\ u.grant_q = r.grant_q /\ u.wait_q = r.wait_q

(* From r to u, list t is granted what it waits for.                       *)
Succeeds(r, u, t) ==
  /\ r.state[t] \in {"waiting", "convert"} /\ r.search[t] # "dead"
  /\ u.state[t] = "granted" /\ u.grant[t] = r.request[t]
  /\ u.request[t] = r.request[t] /\ u.search[t] = "off"

Advances(r, u, t) == SameLkb(r, u, t) \/ Succeeds(r, u, t)

LEMMA AdvancesTwice ==
  ASSUME NEW r, NEW s, NEW u, NEW t, Advances(r, s, t), Advances(s, u, t)
  PROVE  Advances(r, u, t)
  BY DEF Advances, SameLkb, Succeeds

(* From r to u only the lock of l changes: it is granted what it waits for. *)
Awards(r, u, l) ==
  /\ r.search[l] # "dead"
  /\ u.state = [r.state EXCEPT ![l] = "granted"]
  /\ u.grant = [r.grant EXCEPT ![l] = r.request[l]]
  /\ u.request = r.request
  /\ u.search = [r.search EXCEPT ![l] = "off"]

LEMMA AwardsAdvances ==
  ASSUME NEW r \in RsbType, NEW u, NEW l \in Lists,
         r.state[l] \in {"waiting", "convert"}, Awards(r, u, l)
  PROVE  /\ u.state[l] = "granted"
         /\ \A t \in Lists \ {l} : SameLkb(r, u, t)
         /\ \A t \in Lists : Advances(r, u, t)
<1>1. /\ r.state \in [Lists -> LkbStates] /\ r.grant \in [Lists -> Modes]
      /\ r.search \in [Lists -> Searches]
  BY DEF RsbType
<1>2. \A t \in Lists \ {l} : SameLkb(r, u, t)
  BY <1>1 DEF Awards, SameLkb
<1>3. u.state[l] = "granted" /\ Succeeds(r, u, l)
  BY <1>1 DEF Awards, Succeeds
<1> QED
  BY <1>2, <1>3 DEF Advances

LEMMA SameLocksQueued ==
  ASSUME NEW r \in QueuedRsb, NEW t \in SoundRsb, SameLocks(r, t)
  PROVE  t \in QueuedRsb
  BY DEF QueuedRsb, SameLocks, Holders, Waiters

LEMMA WaitStepMoves ==
  ASSUME NEW s \in Scans, s.r \in QueuedRsb, NEW l \in Lists,
         s.r.state[l] = "waiting"
  PROVE  LET t == WaitStep(s, l)
         IN  /\ t \in Scans /\ t.r \in QueuedRsb
             /\ \/ t = s /\ (s.stop \/ s.r.search[l] = "dead")
                \/ t.stop /\ t.r = s.r
                \/ ~s.stop /\ ~t.stop /\ Awards(s.r, t.r, l)
<1> DEFINE r == s.r
           fits == Compatible(r.grant_mode, r.request[l])
           u == [Grant(r, l) EXCEPT !.grant_q = <<l>> \o r.grant_q,
                                    !.wait_q  = Without(r.wait_q, l)]
           t == WaitStep(s, l)
<1>1. /\ r \in SoundRsb /\ r \in RsbType /\ t \in Scans
      /\ LinksOnce(r.grant_q, Holders(r)) /\ LinksOnce(r.wait_q, Waiters(r))
  BY WaitStepSound DEF QueuedRsb, SoundRsb
<1>2. CASE s.stop \/ (fits /\ r.search[l] = "dead")
  BY <1>1, <1>2 DEF WaitStep
<1>3. CASE ~s.stop /\ ~fits
  <2>1. t = [s EXCEPT !.stop = TRUE]
    BY <1>3 DEF WaitStep
  <2>2. t.stop /\ t.r = s.r
    BY <2>1 DEF Scans
  <2> QED
    BY <1>1, <2>2
<1>4. CASE ~s.stop /\ fits /\ r.search[l] # "dead"
  <2>1. t = [s EXCEPT !.r = u]
    BY <1>4 DEF WaitStep
  <2>2. t.r = u /\ t.stop = s.stop
    BY <2>1 DEF Scans
  <2>3. /\ Awards(r, u, l)
        /\ u.grant_q = <<l>> \o r.grant_q /\ u.wait_q = Without(r.wait_q, l)
    BY <1>1, <1>4 DEF Awards, Grant, SetMode, RsbType
  <2>4. u \in SoundRsb
    BY <1>1, <2>2 DEF Scans
  <2> HIDE DEF u, t
  <2>5. /\ Holders(u) = Holders(r) \cup {l}
        /\ Waiters(u) = Waiters(r) \ {l} /\ l \notin Holders(r)
    BY <1>1, <2>3 DEF Awards, Holders, Waiters, RsbType
  <2>6. LinksOnce(u.grant_q, Holders(u))
    BY <1>1, <2>3, <2>5, PrependLinks
  <2>7. LinksOnce(u.wait_q, Waiters(u))
    BY <1>1, <2>3, <2>5, WithoutLinks
  <2>8. u \in QueuedRsb
    BY <2>4, <2>6, <2>7 DEF QueuedRsb
  <2>9. ~t.stop /\ t.r \in QueuedRsb /\ Awards(s.r, t.r, l)
    BY <1>4, <2>2, <2>3, <2>8
  <2> QED
    BY <1>1, <1>4, <2>9 DEF t
<1> QED
  BY <1>2, <1>3, <1>4

LEMMA ConvertStepMoves ==
  ASSUME NEW s \in Scans, s.r \in QueuedRsb, NEW l \in Lists
  PROVE  LET t == ConvertStep(s, l)
         IN  /\ t \in Scans /\ t.r \in QueuedRsb
             /\ t.r.wait_q = s.r.wait_q
             /\ \/ SameLocks(s.r, t.r)
                \/ s.r.state[l] = "convert" /\ Awards(s.r, t.r, l)
<1> DEFINE r == s.r
           others == GroupMode(r, {l})
           alone == r.grant[l] = r.grant_mode
           skip == s.stop \/ r.state[l] # "convert" \/ r.search[l] = "dead"
           Fits(m) == Compatible(m, r.request[l])
           t == ConvertStep(s, l)
           u == t.r
<1>1. /\ r \in SoundRsb /\ r \in RsbType /\ t \in Scans /\ u \in SoundRsb
      /\ LinksOnce(r.grant_q, Holders(r)) /\ LinksOnce(r.wait_q, Waiters(r))
  BY ConvertStepSound DEF QueuedRsb, SoundRsb, Scans
<1>2. ASSUME SameLocks(r, u)
      PROVE  u \in QueuedRsb /\ u.wait_q = r.wait_q
  BY <1>1, <1>2, SameLocksQueued DEF SameLocks
<1>3. ASSUME ~skip, Awards(r, u, l), u.grant_q = r.grant_q, u.wait_q = r.wait_q
      PROVE  u \in QueuedRsb
  <2> HIDE DEF u, t
  <2>1. Holders(u) = Holders(r) /\ Waiters(u) = Waiters(r)
    BY <1>1, <1>3 DEF Awards, Holders, Waiters, RsbType
  <2> QED
    BY <1>1, <1>3, <2>1 DEF QueuedRsb
<1>4. CASE skip
  <2>1. t = s
    BY <1>4 DEF ConvertStep
  <2>2. SameLocks(r, u)
    BY <2>1 DEF SameLocks
  <2> HIDE DEF u, t
  <2> QED
    BY <1>1, <1>2, <2>2 DEF u, t
<1>5. CASE ~skip /\ Fits(r.grant_mode)
  <2>1. t = [s EXCEPT !.r = Grant(r, l)]
    BY <1>5 DEF ConvertStep
  <2>2. u = Grant(r, l)
    BY <2>1 DEF Scans
  <2>3. Awards(r, u, l) /\ u.grant_q = r.grant_q /\ u.wait_q = r.wait_q
    BY <1>1, <1>5, <2>2 DEF Awards, Grant, SetMode, RsbType
  <2> QED
    BY <1>1, <1>3, <1>5, <2>3
<1>6. CASE ~skip /\ ~Fits(r.grant_mode) /\ ~alone
  <2>1. t = [s EXCEPT !.stop = TRUE]
    BY <1>6 DEF ConvertStep
  <2>2. SameLocks(r, u)
    BY <2>1 DEF SameLocks, Scans
  <2> HIDE DEF u, t
  <2> QED
    BY <1>1, <1>2, <2>2 DEF u, t
<1>7. CASE ~skip /\ ~Fits(r.grant_mode) /\ alone /\ Fits(others)
  <2>1. t = [s EXCEPT !.r = Grant(SetMode(r, others), l)]
    BY <1>7 DEF ConvertStep
  <2>2. u = Grant(SetMode(r, others), l)
    BY <2>1 DEF Scans
  <2> HIDE DEF others
  <2>3. Awards(r, u, l) /\ u.grant_q = r.grant_q /\ u.wait_q = r.wait_q
    BY <1>1, <1>7, <2>2 DEF Awards, Grant, SetMode, RsbType
  <2> QED
    BY <1>1, <1>3, <1>7, <2>3
<1>8. CASE ~skip /\ ~Fits(r.grant_mode) /\ alone /\ ~Fits(others)
  <2>1. t = [r |-> [r EXCEPT !.convert_mode = others], stop |-> TRUE]
    BY <1>8 DEF ConvertStep
  <2>2. u = [r EXCEPT !.convert_mode = others]
    BY <2>1
  <2> HIDE DEF others
  <2>3. SameLocks(r, u)
    BY <1>1, <2>2 DEF SameLocks, RsbType
  <2> HIDE DEF u, t
  <2> QED
    BY <1>1, <1>2, <2>3 DEF u, t
<1> QED
  BY <1>4, <1>5, <1>6, <1>7, <1>8

-------------------------------------------------------------------------------
(* What the sweeps do to the locks of every list.                          *)

(* From r to u waiting requests are granted, in the order of the queue:    *)
(* who stays behind keeps back everyone behind him, deadlock victims       *)
(* aside.                                                                  *)
InOrder(r, u, ls) ==
  \A x, y \in ls :
     /\ Behind(r.wait_q, x, y) /\ r.search[x] # "dead"
     /\ u.state[x] = "waiting"
     => u.state[y] = "waiting"

(* New locks are only granted when no conversion is left waiting.          *)
ConvertersFirst(r, u, ls) ==
  \A y \in ls :
     r.state[y] = "waiting" /\ u.state[y] = "granted" => Converters(u) = {}

Serves(r, u) ==
  /\ u \in QueuedRsb
  /\ \A t \in Lists : Advances(r, u, t)
  /\ InOrder(r, u, Lists)
  /\ ConvertersFirst(r, u, Lists)

(* The wait queue of r has been scanned up to its entry i.                 *)
WaitSwept(r, i, s) ==
  /\ s \in Scans /\ s.r \in QueuedRsb
  /\ \A t \in Lists : /\ Advances(r, s.r, t)
                      /\ r.state[t] # "waiting" => s.r.state[t] = r.state[t]
  /\ \A b \in 1..Len(r.wait_q) : b > i => s.r.state[r.wait_q[b]] = "waiting"
  /\ \A a \in 1..Len(r.wait_q) :
        /\ a <= i /\ r.search[r.wait_q[a]] # "dead"
        /\ s.r.state[r.wait_q[a]] = "waiting"
        => /\ s.stop
           /\ \A b \in 1..Len(r.wait_q) :
                 b > a => s.r.state[r.wait_q[b]] = "waiting"

LEMMA WaitSweptStarts ==
  ASSUME NEW r \in QueuedRsb
  PROVE  WaitSwept(r, 0, [r |-> r, stop |-> FALSE])
<1> DEFINE s == [r |-> r, stop |-> FALSE]
<1>1. s \in Scans /\ s.r = r
  BY DEF Scans, QueuedRsb
<1> HIDE DEF s
<1>2. \A t \in Lists : Advances(r, r, t)
  BY DEF Advances, SameLkb
<1>3. \A b \in 1..Len(r.wait_q) : r.state[r.wait_q[b]] = "waiting"
  BY DEF QueuedRsb, LinksOnce, Waiters
<1>4. \A a \in 1..Len(r.wait_q) : ~(a <= 0)
  OBVIOUS
<1>5. WaitSwept(r, 0, s)
  BY <1>1, <1>2, <1>3, <1>4 DEF WaitSwept
<1> QED
  BY <1>5 DEF s

LEMMA WaitSweptStep ==
  ASSUME NEW r \in QueuedRsb, NEW i \in 1..Len(r.wait_q), NEW s,
         WaitSwept(r, i - 1, s)
  PROVE  WaitSwept(r, i, WaitStep(s, r.wait_q[i]))
<1> DEFINE q == r.wait_q
           n == Len(q)
           l == q[i]
           t == WaitStep(s, l)
<1>1. /\ q \in Seq(Lists) /\ n \in Nat
      /\ \A a, b \in 1..n : q[a] = q[b] => a = b
  BY DEF QueuedRsb, LinksOnce
<1>2. l \in Lists /\ s.r.state[l] = "waiting"
  <2>1. i \in 1..n /\ i > i - 1
    BY <1>1
  <2> QED
    BY <1>1, <2>1 DEF WaitSwept
<1>3. /\ s \in Scans /\ s.r \in QueuedRsb /\ s.r \in RsbType
      /\ \A x \in Lists : Advances(r, s.r, x)
  BY DEF WaitSwept, QueuedRsb, SoundRsb
<1>4. /\ t \in Scans /\ t.r \in QueuedRsb
      /\ \/ t = s /\ (s.stop \/ s.r.search[l] = "dead")
         \/ t.stop /\ t.r = s.r
         \/ ~s.stop /\ ~t.stop /\ Awards(s.r, t.r, l)
  BY <1>2, <1>3, WaitStepMoves
<1>5. SameLkb(r, s.r, l) /\ r.state[l] = "waiting"
  BY <1>2, <1>3 DEF Advances, SameLkb, Succeeds
<1> HIDE DEF t
<1>6. \A b \in 1..n : b > i => b > i - 1
  BY <1>1
<1>7. CASE t.r = s.r /\ (s.stop => t.stop) /\ (t.stop \/ s.r.search[l] = "dead")
  <2>1. ASSUME NEW a \in 1..n, a <= i, r.search[q[a]] # "dead",
               t.r.state[q[a]] = "waiting"
        PROVE  /\ t.stop
               /\ \A b \in 1..n : b > a => t.r.state[q[b]] = "waiting"
    <3>1. CASE a = i
      <4>1. t.stop
        BY <1>5, <1>7, <2>1, <3>1 DEF SameLkb
      <4>2. \A b \in 1..n : b > a => t.r.state[q[b]] = "waiting"
        BY <1>6, <1>7, <3>1 DEF WaitSwept
      <4> QED
        BY <4>1, <4>2
    <3>2. CASE a # i
      <4>1. a <= i - 1
        BY <1>1, <2>1, <3>2
      <4> QED
        BY <1>7, <2>1, <4>1 DEF WaitSwept
    <3> QED
      BY <3>1, <3>2
  <2>2. \A b \in 1..n : b > i => t.r.state[q[b]] = "waiting"
    BY <1>6, <1>7 DEF WaitSwept
  <2>3. \A x \in Lists : /\ Advances(r, t.r, x)
                         /\ r.state[x] # "waiting" => t.r.state[x] = r.state[x]
    BY <1>7 DEF WaitSwept
  <2> QED
    BY <1>4, <2>1, <2>2, <2>3 DEF WaitSwept, t
<1>8. CASE ~s.stop /\ ~t.stop /\ Awards(s.r, t.r, l)
  <2>1. /\ t.r.state[l] = "granted"
        /\ \A x \in Lists \ {l} : SameLkb(s.r, t.r, x)
        /\ \A x \in Lists : Advances(s.r, t.r, x)
    BY <1>2, <1>3, <1>8, AwardsAdvances
  <2>2. ASSUME NEW x \in Lists
        PROVE  /\ Advances(r, t.r, x)
               /\ r.state[x] # "waiting" => t.r.state[x] = r.state[x]
    <3>1. Advances(r, t.r, x)
      BY <1>3, <2>1, AdvancesTwice
    <3>2. ASSUME r.state[x] # "waiting" PROVE t.r.state[x] = r.state[x]
      <4>1. x # l /\ s.r.state[x] = r.state[x]
        BY <1>5, <3>2 DEF WaitSwept
      <4> QED
        BY <2>1, <4>1 DEF SameLkb
    <3> QED
      BY <3>1, <3>2
  <2>3. ASSUME NEW b \in 1..n, b > i
        PROVE  t.r.state[q[b]] = "waiting"
    <3>1. b # i
      BY <1>1, <2>3
    <3>2. q[b] \in Lists \ {l}
      BY <1>1, <3>1
    <3>3. s.r.state[q[b]] = "waiting"
      BY <1>6, <2>3 DEF WaitSwept
    <3> QED
      BY <2>1, <3>2, <3>3 DEF SameLkb
  <2>4. ASSUME NEW a \in 1..n, a <= i, r.search[q[a]] # "dead",
               t.r.state[q[a]] = "waiting"
        PROVE  FALSE
    <3>1. a # i
      BY <2>1, <2>4
    <3>2. q[a] \in Lists \ {l}
      BY <1>1, <3>1
    <3>3. a <= i - 1
      BY <1>1, <2>4, <3>1
    <3>4. s.r.state[q[a]] = "waiting"
      BY <2>1, <2>4, <3>2 DEF SameLkb
    <3> QED
      BY <1>8, <2>4, <3>3, <3>4 DEF WaitSwept
  <2> QED
    BY <1>4, <2>2, <2>3, <2>4 DEF WaitSwept, t
<1> QED
  BY <1>4, <1>7, <1>8

(* LK_try_wait serves the wait queue in order.                             *)
LEMMA WaitSweepServes ==
  ASSUME NEW r \in QueuedRsb, Converters(r) = {}
  PROVE  Serves(r, WaitSweep(r))
<1> DEFINE q == r.wait_q
           n == Len(q)
<1>1. r \in SoundRsb /\ n \in Nat /\ DOMAIN q = 1..n
  BY DEF QueuedRsb, LinksOnce
<1>2. PICK at : WaitScan(r, at)
  BY <1>1, WaitSweepScans
<1> DEFINE R == {p \in (0..n) \X Scans : WaitSwept(r, p[1], p[2])}
           g == [i \in 0..n |-> <<i, at[i]>>]
<1>3. \A i \in 0..n : at[i] \in Scans
  BY <1>2 DEF WaitScan
<1>4. \A i \in 0..n : g[i] \in R <=> WaitSwept(r, i, at[i])
  BY <1>3
<1>5. g[0] \in R
  <2>1. WaitSwept(r, 0, at[0]) /\ 0 \in 0..n
    BY <1>1, <1>2, WaitSweptStarts DEF WaitScan
  <2> QED
    BY <1>4, <2>1
<1>6. ASSUME NEW i \in 1..n, g[i - 1] \in R PROVE g[i] \in R
  <2>1. i \in 0..n /\ i - 1 \in 0..n
    BY <1>1
  <2>2. WaitSwept(r, i - 1, at[i - 1])
    BY <1>4, <1>6, <2>1
  <2>3. WaitSwept(r, i, at[i])
    BY <1>2, <2>2, WaitSweptStep DEF WaitScan
  <2> QED
    BY <1>4, <2>1, <2>3
<1> HIDE DEF R, g
<1>7. \A i \in 0..n : g[i] \in R
  BY <1>1, <1>5, <1>6, ScanInduction
<1> DEFINE s == at[n]
           u == s.r
<1>8. WaitSwept(r, n, s) /\ u = WaitSweep(r)
  BY <1>1, <1>2, <1>4, <1>7 DEF WaitScan
<1> HIDE DEF s
<1>9. u \in QueuedRsb /\ \A t \in Lists : Advances(r, u, t)
  BY <1>8 DEF WaitSwept
<1>10. InOrder(r, u, Lists)
  <2>1. ASSUME NEW x \in Lists, NEW y \in Lists, Behind(q, x, y),
               r.search[x] # "dead", u.state[x] = "waiting"
        PROVE  u.state[y] = "waiting"
    <3>1. PICK a, b \in 1..n : a < b /\ q[a] = x /\ q[b] = y
      BY <1>1, <2>1 DEF Behind
    <3>2. a <= n /\ b > a
      BY <1>1, <3>1
    <3> QED
      BY <1>8, <2>1, <3>1, <3>2 DEF WaitSwept
  <2> QED
    BY <2>1 DEF InOrder
<1>11. Converters(u) = {}
  <2>1. \A t \in Lists : u.state[t] = "convert" => r.state[t] = "convert"
    BY <1>9 DEF Advances, SameLkb, Succeeds
  <2> QED
    BY <2>1 DEF Converters
<1> QED
  BY <1>8, <1>9, <1>10, <1>11 DEF Serves, ConvertersFirst

(* The grant queue of r has been scanned: conversions may be granted, the  *)
(* requests on the wait queue are not touched.                             *)
ConvertSwept(r, s) ==
  /\ s \in Scans /\ s.r \in QueuedRsb /\ s.r.wait_q = r.wait_q
  /\ \A t \in Lists : /\ Advances(r, s.r, t)
                      /\ r.state[t] # "convert" => SameLkb(r, s.r, t)

LEMMA ConvertSweptStep ==
  ASSUME NEW r \in QueuedRsb, NEW s, NEW l \in Lists, ConvertSwept(r, s)
  PROVE  ConvertSwept(r, ConvertStep(s, l))
<1> DEFINE t == ConvertStep(s, l)
<1>1. /\ s \in Scans /\ s.r \in QueuedRsb /\ s.r \in RsbType
      /\ \A x \in Lists : Advances(r, s.r, x)
  BY DEF ConvertSwept, QueuedRsb, SoundRsb
<1>2. /\ t \in Scans /\ t.r \in QueuedRsb /\ t.r.wait_q = s.r.wait_q
      /\ \/ SameLocks(s.r, t.r)
         \/ s.r.state[l] = "convert" /\ Awards(s.r, t.r, l)
  BY <1>1, ConvertStepMoves
<1> HIDE DEF t
<1>3. CASE SameLocks(s.r, t.r)
  <2>1. \A x \in Lists : SameLkb(s.r, t.r, x)
    BY <1>3 DEF SameLocks, SameLkb
  <2>2. \A x \in Lists : Advances(r, t.r, x)
    BY <1>1, <2>1, AdvancesTwice DEF Advances
  <2>3. \A x \in Lists : r.state[x] # "convert" => SameLkb(r, t.r, x)
    BY <2>1 DEF ConvertSwept, SameLkb
  <2> QED
    BY <1>2, <2>2, <2>3 DEF ConvertSwept, t
<1>4. CASE s.r.state[l] = "convert" /\ Awards(s.r, t.r, l)
  <2>1. /\ \A x \in Lists \ {l} : SameLkb(s.r, t.r, x)
        /\ \A x \in Lists : Advances(s.r, t.r, x)
    BY <1>1, <1>4, AwardsAdvances
  <2>2. \A x \in Lists : Advances(r, t.r, x)
    BY <1>1, <2>1, AdvancesTwice
  <2>3. ASSUME NEW x \in Lists, r.state[x] # "convert"
        PROVE  SameLkb(r, t.r, x)
    <3>1. SameLkb(r, s.r, x)
      BY <2>3 DEF ConvertSwept
    <3>2. x # l
      BY <1>4, <2>3, <3>1 DEF SameLkb
    <3> QED
      BY <2>1, <3>1, <3>2 DEF SameLkb
  <2> QED
    BY <1>2, <2>2, <2>3 DEF ConvertSwept, t
<1> QED
  BY <1>2, <1>3, <1>4

LEMMA ConvertSweepMoves ==
  ASSUME NEW r \in QueuedRsb
  PROVE  LET u == ConvertSweep(r)
         IN  /\ u \in QueuedRsb /\ u.wait_q = r.wait_q
             /\ \A t \in Lists : /\ Advances(r, u, t)
                                 /\ r.state[t] # "convert" => SameLkb(r, u, t)
<1> DEFINE q == r.grant_q
           n == Len(q)
<1>1. r \in SoundRsb /\ n \in Nat /\ \A i \in 1..n : q[i] \in Lists
  BY DEF QueuedRsb, LinksOnce
<1>2. PICK at : ConvertScan(r, at)
  BY <1>1, ConvertSweepScans
<1> DEFINE R == {s \in Scans : ConvertSwept(r, s)}
<1>3. \A i \in 0..n : at[i] \in Scans
  BY <1>2 DEF ConvertScan
<1>4. at[0] \in R
  <2>1. at[0] = [r |-> r, stop |-> FALSE] /\ at[0] \in Scans
    BY <1>1, <1>2, <1>3 DEF ConvertScan
  <2>2. at[0].r = r
    BY <2>1
  <2>3. \A t \in Lists : SameLkb(r, r, t) /\ Advances(r, r, t)
    BY DEF SameLkb, Advances
  <2> QED
    BY <2>1, <2>2, <2>3 DEF ConvertSwept
<1>5. ASSUME NEW i \in 1..n, at[i - 1] \in R PROVE at[i] \in R
  <2>1. at[i] = ConvertStep(at[i - 1], q[i])
    BY <1>2 DEF ConvertScan
  <2>2. ConvertSwept(r, at[i])
    BY <1>1, <1>5, <2>1, ConvertSweptStep
  <2> QED
    BY <2>2 DEF ConvertSwept
<1> HIDE DEF R
<1>6. \A i \in 0..n : at[i] \in R
  BY <1>1, <1>4, <1>5, ScanInduction
<1>7. ConvertSwept(r, at[n]) /\ at[n].r = ConvertSweep(r)
  BY <1>1, <1>2, <1>6 DEF R, ConvertScan
<1> QED
  BY <1>7 DEF ConvertSwept

-------------------------------------------------------------------------------
(* LK_try_wait and LK_try_convert.                                         *)

LEMMA SetModeLocks ==
  ASSUME NEW r \in RsbType, NEW mode
  PROVE  /\ SameLocks(r, SetMode(r, mode))
         /\ SetMode(r, mode).grant_mode = mode
         /\ SetMode(r, mode).convert_mode = mode
  BY DEF SetMode, RsbType, SameLocks

LEMMA SameLocksServe ==
  ASSUME NEW r, NEW v, SameLocks(r, v), NEW u, Serves(v, u)
  PROVE  Serves(r, u)
<1>1. \A t \in Lists : Advances(r, u, t)
  BY DEF Serves, SameLocks, Advances, SameLkb, Succeeds
<1>2. InOrder(r, u, Lists)
  BY DEF Serves, SameLocks, InOrder
<1>3. ConvertersFirst(r, u, Lists)
  BY DEF Serves, SameLocks, ConvertersFirst
<1> QED
  BY <1>1, <1>2, <1>3 DEF Serves

LEMMA ServesItself ==
  ASSUME NEW r \in QueuedRsb
  PROVE  Serves(r, r)
<1>1. \A t \in Lists : Advances(r, r, t)
  BY DEF Advances, SameLkb
<1>2. \A x, y : Behind(r.wait_q, x, y) => r.state[y] = "waiting"
  BY DEF Behind, QueuedRsb, LinksOnce, Waiters
<1> QED
  BY <1>1, <1>2 DEF Serves, InOrder, ConvertersFirst

LEMMA TryWaitServes ==
  ASSUME NEW r \in RsbType, NEW mode, SetMode(r, mode) \in QueuedRsb,
         Converters(r) = {}
  PROVE  Serves(r, TryWait(r, mode))
<1> DEFINE v == SetMode(r, mode)
<1>1. SameLocks(r, v)
  BY SetModeLocks
<1>2. Converters(v) = {}
  BY <1>1 DEF SameLocks, Converters
<1>3. Serves(v, WaitSweep(v))
  BY <1>2, WaitSweepServes
<1> QED
  BY <1>1, <1>3, SameLocksServe DEF TryWait

LEMMA TryConvertServes ==
  ASSUME NEW r \in RsbType, NEW mode, SetMode(r, mode) \in QueuedRsb
  PROVE  Serves(r, TryConvert(r, mode))
<1> DEFINE v == SetMode(r, mode)
           w == ConvertSweep(v)
           u == TryConvert(r, mode)
<1>1. SameLocks(r, v)
  BY SetModeLocks
<1>2. /\ w \in QueuedRsb /\ w.wait_q = v.wait_q
      /\ \A t \in Lists : /\ Advances(v, w, t)
                          /\ v.state[t] # "convert" => SameLkb(v, w, t)
  BY ConvertSweepMoves
<1>3. w \in SoundRsb /\ w \in RsbType
  BY <1>2 DEF QueuedRsb, SoundRsb
<1>4. Serves(w, u)
  <2>1. CASE Converters(w) = {}
    <3>1. SetMode(w, w.grant_mode) \in QueuedRsb
      BY <1>2, <1>3, SameModeSound, SetModeLocks, SameLocksQueued
    <3>2. u = TryWait(w, w.grant_mode)
      BY <2>1 DEF TryConvert
    <3> HIDE DEF w, u
    <3> QED
      BY <1>3, <2>1, <3>1, <3>2, TryWaitServes
  <2>2. CASE Converters(w) # {}
    <3>1. u = w
      BY <2>2 DEF TryConvert
    <3> QED
      BY <1>2, <3>1, ServesItself
  <2> QED
    BY <2>1, <2>2
<1> HIDE DEF w, v, u
<1>5. \A t \in Lists : Advances(v, u, t)
  BY <1>2, <1>4, AdvancesTwice DEF Serves
<1>6. \A t \in Lists : v.state[t] = "waiting" =>
         w.state[t] = "waiting" /\ w.search[t] = v.search[t]
  BY <1>2 DEF SameLkb
<1>7. ASSUME NEW x \in Lists, NEW y \in Lists, Behind(v.wait_q, x, y),
             v.search[x] # "dead", u.state[x] = "waiting"
      PROVE  u.state[y] = "waiting"
  <2>1. v.state[x] = "waiting"
    BY <1>5, <1>7 DEF Advances, SameLkb, Succeeds
  <2>2. w.search[x] # "dead" /\ Behind(w.wait_q, x, y)
    BY <1>2, <1>6, <1>7, <2>1
  <2> QED
    BY <1>4, <1>7, <2>2 DEF Serves, InOrder
<1>8. ConvertersFirst(v, u, Lists)
  BY <1>4, <1>6 DEF Serves, ConvertersFirst
<1>9. Serves(v, u)
  BY <1>4, <1>5, <1>7, <1>8 DEF Serves, InOrder
<1> QED
  BY <1>1, <1>9, SameLocksServe DEF u

-------------------------------------------------------------------------------
(* What a handler called for list l does to the locks of every list.       *)

Moves(r, u, l) ==
  /\ u \in QueuedRsb
  /\ \A t \in Lists \ {l} : Advances(r, u, t)
  /\ InOrder(r, u, Lists \ {l})
  /\ ConvertersFirst(r, u, Lists \ {l})

LkbIs(u, l, state, grant, request, search) ==
  /\ u.state[l] = state /\ u.grant[l] = grant
  /\ u.request[l] = request /\ u.search[l] = search

(* A handler changes the lock of l first, then serves the queues.          *)
LEMMA HandlerMoves ==
  ASSUME NEW r, NEW v, NEW u, NEW l \in Lists,
         \A t \in Lists \ {l} : SameLkb(r, v, t),
         \A x, y \in Lists \ {l} :
            Behind(r.wait_q, x, y) => Behind(v.wait_q, x, y),
         Serves(v, u)
  PROVE  /\ Moves(r, u, l)
         /\ v.state[l] \in {"free", "granted"} => SameLkb(v, u, l)
<1>1. \A t \in Lists \ {l} : Advances(r, u, t)
  BY DEF Serves, Advances, SameLkb, Succeeds
<1>2. InOrder(r, u, Lists \ {l})
  BY DEF Serves, InOrder, SameLkb
<1>3. ConvertersFirst(r, u, Lists \ {l})
  BY DEF Serves, ConvertersFirst, SameLkb
<1>4. v.state[l] \in {"free", "granted"} => SameLkb(v, u, l)
  BY DEF Serves, Advances, Succeeds
<1> QED
  BY <1>1, <1>2, <1>3, <1>4 DEF Serves, Moves

LEMMA StandsStill ==
  ASSUME NEW r \in QueuedRsb, NEW l \in Lists
  PROVE  Moves(r, r, l)
<1>1. \A t \in Lists \ {l} : SameLkb(r, r, t)
  BY DEF SameLkb
<1> QED
  BY <1>1, ServesItself, HandlerMoves

LEMMA GrantNewMoves ==
  ASSUME NEW r \in QueuedRsb, NEW l \in Lists, NEW m \in Modes,
         r.state[l] = "free", Admits(r, m)
  PROVE  /\ Moves(r, GrantNew(r, l, m), l)
         /\ LkbIs(GrantNew(r, l, m), l, "granted", m, m, "off")
<1> DEFINE t == GrantNew(r, l, m)
<1>1. /\ r \in SoundRsb /\ r \in RsbType /\ Quiet(r)
      /\ LinksOnce(r.grant_q, Holders(r)) /\ LinksOnce(r.wait_q, Waiters(r))
  BY DEF QueuedRsb, SoundRsb
<1>2. t \in SoundRsb
  BY <1>1, GrantNewSound
<1>3. /\ t.state = [r.state EXCEPT ![l] = "granted"]
      /\ t.grant = [r.grant EXCEPT ![l] = m]
      /\ t.request = [r.request EXCEPT ![l] = m]
      /\ t.search = r.search
      /\ t.grant_q = <<l>> \o r.grant_q /\ t.wait_q = r.wait_q
  BY <1>1 DEF GrantNew, RsbType
<1> HIDE DEF t
<1>4. /\ Holders(t) = Holders(r) \cup {l} /\ Waiters(t) = Waiters(r)
      /\ l \notin Holders(r)
  BY <1>1, <1>3 DEF Holders, Waiters, RsbType
<1>5. t \in QueuedRsb
  <2>1. LinksOnce(t.grant_q, Holders(t))
    BY <1>1, <1>3, <1>4, PrependLinks
  <2> QED
    BY <1>1, <1>2, <1>3, <1>4, <2>1 DEF QueuedRsb
<1>6. \A k \in Lists \ {l} : SameLkb(r, t, k)
  BY <1>1, <1>3 DEF SameLkb, RsbType
<1>7. Moves(r, t, l)
  BY <1>3, <1>5, <1>6, ServesItself, HandlerMoves
<1>8. LkbIs(t, l, "granted", m, m, "off")
  BY <1>1, <1>3 DEF LkbIs, RsbType, Quiet
<1> QED
  BY <1>7, <1>8 DEF t

LEMMA QueueNewMoves ==
  ASSUME NEW r \in QueuedRsb, NEW l \in Lists, NEW m \in Modes,
         r.state[l] = "free"
  PROVE  /\ Moves(r, QueueNew(r, l, m), l)
         /\ LkbIs(QueueNew(r, l, m), l, "waiting", N, m,
                  IF l \in Undetected THEN "off" ELSE "listed")
<1> DEFINE t == QueueNew(r, l, m)
<1>1. /\ r \in SoundRsb /\ r \in RsbType /\ Quiet(r)
      /\ LinksOnce(r.grant_q, Holders(r)) /\ LinksOnce(r.wait_q, Waiters(r))
  BY DEF QueuedRsb, SoundRsb
<1>2. t \in SoundRsb
  BY <1>1, QueueNewSound
<1>3. /\ t.state = [r.state EXCEPT ![l] = "waiting"]
      /\ t.grant = r.grant
      /\ t.request = [r.request EXCEPT ![l] = m]
      /\ t.search = [r.search EXCEPT ![l] = IF l \in Undetected THEN "off" ELSE "listed"]
      /\ t.grant_q = r.grant_q /\ t.wait_q = Append(r.wait_q, l)
  BY <1>1 DEF QueueNew, Suspend, RsbType
<1> HIDE DEF t
<1>4. /\ Holders(t) = Holders(r) /\ Waiters(t) = Waiters(r) \cup {l}
      /\ l \notin Waiters(r)
  BY <1>1, <1>3 DEF Holders, Waiters, RsbType
<1>5. /\ LinksOnce(t.wait_q, Waiters(t))
      /\ \A x, y : Behind(r.wait_q, x, y) => Behind(t.wait_q, x, y)
  BY <1>1, <1>3, <1>4, AppendLinks
<1>6. t \in QueuedRsb
  BY <1>1, <1>2, <1>3, <1>4, <1>5 DEF QueuedRsb
<1>7. \A k \in Lists \ {l} : SameLkb(r, t, k)
  BY <1>1, <1>3 DEF SameLkb, RsbType
<1>8. Moves(r, t, l)
  BY <1>5, <1>6, <1>7, ServesItself, HandlerMoves
<1>9. LkbIs(t, l, "waiting", N, m, IF l \in Undetected THEN "off" ELSE "listed")
  BY <1>1, <1>3 DEF LkbIs, RsbType, Quiet
<1> QED
  BY <1>8, <1>9 DEF t

LEMMA QueueConvertMoves ==
  ASSUME NEW r \in QueuedRsb, NEW l \in Lists, NEW m \in Modes,
         r.state[l] = "granted"
  PROVE  /\ Moves(r, QueueConvert(r, l, m), l)
         /\ LkbIs(QueueConvert(r, l, m), l, "convert", r.grant[l], m,
                  IF l \in Undetected THEN "off" ELSE "listed")
<1> DEFINE t == QueueConvert(r, l, m)
<1>1. /\ r \in SoundRsb /\ r \in RsbType
      /\ LinksOnce(r.grant_q, Holders(r)) /\ LinksOnce(r.wait_q, Waiters(r))
  BY DEF QueuedRsb, SoundRsb
<1>2. t \in SoundRsb
  BY <1>1, QueueConvertSound
<1>3. /\ t.state = [r.state EXCEPT ![l] = "convert"]
      /\ t.grant = r.grant
      /\ t.request = [r.request EXCEPT ![l] = m]
      /\ t.search = [r.search EXCEPT ![l] = IF l \in Undetected THEN "off" ELSE "listed"]
      /\ t.grant_q = Append(Without(r.grant_q, l), l) /\ t.wait_q = r.wait_q
  BY <1>1 DEF QueueConvert, Suspend, RsbType
<1> HIDE DEF t
<1>4. /\ Holders(t) = (Holders(r) \ {l}) \cup {l} /\ Waiters(t) = Waiters(r)
  BY <1>1, <1>3 DEF Holders, Waiters, RsbType
<1>5. LinksOnce(Without(r.grant_q, l), Holders(r) \ {l})
  BY <1>1, WithoutLinks
<1>6. LinksOnce(t.grant_q, Holders(t))
  BY <1>3, <1>4, <1>5, AppendLinks
<1>7. t \in QueuedRsb
  BY <1>1, <1>2, <1>3, <1>4, <1>6 DEF QueuedRsb
<1>8. \A k \in Lists \ {l} : SameLkb(r, t, k)
  BY <1>1, <1>3 DEF SameLkb, RsbType
<1>9. Moves(r, t, l)
  BY <1>3, <1>7, <1>8, ServesItself, HandlerMoves
<1>10. LkbIs(t, l, "convert", r.grant[l], m, IF l \in Undetected THEN "off" ELSE "listed")
  BY <1>1, <1>3 DEF LkbIs, RsbType
<1> QED
  BY <1>9, <1>10 DEF t

(* l holds mode m instead of the mode it held.                             *)
Held(r, l, m) == [r EXCEPT !.grant[l] = m, !.request[l] = m]

LEMMA HeldQueued ==
  ASSUME NEW r \in QueuedRsb, NEW l \in Lists, NEW m \in Modes,
         r.state[l] = "granted", Convertible(r, l, m)
  PROVE  LET held == Held(r, l, m)
             mode == Higher(ConvertGroup(r, l), m)
         IN  /\ held \in RsbType /\ held.state = r.state /\ held.search = r.search
             /\ held.grant = [r.grant EXCEPT ![l] = m]
             /\ held.request = [r.request EXCEPT ![l] = m]
             /\ held.grant_q = r.grant_q /\ held.wait_q = r.wait_q
             /\ Holders(held) = Holders(r) /\ Waiters(held) = Waiters(r)
             /\ Converters(held) = Converters(r)
             /\ OnlyHolder(r, l) => SetMode(held, m) \in QueuedRsb
             /\ ~OnlyHolder(r, l) => SetMode(held, mode) \in QueuedRsb
<1> DEFINE held == Held(r, l, m)
           mode == Higher(ConvertGroup(r, l), m)
<1>1. /\ r \in SoundRsb /\ r \in RsbType
      /\ LinksOnce(r.grant_q, Holders(r)) /\ LinksOnce(r.wait_q, Waiters(r))
  BY DEF QueuedRsb, SoundRsb
<1>2. /\ held \in RsbType /\ held.state = r.state /\ held.search = r.search
      /\ held.grant = [r.grant EXCEPT ![l] = m]
      /\ held.request = [r.request EXCEPT ![l] = m]
      /\ held.grant_q = r.grant_q /\ held.wait_q = r.wait_q
  BY <1>1 DEF Held, RsbType
<1>3. /\ OnlyHolder(r, l) => SetMode(held, m) \in SoundRsb
      /\ ~OnlyHolder(r, l) => SetMode(held, mode) \in SoundRsb
  BY <1>1, ConvertedSound DEF Held
<1> HIDE DEF held, mode
<1>4. /\ Holders(held) = Holders(r) /\ Waiters(held) = Waiters(r)
      /\ Converters(held) = Converters(r)
  BY <1>2 DEF Holders, Waiters, Converters
<1>5. ASSUME NEW n, SetMode(held, n) \in SoundRsb
      PROVE  SetMode(held, n) \in QueuedRsb
  <2>1. SameLocks(held, SetMode(held, n))
    BY <1>2, SetModeLocks
  <2>2. /\ Holders(SetMode(held, n)) = Holders(r)
        /\ Waiters(SetMode(held, n)) = Waiters(r)
    BY <1>4, <2>1 DEF SameLocks, Holders, Waiters
  <2> QED
    BY <1>1, <1>2, <1>5, <2>1, <2>2 DEF QueuedRsb, SameLocks
<1> QED
  BY <1>2, <1>3, <1>4, <1>5 DEF held, mode

LEMMA GrantConvertMoves ==
  ASSUME NEW r \in QueuedRsb, NEW l \in Lists, NEW m \in Modes,
         r.state[l] = "granted", Convertible(r, l, m)
  PROVE  /\ Moves(r, GrantConvert(r, l, m), l)
         /\ LkbIs(GrantConvert(r, l, m), l, "granted", m, m, "off")
<1> DEFINE held == Held(r, l, m)
           mode == Higher(ConvertGroup(r, l), m)
           u == GrantConvert(r, l, m)
<1>1. r \in RsbType /\ Quiet(r)
  BY DEF QueuedRsb, SoundRsb
<1>2. /\ held \in RsbType /\ held.state = r.state /\ held.search = r.search
      /\ held.grant = [r.grant EXCEPT ![l] = m]
      /\ held.request = [r.request EXCEPT ![l] = m]
      /\ held.grant_q = r.grant_q /\ held.wait_q = r.wait_q
      /\ Converters(held) = Converters(r)
  BY HeldQueued
<1>3. /\ OnlyHolder(r, l) => SetMode(held, m) \in QueuedRsb
      /\ ~OnlyHolder(r, l) => SetMode(held, mode) \in QueuedRsb
  BY HeldQueued
<1>4. u = IF OnlyHolder(r, l) THEN TryWait(held, m)
          ELSE IF Leads(r, l) THEN TryConvert(held, mode)
          ELSE SetMode(held, mode)
  BY DEF GrantConvert, Held
<1> HIDE DEF held, mode, u
<1>5. Serves(held, u)
  <2>1. CASE OnlyHolder(r, l)
    <3>1. Converters(held) = {}
      BY <1>2, <2>1 DEF OnlyHolder, Holders, Converters
    <3> QED
      BY <1>2, <1>3, <1>4, <2>1, <3>1, TryWaitServes
  <2>2. CASE ~OnlyHolder(r, l) /\ Leads(r, l)
    BY <1>2, <1>3, <1>4, <2>2, TryConvertServes
  <2>3. CASE ~OnlyHolder(r, l) /\ ~Leads(r, l)
    <3>1. u = SetMode(held, mode) /\ u \in QueuedRsb
      BY <1>3, <1>4, <2>3
    <3>2. Serves(u, u) /\ SameLocks(held, u)
      BY <1>2, <3>1, ServesItself, SetModeLocks
    <3> QED
      BY <3>2, SameLocksServe
  <2> QED
    BY <2>1, <2>2, <2>3
<1>6. \A k \in Lists \ {l} : SameLkb(r, held, k)
  BY <1>1, <1>2 DEF SameLkb, RsbType
<1>7. LkbIs(held, l, "granted", m, m, "off")
  BY <1>1, <1>2 DEF LkbIs, RsbType, Quiet
<1>8. Moves(r, u, l) /\ SameLkb(held, u, l)
  BY <1>2, <1>5, <1>6, <1>7, HandlerMoves DEF LkbIs
<1> QED
  BY <1>7, <1>8 DEF u, LkbIs, SameLkb

(* A lock block taken off the queues.                                      *)
LEMMA RemovedQueued ==
  ASSUME NEW r \in QueuedRsb, NEW l \in Lists
  PROVE  LET t == Removed(r, l)
         IN  /\ t \in QueuedRsb
             /\ \A k \in Lists \ {l} : SameLkb(r, t, k)
             /\ \A x, y \in Lists \ {l} :
                   Behind(r.wait_q, x, y) => Behind(t.wait_q, x, y)
             /\ LkbIs(t, l, "free", N, N, "off")
<1> DEFINE t == Removed(r, l)
<1>1. /\ r \in SoundRsb /\ r \in RsbType
      /\ LinksOnce(r.grant_q, Holders(r)) /\ LinksOnce(r.wait_q, Waiters(r))
  BY DEF QueuedRsb, SoundRsb
<1>2. t \in SoundRsb
  BY <1>1, RemovedSound
<1>3. /\ t.state = [r.state EXCEPT ![l] = "free"]
      /\ t.grant = [r.grant EXCEPT ![l] = N]
      /\ t.request = [r.request EXCEPT ![l] = N]
      /\ t.search = [r.search EXCEPT ![l] = "off"]
      /\ t.grant_q = Without(r.grant_q, l)
      /\ t.wait_q = Without(r.wait_q, l)
  BY <1>1 DEF Removed, RsbType
<1> HIDE DEF t
<1>4. /\ Holders(t) = Holders(r) \ {l} /\ Waiters(t) = Waiters(r) \ {l}
  BY <1>1, <1>3 DEF Holders, Waiters, RsbType
<1>5. LinksOnce(t.grant_q, Holders(t))
  BY <1>1, <1>3, <1>4, WithoutLinks
<1>6. /\ LinksOnce(t.wait_q, Waiters(t))
      /\ \A x, y : /\ Behind(r.wait_q, x, y) /\ x # l /\ y # l
                   => Behind(t.wait_q, x, y)
  BY <1>1, <1>3, <1>4, WithoutLinks
<1>7. t \in QueuedRsb
  BY <1>2, <1>5, <1>6 DEF QueuedRsb
<1>8. \A k \in Lists \ {l} : SameLkb(r, t, k)
  BY <1>1, <1>3 DEF SameLkb, RsbType
<1>9. LkbIs(t, l, "free", N, N, "off")
  BY <1>1, <1>3 DEF LkbIs, RsbType
<1> QED
  BY <1>6, <1>7, <1>8, <1>9 DEF t

(* After the lock of l was removed, the queues are served.                 *)
LEMMA RemovedMoves ==
  ASSUME NEW r \in QueuedRsb, NEW l \in Lists, NEW u, Serves(Removed(r, l), u)
  PROVE  Moves(r, u, l) /\ LkbIs(u, l, "free", N, N, "off")
<1> DEFINE t == Removed(r, l)
<1>1. /\ \A k \in Lists \ {l} : SameLkb(r, t, k)
      /\ \A x, y \in Lists \ {l} :
            Behind(r.wait_q, x, y) => Behind(t.wait_q, x, y)
      /\ LkbIs(t, l, "free", N, N, "off")
  BY RemovedQueued
<1> HIDE DEF t
<1>2. Serves(t, u)
  BY DEF t
<1>3. Moves(r, u, l) /\ SameLkb(t, u, l)
  BY <1>1, <1>2, HandlerMoves DEF LkbIs
<1> QED
  BY <1>1, <1>3 DEF LkbIs, SameLkb

LEMMA UnlockGrantedMoves ==
  ASSUME NEW r \in QueuedRsb, NEW l \in Lists
  PROVE  /\ Moves(r, UnlockGranted(r, l), l)
         /\ LkbIs(UnlockGranted(r, l), l, "free", N, N, "off")
<1> DEFINE t == Removed(r, l)
           g == GroupMode(t, {})
           u == UnlockGranted(r, l)
<1>1. t \in QueuedRsb /\ t \in SoundRsb /\ t \in RsbType
  BY RemovedQueued DEF QueuedRsb, SoundRsb
<1>2. u = IF Holders(t) = {}
            THEN IF Waiters(t) = {}
                   THEN [SetMode(t, N) EXCEPT !.allocated = FALSE]
                   ELSE TryWait(t, N)
            ELSE IF \/ t.state[Head(t.grant_q)] # "granted"
                    \/ r.grant[l] = r.convert_mode
                   THEN TryConvert(t, g)
                   ELSE t
  BY DEF UnlockGranted
<1>3. Serves(Removed(r, l), u) <=> Serves(t, u)
  OBVIOUS
<1> HIDE DEF t, u, g
<1>4. ASSUME Holders(t) = {} PROVE Serves(t, u)
  <2>1. /\ SetMode(t, N) \in SoundRsb
        /\ [SetMode(t, N) EXCEPT !.allocated = FALSE] \in SoundRsb
    BY <1>1, <1>4, UnheldSound
  <2>2. Converters(t) = {}
    BY <1>4 DEF Holders, Converters
  <2>3. CASE Waiters(t) = {}
    <3>1. u \in SoundRsb /\ u = [SetMode(t, N) EXCEPT !.allocated = FALSE]
      BY <1>2, <1>4, <2>1, <2>3
    <3>2. SameLocks(t, u)
      BY <1>1, <3>1 DEF SameLocks, SetMode, RsbType
    <3>3. Serves(u, u)
      BY <1>1, <3>1, <3>2, SameLocksQueued, ServesItself
    <3> QED
      BY <3>2, <3>3, SameLocksServe
  <2>4. CASE Waiters(t) # {}
    <3>1. SetMode(t, N) \in QueuedRsb
      BY <1>1, <2>1, SetModeLocks, SameLocksQueued
    <3> QED
      BY <1>1, <1>2, <1>4, <2>2, <2>4, <3>1, TryWaitServes
  <2> QED
    BY <2>3, <2>4
<1>5. ASSUME Holders(t) # {} PROVE Serves(t, u)
  <2>1. SetMode(t, g) \in QueuedRsb
    BY <1>1, RecomputedSound, SetModeLocks, SameLocksQueued DEF g
  <2>2. Serves(t, TryConvert(t, g))
    BY <1>1, <2>1, TryConvertServes
  <2>3. Serves(t, t)
    BY <1>1, ServesItself
  <2> QED
    BY <1>2, <1>5, <2>2, <2>3
<1>6. Serves(t, u)
  BY <1>4, <1>5
<1> QED
  BY <1>3, <1>6, RemovedMoves DEF u

LEMMA UnlockWaitingMoves ==
  ASSUME NEW r \in QueuedRsb, NEW l \in Lists
  PROVE  /\ Moves(r, UnlockWaiting(r, l), l)
         /\ LkbIs(UnlockWaiting(r, l), l, "free", N, N, "off")
<1> DEFINE t == Removed(r, l)
           v == [t EXCEPT !.convert_mode = t.grant_mode]
           u == UnlockWaiting(r, l)
<1>1. t \in QueuedRsb /\ t \in SoundRsb /\ t \in RsbType
  BY RemovedQueued DEF QueuedRsb, SoundRsb
<1>2. u = IF Waiters(t) # {} /\ Converters(t) = {}
            THEN TryWait(t, t.grant_mode) ELSE v
  BY DEF UnlockWaiting
<1>3. Serves(Removed(r, l), u) <=> Serves(t, u)
  OBVIOUS
<1>4. /\ v \in RsbType /\ v.state = t.state /\ v.grant = t.grant
      /\ v.search = t.search /\ v.grant_mode = t.grant_mode
      /\ SameLocks(t, v)
  BY <1>1 DEF RsbType, SameLocks
<1> HIDE DEF t, u, v
<1>5. Serves(t, v)
  <2>1. v \in SoundRsb
    BY <1>1, <1>4, RelinkedSound
  <2>2. Serves(v, v)
    BY <1>1, <1>4, <2>1, SameLocksQueued, ServesItself
  <2> QED
    BY <1>4, <2>2, SameLocksServe
<1>6. ASSUME Converters(t) = {} PROVE Serves(t, TryWait(t, t.grant_mode))
  <2>1. SetMode(t, t.grant_mode) \in QueuedRsb
    BY <1>1, SameModeSound, SetModeLocks, SameLocksQueued
  <2> QED
    BY <1>1, <1>6, <2>1, TryWaitServes
<1>7. Serves(t, u)
  BY <1>2, <1>5, <1>6
<1> QED
  BY <1>3, <1>7, RemovedMoves DEF u

(* The conversion of l is taken back, its lock block linked in first.      *)
Back(r, l) ==
  [r EXCEPT !.state[l] = "granted", !.request[l] = r.grant[l],
            !.search[l] = "off",
            !.grant_q = <<l>> \o Without(r.grant_q, l)]

LEMMA BackQueued ==
  ASSUME NEW r \in QueuedRsb, NEW l \in Lists, r.state[l] = "convert"
  PROVE  LET back == Back(r, l)
         IN  /\ back \in QueuedRsb /\ back \in SoundRsb /\ back \in RsbType
             /\ back.state = [r.state EXCEPT ![l] = "granted"]
             /\ back.request = [r.request EXCEPT ![l] = r.grant[l]]
             /\ back.search = [r.search EXCEPT ![l] = "off"]
             /\ back.grant = r.grant /\ back.grant_mode = r.grant_mode
             /\ back.wait_q = r.wait_q
             /\ Holders(back) = Holders(r) /\ Waiters(back) = Waiters(r)
<1> DEFINE back == Back(r, l)
<1>1. /\ r \in SoundRsb /\ r \in RsbType /\ Quiet(r)
      /\ LinksOnce(r.grant_q, Holders(r)) /\ LinksOnce(r.wait_q, Waiters(r))
  BY DEF QueuedRsb, SoundRsb
<1>2. <<l>> \o Without(r.grant_q, l) \in Seq(Lists)
  BY <1>1, WithoutType DEF RsbType
<1>3. back \in RsbType
  BY <1>1, <1>2 DEF Back, RsbType, LkbStates, Searches
<1>4. /\ back.state = [r.state EXCEPT ![l] = "granted"]
      /\ back.request = [r.request EXCEPT ![l] = r.grant[l]]
      /\ back.search = [r.search EXCEPT ![l] = "off"]
      /\ back.grant = r.grant /\ back.grant_mode = r.grant_mode
      /\ back.grant_q = <<l>> \o Without(r.grant_q, l)
      /\ back.wait_q = r.wait_q
  BY <1>1 DEF Back, RsbType
<1> HIDE DEF back
<1>5. Quiet(back) /\ Holders(back) = Holders(r)
  BY <1>1, <1>4 DEF Quiet, Holders, RsbType
<1>6. \A h \in Holders(back) :
         back.grant[h] = r.grant[h] /\ Under(back.grant[h], back.grant_mode)
  BY <1>1, <1>4, <1>5 DEF SoundRsb, Covered, Under
<1>7. back \in SoundRsb
  BY <1>1, <1>3, <1>5, <1>6, KeepsSound
<1>8. Waiters(back) = Waiters(r) /\ l \in Holders(r)
  BY <1>1, <1>4 DEF Waiters, Holders, RsbType
<1>9. LinksOnce(back.grant_q, Holders(back))
  <2>1. LinksOnce(Without(r.grant_q, l), Holders(r) \ {l})
    BY <1>1, WithoutLinks
  <2>2. LinksOnce(back.grant_q, (Holders(r) \ {l}) \cup {l})
    BY <1>4, <2>1, PrependLinks
  <2>3. (Holders(r) \ {l}) \cup {l} = Holders(back)
    BY <1>5, <1>8
  <2> QED
    BY <2>2, <2>3
<1>10. back \in QueuedRsb
  BY <1>1, <1>4, <1>7, <1>8, <1>9 DEF QueuedRsb
<1> QED
  BY <1>3, <1>4, <1>5, <1>7, <1>8, <1>10 DEF back

LEMMA CancelConvertMoves ==
  ASSUME NEW r \in QueuedRsb, NEW l \in Lists, r.state[l] = "convert"
  PROVE  /\ Moves(r, CancelConvert(r, l), l)
         /\ LkbIs(CancelConvert(r, l), l, "granted", r.grant[l], r.grant[l], "off")
<1> DEFINE back == Back(r, l)
           u == CancelConvert(r, l)
<1>1. r \in RsbType
  BY DEF QueuedRsb, SoundRsb
<1>2. /\ back \in QueuedRsb /\ back \in SoundRsb /\ back \in RsbType
      /\ back.state = [r.state EXCEPT ![l] = "granted"]
      /\ back.request = [r.request EXCEPT ![l] = r.grant[l]]
      /\ back.search = [r.search EXCEPT ![l] = "off"]
      /\ back.grant = r.grant /\ back.wait_q = r.wait_q
  BY BackQueued
<1>3. u = TryConvert(back, back.grant_mode)
  BY DEF CancelConvert, Back
<1> HIDE DEF back, u
<1>4. Serves(back, u)
  <2>1. SetMode(back, back.grant_mode) \in QueuedRsb
    BY <1>2, SameModeSound, SetModeLocks, SameLocksQueued
  <2> QED
    BY <1>2, <1>3, <2>1, TryConvertServes
<1>5. \A k \in Lists \ {l} : SameLkb(r, back, k)
  BY <1>1, <1>2 DEF SameLkb, RsbType
<1>6. LkbIs(back, l, "granted", r.grant[l], r.grant[l], "off")
  BY <1>1, <1>2 DEF LkbIs, RsbType
<1>7. Moves(r, u, l) /\ SameLkb(back, u, l)
  BY <1>2, <1>4, <1>5, <1>6, HandlerMoves DEF LkbIs
<1> QED
  BY <1>6, <1>7 DEF u, LkbIs, SameLkb

(* Another mode is recorded as requested; nothing else changes.            *)
LEMMA RequestMoves ==
  ASSUME NEW r \in QueuedRsb, NEW l \in Lists, NEW n \in Modes,
         r.state[l] = "granted"
  PROVE  LET u == [r EXCEPT !.request[l] = n]
         IN  Moves(r, u, l) /\ LkbIs(u, l, "granted", r.grant[l], n, "off")
<1> DEFINE u == [r EXCEPT !.request[l] = n]
<1>1. /\ r \in SoundRsb /\ r \in RsbType /\ Quiet(r)
  BY DEF QueuedRsb, SoundRsb
<1>2. /\ u \in RsbType /\ u.state = r.state /\ u.grant = r.grant
      /\ u.request = [r.request EXCEPT ![l] = n]
      /\ u.search = r.search /\ u.grant_mode = r.grant_mode
      /\ u.grant_q = r.grant_q /\ u.wait_q = r.wait_q
  BY <1>1 DEF RsbType
<1> HIDE DEF u
<1>3. u \in SoundRsb
  BY <1>1, <1>2, RelinkedSound
<1>4. u \in QueuedRsb
  BY <1>2, <1>3 DEF QueuedRsb, Holders, Waiters
<1>5. \A k \in Lists \ {l} : SameLkb(r, u, k)
  BY <1>1, <1>2 DEF SameLkb, RsbType
<1>6. Moves(r, u, l)
  BY <1>2, <1>4, <1>5, ServesItself, HandlerMoves
<1>7. LkbIs(u, l, "granted", r.grant[l], n, "off")
  BY <1>1, <1>2 DEF LkbIs, RsbType, Quiet
<1> QED
  BY <1>6, <1>7 DEF u

(* A lock that waits has been searched for deadlock.                       *)
LEMMA SearchMoves ==
  ASSUME NEW r \in QueuedRsb, NEW l \in Lists, NEW found \in {"off", "dead"},
         r.search[l] = "listed"
  PROVE  LET u == [r EXCEPT !.search[l] = found]
         IN  /\ Moves(r, u, l) /\ u.state = r.state
             /\ LkbIs(u, l, r.state[l], r.grant[l], r.request[l], found)
             /\ r.state[l] \in {"waiting", "convert"}
<1> DEFINE u == [r EXCEPT !.search[l] = found]
<1>1. /\ r \in SoundRsb /\ r \in RsbType /\ Quiet(r)
  BY DEF QueuedRsb, SoundRsb
<1>2. /\ u \in RsbType /\ u.state = r.state /\ u.grant = r.grant
      /\ u.search = [r.search EXCEPT ![l] = found]
      /\ u.request = r.request /\ u.grant_mode = r.grant_mode
      /\ u.grant_q = r.grant_q /\ u.wait_q = r.wait_q
  BY <1>1 DEF RsbType, Searches
<1> HIDE DEF u
<1>3. r.state[l] \in {"waiting", "convert"}
  BY <1>1 DEF Quiet, RsbType, LkbStates
<1>4. Quiet(u) /\ Holders(u) = Holders(r)
  BY <1>1, <1>2, <1>3 DEF Quiet, Holders, RsbType
<1>5. \A h \in Holders(u) :
         u.grant[h] = r.grant[h] /\ Under(u.grant[h], u.grant_mode)
  BY <1>1, <1>2, <1>4 DEF SoundRsb, Covered, Under
<1>6. u \in SoundRsb
  BY <1>1, <1>2, <1>4, <1>5, KeepsSound
<1>7. u \in QueuedRsb
  BY <1>2, <1>6 DEF QueuedRsb, Holders, Waiters
<1>8. \A k \in Lists \ {l} : SameLkb(r, u, k)
  BY <1>1, <1>2 DEF SameLkb, RsbType
<1>9. Moves(r, u, l)
  BY <1>2, <1>7, <1>8, ServesItself, HandlerMoves
<1>10. LkbIs(u, l, r.state[l], r.grant[l], r.request[l], found)
  BY <1>1, <1>2 DEF LkbIs, RsbType
<1> QED
  BY <1>2, <1>3, <1>9, <1>10 DEF u

-------------------------------------------------------------------------------
(* The actions.                                                            *)

SearchStart(l) == IF l \in Undetected THEN "off" ELSE "listed"

(* What each action makes of the lock of its list, and of the others.      *)
LEMMA ActionsMove ==
  ASSUME rsb \in QueuedRsb, NEW l \in Lists, NEW m \in Modes
  PROVE  /\ NewGranted(l, m) =>
              Moves(rsb, rsb', l) /\ LkbIs(rsb', l, "granted", m, m, "off")
         /\ NewWaits(l, m) =>
              /\ Moves(rsb, rsb', l)
              /\ LkbIs(rsb', l, "waiting", N, m, SearchStart(l))
         /\ Converted(l, m) =>
              Moves(rsb, rsb', l) /\ LkbIs(rsb', l, "granted", m, m, "off")
         /\ ConversionRefused(l, m) =>
              /\ Moves(rsb, rsb', l)
              /\ LkbIs(rsb', l, "granted", rsb.grant[l], m, "off")
         /\ ConversionWaits(l, m) =>
              /\ Moves(rsb, rsb', l)
              /\ LkbIs(rsb', l, "convert", rsb.grant[l], m, SearchStart(l))
         /\ Unlocked(l) =>
              Moves(rsb, rsb', l) /\ LkbIs(rsb', l, "free", N, N, "off")
         /\ WaitCancelled(l) =>
              Moves(rsb, rsb', l) /\ LkbIs(rsb', l, "free", N, N, "off")
         /\ ConversionCancelled(l) =>
              /\ Moves(rsb, rsb', l)
              /\ LkbIs(rsb', l, "granted", rsb.grant[l], rsb.grant[l], "off")
<1>1. NewGranted(l, m) =>
        Moves(rsb, rsb', l) /\ LkbIs(rsb', l, "granted", m, m, "off")
  BY GrantNewMoves DEF NewGranted
<1>2. NewWaits(l, m) =>
        /\ Moves(rsb, rsb', l)
        /\ LkbIs(rsb', l, "waiting", N, m, SearchStart(l))
  BY QueueNewMoves DEF NewWaits, SearchStart
<1>3. Converted(l, m) =>
        Moves(rsb, rsb', l) /\ LkbIs(rsb', l, "granted", m, m, "off")
  BY GrantConvertMoves DEF Converted, Converts
<1>4. ConversionRefused(l, m) =>
        /\ Moves(rsb, rsb', l)
        /\ LkbIs(rsb', l, "granted", rsb.grant[l], m, "off")
  BY RequestMoves DEF ConversionRefused, Converts
<1>5. ConversionWaits(l, m) =>
        /\ Moves(rsb, rsb', l)
        /\ LkbIs(rsb', l, "convert", rsb.grant[l], m, SearchStart(l))
  BY QueueConvertMoves DEF ConversionWaits, Converts, SearchStart
<1>6. Unlocked(l) =>
        Moves(rsb, rsb', l) /\ LkbIs(rsb', l, "free", N, N, "off")
  BY UnlockGrantedMoves DEF Unlocked
<1>7. WaitCancelled(l) =>
        Moves(rsb, rsb', l) /\ LkbIs(rsb', l, "free", N, N, "off")
  BY UnlockWaitingMoves DEF WaitCancelled
<1>8. ConversionCancelled(l) =>
        /\ Moves(rsb, rsb', l)
        /\ LkbIs(rsb', l, "granted", rsb.grant[l], rsb.grant[l], "off")
  BY CancelConvertMoves DEF ConversionCancelled
<1> QED
  BY <1>1, <1>2, <1>3, <1>4, <1>5, <1>6, <1>7, <1>8

LEMMA SearchedMoves ==
  ASSUME rsb \in QueuedRsb, NEW l \in Lists, NEW victim \in BOOLEAN,
         Searched(l, victim)
  PROVE  /\ Moves(rsb, rsb', l) /\ rsb'.state = rsb.state
         /\ rsb.search[l] = "listed"
         /\ rsb.state[l] \in {"waiting", "convert"}
         /\ LkbIs(rsb', l, rsb.state[l], rsb.grant[l], rsb.request[l],
                  IF victim THEN "dead" ELSE "off")
<1> DEFINE found == IF victim THEN "dead" ELSE "off"
<1>1. found \in {"off", "dead"}
  OBVIOUS
<1>2. rsb' = [rsb EXCEPT !.search[l] = found] /\ rsb.search[l] = "listed"
  BY DEF Searched
<1> HIDE DEF found
<1> QED
  BY <1>1, <1>2, SearchMoves DEF found

LEMMA FreshQueued == FreshRsb \in QueuedRsb
<1>1. FreshRsb \in RsbType
  BY NullMode DEF FreshRsb, RsbType, LkbStates, Searches
<1>2. Holders(FreshRsb) = {} /\ Waiters(FreshRsb) = {} /\ Quiet(FreshRsb)
  BY DEF FreshRsb, Holders, Waiters, Quiet
<1>3. FreshRsb \in SoundRsb
  BY <1>1, <1>2 DEF SoundRsb, Covered, CompatibleHolders
<1>4. FreshRsb.grant_q = <<>> /\ FreshRsb.wait_q = <<>>
  BY DEF FreshRsb
<1>5. LinksOnce(<<>>, {})
  BY DEF LinksOnce
<1> QED
  BY <1>2, <1>3, <1>4, <1>5 DEF QueuedRsb
=============================================================================
