------------------------------ MODULE LockModes ------------------------------
(***************************************************************************)
(* Lock modes of the Ingres lock manager, the compatibility table          *)
(* LK_compatible (back/dmf/lk/lkdata.c) and the implicit conversion table  *)
(* LK_convert_mode (back/dmf/lk/lkrqst.c).  Modes are the small integers   *)
(* of the code: the lock manager takes the numeric maximum of the modes    *)
(* held on a resource as that resource's group mode.                       *)
(***************************************************************************)
EXTENDS Integers

N   == 0
IS  == 1
IX  == 2
S   == 3
SIX == 4
U   == 5
X   == 6

Modes == 0..6

(* No mode: the resource is not locked.                                    *)
NoLock == -1

(* LK_compatible[granted] >> requested, one row of set bits per mode.      *)
CompatibleWith ==
  [granted \in Modes |->
     CASE granted = N   -> Modes
       [] granted = IS  -> {N, IS, IX, S, SIX}
       [] granted = IX  -> {N, IS, IX}
       [] granted = S   -> {N, IS, S, U}
       [] granted = SIX -> {N, IS}
       [] granted = U   -> {N}
       [] granted = X   -> {N}]

Compatible(granted, requested) == requested \in CompatibleWith[granted]

(* Modes that may be held together: compatible in one of the directions    *)
(* of the table, which is not symmetric (LK_U is granted beside LK_S, not  *)
(* the other way round).  LK_IS and LK_U exclude each other in the table,  *)
(* yet meet when an LK_S holder makes LK_S the group mode both are         *)
(* admitted by.                                                            *)
Coexist(m, n) ==
  Compatible(m, n) \/ Compatible(n, m) \/ {m, n} = {IS, U}

(* LK_convert_mode[granted][requested]: the mode a second request by the   *)
(* same lock list converts its lock to.                                    *)
ConvertMode ==
  [granted \in Modes |->
     [requested \in Modes |->
        CASE granted = IX /\ requested = S                     -> SIX
          [] granted = IX /\ requested = U                     -> X
          [] granted = S /\ requested = IX                     -> SIX
          [] granted = U /\ requested = IX                     -> X
          [] granted = U /\ requested \in {S, SIX}             -> requested
          [] granted = SIX /\ requested = U                    -> SIX
          [] OTHER -> IF requested > granted THEN requested ELSE granted]]

Higher(m, n) == IF m >= n THEN m ELSE n

(* Highest of a set of modes, LK_N for the empty set: the loop over a      *)
(* grant queue that starts from LK_N and keeps the largest grant mode.     *)
Highest(ms) == CHOOSE m \in ms \cup {N} : \A n \in ms : n <= m
=============================================================================
