--------------------------- MODULE SpinLockProofs ---------------------------
(***************************************************************************)
(* InterruptSpinlock for any number of processors: its guards exclude each *)
(* other until force_unlock is used, and irq_handler never waits for the   *)
(* code it interrupted.                                                    *)
(***************************************************************************)
EXTENDS SpinLock, TLAPS

(* Interrupts reach a CPU only while its own code has no guard and wants   *)
(* none; a user task that faulted had none, and neither has irq_handler    *)
(* below a report about it.                                                *)
QuietBelow ==
    \A c \in LockCpu :
        /\ level[c] = 0 /\ flag_if[c] => where[c][0] = "out"
        /\ level[c] = 1 => where[c][0] = "out"
        /\ level[c] = 2 /\ user[c] => where[c][0] = "out" /\ where[c][1] = "out"

(* The guard of a handler never records enabled interrupts.                *)
HandlersStayOff ==
    \A c \in LockCpu :
        /\ level[c] > 0 => ~flag_if[c]
        /\ level[c] = 1 /\ where[c][1] # "out" => ~ie[c][1]

(* try_lock and force_unlock belong to exception_handler.                  *)
OnlyExceptionsForce ==
    \A c \in LockCpu, l \in Level : where[c][l] \in {"try", "force", "halt"} => l = 2

LockInv ==
    /\ LockTypeOK
    /\ OnlyExceptionsForce
    /\ QuietBelow
    /\ HandlersStayOff
    /\ ExclusiveUnlessForced
    /\ FlagMatchesGuards

LEMMA LevelFacts == {0, 1, 2} = Level /\ 0 # 1 /\ 1 # 2 /\ 0 # 2
  BY DEF Level

LEMMA LockInitInv == LockInit => LockInv
<1> SUFFICES ASSUME LockInit PROVE LockInv
  OBVIOUS
<1>0. \A c \in LockCpu, l \in Level : where[c][l] = "out" /\ level[c] = 0
  BY DEF LockInit
<1>1. LockTypeOK
  <2>1. /\ level \in [LockCpu -> Level] /\ where \in [LockCpu -> [Level -> Where]]
        /\ ie \in [LockCpu -> [Level -> BOOLEAN]]
    BY LevelFacts DEF LockInit, Where
  <2>2. /\ flag_if \in [LockCpu -> BOOLEAN] /\ user \in [LockCpu -> BOOLEAN]
        /\ lock \in BOOLEAN /\ forced \in BOOLEAN
    BY DEF LockInit
  <2> QED
    BY <1>0, <2>1, <2>2 DEF LockTypeOK
<1>2. QuietBelow /\ HandlersStayOff /\ OnlyExceptionsForce
  BY <1>0 DEF LockInit, QuietBelow, HandlersStayOff, OnlyExceptionsForce, Level
<1>3. ExclusiveUnlessForced /\ FlagMatchesGuards
  BY DEF LockInit, ExclusiveUnlessForced, FlagMatchesGuards, Holding, Level
<1> QED
  BY <1>1, <1>2, <1>3 DEF LockInv

(* What moving the running context of one CPU does to pc.                  *)
LEMMA GotoFacts ==
    ASSUME LockTypeOK, NEW c \in LockCpu, NEW p \in Where, Goto(c, p)
    PROVE  /\ where' \in [LockCpu -> [Level -> Where]]
           /\ where'[c][level[c]] = p
           /\ \A d \in LockCpu, l \in Level :
                 d # c \/ l # level[c] => where'[d][l] = where[d][l]
  BY DEF LockTypeOK, Goto

(* The one holder gives the lock back, or a context that is not a holder   *)
(* takes it when there is none: either way the flag matches the guards.    *)
LEMMA ReleaseKeepsExclusion ==
    ASSUME LockInv, NEW c \in LockCpu, At(c, "in"), Goto(c, "out"),
           lock' = FALSE, forced' = forced
    PROVE  ExclusiveUnlessForced' /\ FlagMatchesGuards'
<1>1. level[c] \in Level /\ where[c][level[c]] \in Holding
  BY DEF LockInv, LockTypeOK, At, Holding
<1>2. /\ where'[c][level[c]] = "out"
      /\ \A d \in LockCpu, l \in Level :
            d # c \/ l # level[c] => where'[d][l] = where[d][l]
  BY GotoFacts DEF LockInv, Where
<1>3. ~forced => \A d \in LockCpu, l \in Level : where'[d][l] \notin Holding
  BY <1>1, <1>2 DEF LockInv, ExclusiveUnlessForced, Holding
<1> QED
  BY <1>3 DEF ExclusiveUnlessForced, FlagMatchesGuards

LEMMA TakeKeepsExclusion ==
    ASSUME LockInv, NEW c \in LockCpu, ~lock, Goto(c, "in"),
           lock' = TRUE, forced' = forced
    PROVE  ExclusiveUnlessForced' /\ FlagMatchesGuards'
<1>1. level[c] \in Level
  BY DEF LockInv, LockTypeOK
<1>2. ~forced => \A d \in LockCpu, l \in Level : where[d][l] \notin Holding
  BY DEF LockInv, FlagMatchesGuards
<1>3. /\ where'[c][level[c]] = "in"
      /\ \A d \in LockCpu, l \in Level :
            d # c \/ l # level[c] => where'[d][l] = where[d][l]
  BY GotoFacts DEF LockInv, Where
<1>4. ~forced => \A d \in LockCpu, l \in Level :
                    where'[d][l] \in Holding => d = c /\ l = level[c]
  BY <1>2, <1>3
<1>5. "in" \in Holding
  BY DEF Holding
<1> QED
  BY <1>1, <1>3, <1>4, <1>5 DEF ExclusiveUnlessForced, FlagMatchesGuards

(* A step that moves no context into or out of Holding.                    *)
LEMMA SameHoldersKeepExclusion ==
    ASSUME LockInv, lock' = lock, forced' = forced,
           \A d \in LockCpu, l \in Level :
              where'[d][l] \in Holding <=> where[d][l] \in Holding
    PROVE  ExclusiveUnlessForced' /\ FlagMatchesGuards'
  BY DEF LockInv, ExclusiveUnlessForced, FlagMatchesGuards

(* A context that was not "out" goes on, and nothing but pc matters.       *)
LEMMA MoveKeepsRest ==
    ASSUME LockInv, NEW c \in LockCpu, NEW p \in Where, Goto(c, p), ~At(c, "out"),
           UNCHANGED <<level, ie, flag_if, user>>,
           lock' \in BOOLEAN, forced' \in BOOLEAN,
           p \in {"try", "force", "halt"} => level[c] = 2
    PROVE  LockTypeOK' /\ QuietBelow' /\ HandlersStayOff' /\ OnlyExceptionsForce'
<1>1. /\ where' \in [LockCpu -> [Level -> Where]]
      /\ where'[c][level[c]] = p
      /\ \A d \in LockCpu, l \in Level :
            d # c \/ l # level[c] => where'[d][l] = where[d][l]
  BY GotoFacts DEF LockInv
<1>2. level \in [LockCpu -> Level]
  BY DEF LockInv, LockTypeOK
<1>3. LockTypeOK'
  <2>1. ASSUME NEW d \in LockCpu, NEW l \in Level, l > level[d]
        PROVE  where'[d][l] = "out"
    <3>1. d # c \/ l # level[c]
      BY <1>2, <2>1 DEF Level
    <3> QED
      BY <1>1, <2>1, <3>1 DEF LockInv, LockTypeOK
  <2> QED
    BY <1>1, <2>1 DEF LockInv, LockTypeOK
<1>4. QuietBelow' /\ HandlersStayOff'
  <2>1. ASSUME NEW d \in LockCpu, d # c
        PROVE  where'[d][0] = where[d][0] /\ where'[d][1] = where[d][1]
    BY <1>1, <2>1 DEF Level
  <2>2. CASE level[c] = 0
    <3>1. where[c][0] # "out" /\ ~flag_if[c]
      BY <2>2 DEF At, LockInv, QuietBelow
    <3> QED
      BY <2>1, <2>2, <3>1 DEF LockInv, QuietBelow, HandlersStayOff
  <2>3. CASE level[c] = 1
    <3>1. where'[c][0] = where[c][0] /\ where[c][1] # "out"
      BY <1>1, <2>3 DEF At, Level
    <3> QED
      BY <2>1, <2>3, <3>1 DEF LockInv, QuietBelow, HandlersStayOff
  <2>4. CASE level[c] = 2
    <3>1. where'[c][0] = where[c][0] /\ where'[c][1] = where[c][1]
      BY <1>1, <2>4 DEF Level
    <3> QED
      BY <2>1, <2>4, <3>1 DEF LockInv, QuietBelow, HandlersStayOff
  <2> QED
    BY <1>2, <2>2, <2>3, <2>4 DEF Level
<1>5. OnlyExceptionsForce'
  BY <1>1, <1>2 DEF LockInv, OnlyExceptionsForce
<1> QED
  BY <1>3, <1>4, <1>5

-----------------------------------------------------------------------------
LEMMA LockNextInv == LockInv /\ [LockNext]_lockVars => LockInv'
<1> SUFFICES ASSUME LockInv, [LockNext]_lockVars PROVE LockInv'
  OBVIOUS
<1>0. ASSUME NEW c \in LockCpu PROVE level[c] \in Level
  BY DEF LockInv, LockTypeOK
<1>1. ASSUME NEW c \in LockCpu, Lock(c) PROVE LockInv'
  <2>1. Goto(c, "spin") /\ "spin" \in Where /\ level[c] \in {0, 1}
    BY <1>0, <1>1 DEF Lock, Where, Level
  <2>2. /\ where' \in [LockCpu -> [Level -> Where]]
        /\ where[c][level[c]] = "out" /\ where'[c][level[c]] = "spin"
        /\ \A d \in LockCpu, l \in Level :
              d # c \/ l # level[c] => where'[d][l] = where[d][l]
    BY <1>1, <2>1, GotoFacts DEF Lock, At, LockInv
  <2>3. LockTypeOK' /\ OnlyExceptionsForce'
    <3>1. ie' \in [LockCpu -> [Level -> BOOLEAN]] /\ flag_if' \in [LockCpu -> BOOLEAN]
      BY <1>1 DEF Lock, LockInv, LockTypeOK, IfAfterCli
    <3>2. ASSUME NEW d \in LockCpu, NEW l \in Level, l > level[d]
          PROVE  where'[d][l] = "out"
      <4>1. d # c \/ l # level[c]
        BY <1>0, <3>2 DEF Level
      <4> QED
        BY <2>2, <3>2, <4>1 DEF LockInv, LockTypeOK
    <3>3. LockTypeOK'
      BY <1>1, <2>2, <3>1, <3>2 DEF Lock, LockInv, LockTypeOK
    <3>4. OnlyExceptionsForce'
      BY <2>2 DEF LockInv, OnlyExceptionsForce
    <3> QED
      BY <3>3, <3>4
  <2>4. QuietBelow' /\ HandlersStayOff'
    BY <1>1, <2>1, <2>2 DEF Lock, LockInv, LockTypeOK, IfAfterCli, QuietBelow,
                            HandlersStayOff, Level
  <2>5. ExclusiveUnlessForced' /\ FlagMatchesGuards'
    BY <1>1, <2>1, <2>2, SameHoldersKeepExclusion DEF Lock, Holding
  <2> QED
    BY <2>3, <2>4, <2>5 DEF LockInv
<1>2. ASSUME NEW c \in LockCpu, Acquire(c) PROVE LockInv'
  <2>1. /\ Goto(c, "in") /\ "in" \in Where /\ ~At(c, "out")
        /\ ~lock /\ lock' = TRUE /\ UNCHANGED <<level, ie, flag_if, user, forced>>
    BY <1>2 DEF Acquire, CanAcquire, At, Where
  <2>2. LockTypeOK' /\ QuietBelow' /\ HandlersStayOff' /\ OnlyExceptionsForce'
    BY <2>1, MoveKeepsRest DEF LockInv, LockTypeOK
  <2>3. ExclusiveUnlessForced' /\ FlagMatchesGuards'
    BY <2>1, TakeKeepsExclusion
  <2> QED
    BY <2>2, <2>3 DEF LockInv
<1>3. ASSUME NEW c \in LockCpu, Drop(c) PROVE LockInv'
  <2>1. Goto(c, "out") /\ "out" \in Where /\ lock' = FALSE /\ level[c] \in {0, 1}
    BY <1>0, <1>3 DEF Drop, LockAfterDrop, Where, Level
  <2>2. /\ where' \in [LockCpu -> [Level -> Where]]
        /\ where[c][level[c]] = "in" /\ where'[c][level[c]] = "out"
        /\ \A d \in LockCpu, l \in Level :
              d # c \/ l # level[c] => where'[d][l] = where[d][l]
    BY <1>3, <2>1, GotoFacts DEF Drop, At, LockInv
  <2>3. LockTypeOK' /\ OnlyExceptionsForce'
    <3>1. flag_if' \in [LockCpu -> BOOLEAN]
      BY <1>0, <1>3 DEF Drop, LockInv, LockTypeOK
    <3>2. \A d \in LockCpu, l \in Level : l > level[d] => where'[d][l] = "out"
      BY <2>2 DEF LockInv, LockTypeOK
    <3>3. LockTypeOK'
      BY <1>3, <2>1, <2>2, <3>1, <3>2 DEF Drop, LockInv, LockTypeOK
    <3>4. OnlyExceptionsForce'
      BY <2>2 DEF LockInv, OnlyExceptionsForce
    <3> QED
      BY <3>3, <3>4
  <2>4. QuietBelow' /\ HandlersStayOff'
    <3>1. \A d \in LockCpu : d # c => flag_if'[d] = flag_if[d]
      BY <1>3 DEF Drop, LockInv, LockTypeOK
    <3>2. flag_if'[c] = ie[c][level[c]]
      BY <1>3 DEF Drop, LockInv, LockTypeOK
    <3> QED
      BY <1>3, <2>1, <2>2, <3>1, <3>2
         DEF Drop, LockInv, QuietBelow, HandlersStayOff, Level
  <2>5. ExclusiveUnlessForced' /\ FlagMatchesGuards'
    BY <1>3, <2>1, ReleaseKeepsExclusion DEF Drop
  <2> QED
    BY <2>3, <2>4, <2>5 DEF LockInv
<1>4. ASSUME NEW c \in LockCpu, Irq(c) \/ Iret(c) PROVE LockInv'
  <2>1. where' = where /\ ie' = ie /\ user' = user /\ lock' = lock /\ forced' = forced
    BY <1>4 DEF Irq, Iret
  <2>2. /\ level' \in [LockCpu -> Level] /\ flag_if' \in [LockCpu -> BOOLEAN]
        /\ \A d \in LockCpu : d # c => level'[d] = level[d] /\ flag_if'[d] = flag_if[d]
    BY <1>4, LevelFacts DEF Irq, Iret, LockInv, LockTypeOK
  <2>3. /\ where[c][0] = "out" /\ where[c][1] = "out" /\ where[c][2] = "out"
        /\ \/ level'[c] = 1 /\ ~flag_if'[c]
           \/ level'[c] = 0
    <3>1. CASE Irq(c)
      BY <3>1 DEF Irq, LockInv, LockTypeOK, QuietBelow, Level
    <3>2. CASE Iret(c)
      BY <3>2 DEF Iret, IrqDone, At, LockInv, LockTypeOK, QuietBelow, Level
    <3> QED
      BY <1>4, <3>1, <3>2
  <2>4. LockTypeOK' /\ OnlyExceptionsForce'
    BY <2>1, <2>2, <2>3 DEF LockInv, LockTypeOK, OnlyExceptionsForce, Level
  <2>5. QuietBelow' /\ HandlersStayOff'
    BY <2>1, <2>2, <2>3 DEF LockInv, QuietBelow, HandlersStayOff
  <2>6. ExclusiveUnlessForced' /\ FlagMatchesGuards'
    BY <2>1, SameHoldersKeepExclusion
  <2> QED
    BY <2>4, <2>5, <2>6 DEF LockInv
<1>5. ASSUME NEW c \in LockCpu, NEW u \in BOOLEAN, Exception(c, u) PROVE LockInv'
  <2>1. /\ where' \in [LockCpu -> [Level -> Where]]
        /\ where[c][2] = "out" /\ where'[c][2] = "try"
        /\ \A d \in LockCpu, l \in Level : d # c \/ l # 2 => where'[d][l] = where[d][l]
    BY <1>5 DEF Exception, LockInv, LockTypeOK, Where, Level
  <2>2. /\ \A d \in LockCpu : d # c => /\ level'[d] = level[d] /\ flag_if'[d] = flag_if[d]
                                   /\ user'[d] = user[d] /\ ie'[d] = ie[d]
        /\ level'[c] = 2 /\ ~flag_if'[c]
        /\ user'[c] => where[c][0] = "out" /\ where[c][1] = "out"
    BY <1>5 DEF Exception, At, LockInv, LockTypeOK, Level
  <2>3. LockTypeOK' /\ OnlyExceptionsForce'
    BY <1>5, <2>1, <2>2
       DEF Exception, LockInv, LockTypeOK, OnlyExceptionsForce, Level
  <2>4. QuietBelow' /\ HandlersStayOff'
    BY <2>1, <2>2 DEF LockInv, QuietBelow, HandlersStayOff, Level
  <2>5. ExclusiveUnlessForced' /\ FlagMatchesGuards'
    BY <1>5, <2>1, SameHoldersKeepExclusion DEF Exception, Holding
  <2> QED
    BY <2>3, <2>4, <2>5 DEF LockInv
<1>6. ASSUME NEW c \in LockCpu, TryLock(c) PROVE LockInv'
  <2>1. /\ level[c] = 2 /\ ~At(c, "out") /\ lock' = TRUE
        /\ UNCHANGED <<level, ie, flag_if, user, forced>>
    BY <1>0, <1>6 DEF TryLock, At, LockInv, OnlyExceptionsForce
  <2>2. CASE ~lock
    <3>1. Goto(c, "in") /\ "in" \in Where
      BY <1>6, <2>2 DEF TryLock, Where
    <3> QED
      BY <2>1, <2>2, <3>1, MoveKeepsRest, TakeKeepsExclusion
         DEF LockInv, LockTypeOK
  <2>3. CASE lock
    <3>1. Goto(c, "force") /\ "force" \in Where
      BY <1>6, <2>3 DEF TryLock, Where
    <3>2. \A d \in LockCpu, l \in Level :
             where'[d][l] \in Holding <=> where[d][l] \in Holding
      BY <1>0, <1>6, <3>1, GotoFacts DEF TryLock, At, Holding, LockInv
    <3> QED
      BY <2>1, <2>3, <3>1, <3>2, MoveKeepsRest, SameHoldersKeepExclusion
         DEF LockInv, LockTypeOK
  <2> QED
    BY <2>2, <2>3
<1>7. ASSUME NEW c \in LockCpu, ForceUnlock(c) PROVE LockInv'
  <2>1. /\ Goto(c, "spin") /\ "spin" \in Where /\ ~At(c, "out")
        /\ lock' = FALSE /\ forced' = TRUE /\ UNCHANGED <<level, ie, flag_if, user>>
    BY <1>7 DEF ForceUnlock, At, Where
  <2>2. LockTypeOK' /\ QuietBelow' /\ HandlersStayOff' /\ OnlyExceptionsForce'
    BY <2>1, MoveKeepsRest
  <2> QED
    BY <2>1, <2>2 DEF LockInv, ExclusiveUnlessForced, FlagMatchesGuards
<1>8. ASSUME NEW c \in LockCpu, Reported(c) PROVE LockInv'
  <2>1. level[c] = 2 /\ At(c, "in") /\ ~At(c, "out")
        /\ UNCHANGED <<ie, user, forced>>
    BY <1>8 DEF Reported, At
  <2>2. CASE user[c]
    <3>1. Goto(c, "out") /\ "out" \in Where /\ lock' = FALSE
      BY <1>8, <2>2 DEF Reported, LockAfterDrop, Where
    <3>2. /\ where' \in [LockCpu -> [Level -> Where]] /\ where'[c][2] = "out"
          /\ \A d \in LockCpu, l \in Level : d # c \/ l # 2 => where'[d][l] = where[d][l]
      BY <2>1, <3>1, GotoFacts DEF LockInv
    <3>3. /\ level' \in [LockCpu -> Level] /\ flag_if' \in [LockCpu -> BOOLEAN]
          /\ \A d \in LockCpu : d # c => level'[d] = level[d] /\ flag_if'[d] = flag_if[d]
          /\ level'[c] = 0
      BY <1>8, <2>2, LevelFacts DEF Reported, LockInv, LockTypeOK
    <3>4. where[c][0] = "out" /\ where[c][1] = "out"
      BY <2>1, <2>2 DEF LockInv, QuietBelow
    <3>5. LockTypeOK' /\ OnlyExceptionsForce'
      <4>1. \A d \in LockCpu, l \in Level : l > level'[d] => where'[d][l] = "out"
        <5>1. \A l \in Level : where'[c][l] = "out"
          BY <3>2, <3>4, LevelFacts
        <5>2. \A d \in LockCpu : d # c =>
                 level'[d] = level[d] /\ \A l \in Level : where'[d][l] = where[d][l]
          BY <3>2, <3>3
        <5> QED
          BY <5>1, <5>2 DEF LockInv, LockTypeOK
      <4> QED
        BY <2>1, <3>1, <3>2, <3>3, <4>1
           DEF LockInv, LockTypeOK, OnlyExceptionsForce
    <3>6. QuietBelow' /\ HandlersStayOff'
      <4>1. \A d \in LockCpu : where'[d][0] = where[d][0] /\ where'[d][1] = where[d][1]
        BY <3>2, LevelFacts
      <4> QED
        BY <2>1, <3>3, <3>4, <4>1 DEF LockInv, QuietBelow, HandlersStayOff
    <3> QED
      BY <2>1, <3>1, <3>5, <3>6, ReleaseKeepsExclusion DEF LockInv
  <2>3. CASE ~user[c]
    <3>1. Goto(c, "halt") /\ "halt" \in Where /\ UNCHANGED <<lock, level, flag_if>>
      BY <1>8, <2>3 DEF Reported, Where
    <3>2. \A d \in LockCpu, l \in Level :
             where'[d][l] \in Holding <=> where[d][l] \in Holding
      BY <1>0, <2>1, <3>1, GotoFacts DEF At, Holding, LockInv
    <3> QED
      BY <2>1, <3>1, <3>2, MoveKeepsRest, SameHoldersKeepExclusion
         DEF LockInv, LockTypeOK
  <2> QED
    BY <2>2, <2>3
<1>9. CASE UNCHANGED lockVars
  BY <1>9 DEF lockVars, LockInv, LockTypeOK, OnlyExceptionsForce, QuietBelow,
              HandlersStayOff, ExclusiveUnlessForced, FlagMatchesGuards
<1> QED
  BY <1>1, <1>2, <1>3, <1>4, <1>5, <1>6, <1>7, <1>8, <1>9 DEF LockNext, Step

-----------------------------------------------------------------------------
THEOREM LockInvariant == LockSpec => []LockInv
  BY LockInitInv, LockNextInv, PTL DEF LockSpec

(* Guards of one lock exclude each other on any number of CPUs, across     *)
(* interrupts and exceptions, until exception_handler calls force_unlock:  *)
(* a lock it never forces (SCHEDULER_LOCK, XHCI_LOCK) excludes always.     *)
THEOREM GuardsExclude == LockSpec => []ExclusiveUnlessForced
<1>1. LockInv => ExclusiveUnlessForced
  BY DEF LockInv
<1> QED
  BY <1>1, LockInvariant, PTL

(* The flag is set exactly while there is a guard.                         *)
THEOREM FlagIsGuards == LockSpec => []FlagMatchesGuards
<1>1. LockInv => FlagMatchesGuards
  BY DEF LockInv
<1> QED
  BY <1>1, LockInvariant, PTL

(* irq_handler never spins on a lock of the code it interrupted.           *)
THEOREM HandlersDoNotWaitBelow == LockSpec => []NoSelfDeadlock
<1>1. LockInv => NoSelfDeadlock
  BY DEF LockInv, QuietBelow, NoSelfDeadlock
<1> QED
  BY <1>1, LockInvariant, PTL
=============================================================================
