--------------------------- MODULE RunCellsProofs ---------------------------
(***************************************************************************)
(* What holds of the job pool for any number of cells, any -j and any      *)
(* number of signals and of other users of the host.                       *)
(***************************************************************************)
EXTENDS RunCells, FiniteSetTheorems, TLAPS

\* The pool's variables stay in their types.
LEMMA TypeInit == Init => TypeOK
<1> SUFFICES ASSUME Init PROVE TypeOK
  OBVIOUS
<1>1. verd \in [Cells -> [Scenarios -> Results \cup {NoRow}]]
  <2>1. \A r \in Earlier : [s \in Scenarios |-> r] \in
                             [Scenarios -> Results \cup {NoRow}]
    BY PoolAssumption DEF Results, NoRow
  <2>2. verd \in [Cells -> {[s \in Scenarios |-> r] : r \in Earlier}]
    BY DEF Init
  <2> QED
    BY <2>1, <2>2
<1>2. aside \in [Cells -> [Scenarios -> Nat]]
  BY DEF Init
<1> QED
  BY <1>1, <1>2 DEF Init, TypeOK, Commands, Codes, NoCode, Procs

LEMMA AbortRowsType ==
    ASSUME TypeOK, NEW c \in Cells, AbortRows(c)
    PROVE  verd' \in [Cells -> [Scenarios -> Results \cup {NoRow}]]
  BY DEF TypeOK, AbortRows, Results

LEMMA TypeStep == TypeOK /\ [Next]_vars => TypeOK'
<1> SUFFICES ASSUME TypeOK, [Next]_vars PROVE TypeOK'
  OBVIOUS
<1> USE DEF pool, books, sent, ends, evidence, host
<1>1. ASSUME NEW c \in Cells, PoolFill(c) PROVE TypeOK'
  BY <1>1 DEF TypeOK, PoolFill, At, Commands, NoCode
<1>2. ASSUME NEW c \in Cells, ReapOne(c) PROVE TypeOK'
  BY <1>2 DEF TypeOK, ReapOne, At, Commands, Codes, Procs, PoolFull
<1>3. ASSUME NEW c \in Cells, RetryScan(c) PROVE TypeOK'
  BY <1>3 DEF TypeOK, RetryScan, At, NoRow
<1>4. CASE ImageGate
  BY <1>4 DEF TypeOK, ImageGate, Skip, At, Commands, Codes
<1>5. CASE WaitForDisk \/ CheckHost
  BY <1>5 DEF TypeOK, WaitForDisk, CheckHost, Skip, At, Commands, Codes
<1>6. CASE Spawn \/ Record
  BY <1>6 DEF TypeOK, Spawn, Record, At, Commands, Procs, Active
<1>7. CASE TeardownStart \/ TeardownEnd
  BY <1>7 DEF TypeOK, TeardownStart, TeardownEnd, DownCell, At, Commands
<1>8. CASE PoolDone \/ RetryStart
  BY <1>8 DEF TypeOK, PoolDone, RetryStart, At, Commands
<1>9. CASE FlagMostlyBlocked \/ Exit
  BY <1>9 DEF TypeOK, FlagMostlyBlocked, Exit, At, Commands, Codes
<1>10. CASE TrapEnter \/ TrapStop \/ TrapExit
  BY <1>10 DEF TypeOK, TrapEnter, TrapStop, TrapExit, Commands, Procs
<1>11. CASE TrapTeardownEnd
  BY <1>11 DEF TypeOK, TrapTeardownEnd, MarkTerminated, DownCell, Commands, Codes
<1>12. ASSUME NEW c \in Cells, TrapTeardownStart(c) PROVE TypeOK'
  BY <1>12 DEF TypeOK, TrapTeardownStart, Commands
<1>13. CASE SignalShell
  BY <1>13 DEF TypeOK, SignalShell
<1>14. CASE SignalGroup
  <2>1. CASE pc = "downing"
    BY <1>14, <2>1 DEF TypeOK, SignalGroup, Commands
  <2>2. CASE pc = "trap-downing"
    <3>1. /\ MarkTerminated
          /\ refused' = refused \cup {cur}
          /\ signals' = signals + 1
          /\ UNCHANGED <<cur, pool, pending, status, proc, evidence, host>>
      BY <1>14, <2>2 DEF SignalGroup
    <3> QED
      BY <3>1 DEF TypeOK, MarkTerminated, Commands, Codes
  <2> QED
    BY <1>14, <2>1, <2>2 DEF SignalGroup
<1>15. ASSUME NEW c \in Cells, CellEnds(c) PROVE TypeOK'
  <2> USE DEF shell
  <2>1. CASE CellUp(c)
    BY <2>1 DEF TypeOK, CellUp, Step, DefineDomains, Procs, Active
  <2>2. CASE CellUpFails(c)
    BY <2>2, AbortRowsType DEF TypeOK, CellUpFails, Step, DefineDomains,
       Procs, Ended
  <2>3. CASE CellMeasured(c)
    BY <2>3 DEF TypeOK, CellMeasured, Step, Procs, Active
  <2>4. CASE CellShapeFails(c)
    <3>1. verd' \in [Cells -> [Scenarios -> Results \cup {NoRow}]]
      BY <2>4, AbortRowsType DEF TypeOK, CellShapeFails
    <3> QED
      BY <2>4, <3>1 DEF TypeOK, CellShapeFails, Step, Procs, Active
  <2>5. CASE CellDies(c)
    BY <2>5 DEF TypeOK, CellDies, Procs, Ended
  <2>6. CASE CellDown(c)
    BY <2>6 DEF TypeOK, CellDown, Step, Procs, Ended
  <2> QED
    BY <1>15, <2>1, <2>2, <2>3, <2>4, <2>5, <2>6 DEF CellEnds
<1>16. ASSUME NEW c \in Cells, NEW s \in Scenarios, NEW r \in Outcomes,
              CellMeasure(c, s, r)
       PROVE TypeOK'
  BY <1>16, PoolAssumption DEF TypeOK, CellMeasure, Step, Results, shell, Procs, Active
<1>17. ASSUME NEW c \in Cells, Others(c) PROVE TypeOK'
  <2> USE DEF shell
  <2>1. CASE OtherDefines(c)
    BY <2>1 DEF TypeOK, OtherDefines
  <2>2. CASE OtherRemoves(c)
    BY <2>2 DEF TypeOK, OtherRemoves
  <2>3. CASE ImageBuilt(c)
    BY <2>3 DEF TypeOK, ImageBuilt
  <2> QED
    BY <1>17, <2>1, <2>2, <2>3 DEF Others
<1>18. CASE UNCHANGED vars
  BY <1>18 DEF TypeOK, vars, shell
<1> QED
  BY <1>1, <1>2, <1>3, <1>4, <1>5, <1>6, <1>7, <1>8, <1>9, <1>10, <1>11,
     <1>12, <1>13, <1>14, <1>15, <1>16, <1>17, <1>18
     DEF Next, Main, Cell, Finished

THEOREM PoolTypeCorrect == Spec => []TypeOK
<1>1. QED
  BY TypeInit, TypeStep, PTL DEF Spec

-----------------------------------------------------------------------------
\* PoolInv looks at the main shell and at each run-cell.sh, never at the
\* evidence or at the host.
poolView == <<pc, cur, pass, todo, running, pids, retried, proc>>

LEMMA FinitePids == TypeOK => IsFiniteSet(pids) /\ IsFiniteSet(InHand)
  BY PoolAssumption, FS_Subset DEF TypeOK, InHand

LEMMA PoolInvInit == Init => PoolInv
  BY PoolAssumption, FS_EmptySet
     DEF Init, PoolInv, Bound, Starting, InHand, Active, Ended

LEMMA PoolInvFrame == PoolInv /\ UNCHANGED poolView => PoolInv'
  BY DEF PoolInv, poolView, Bound, InHand, InTrap

\* A run-cell.sh that goes on or ends was already in hand.
LEMMA PoolInvCell ==
    ASSUME TypeOK, PoolInv, NEW c \in Cells, proc[c] \in Active,
           NEW p, proc' = [proc EXCEPT ![c] = p], UNCHANGED shell
    PROVE  PoolInv'
<1>1. InHand' \subseteq InHand
  BY DEF InHand, TypeOK
<1> QED
  BY <1>1 DEF PoolInv, shell, pool, Bound, InTrap

LEMMA PoolInvStep == TypeOK /\ PoolInv /\ [Next]_vars => PoolInv'
<1> SUFFICES ASSUME TypeOK, PoolInv, [Next]_vars PROVE PoolInv'
  OBVIOUS
<1> USE DEF pool
<1>1. ASSUME NEW c \in Cells, PoolFill(c) PROVE PoolInv'
  BY <1>1 DEF PoolInv, PoolFill, At, Bound, Starting, InHand, InTrap
<1>2. ASSUME NEW c \in Cells, ReapOne(c) PROVE PoolInv'
  <2>1. Cardinality(pids \ {c}) = Cardinality(pids) - 1
    BY <1>2, FinitePids, FS_RemoveElement DEF ReapOne
  <2>2. running' = Cardinality(pids') /\ running' <= Bound'
    <3>1. running \in Nat /\ Bound \in Nat
      BY PoolAssumption DEF TypeOK, Bound
    <3>2. running = Cardinality(pids) /\ running <= Bound
      BY DEF PoolInv
    <3>3. running' = running - 1 /\ pids' = pids \ {c} /\ pass' = pass
      BY <1>2 DEF ReapOne
    <3>4. Bound' = Bound
      BY <3>3 DEF Bound
    <3> QED
      BY <2>1, <3>1, <3>2, <3>3, <3>4
  <2>3. InHand' \subseteq InHand \ {c}
    BY <1>2 DEF ReapOne, InHand, TypeOK, Active, Ended
  <2>4. /\ pc = "pool" /\ pc' \in {"pool", "down"}
        /\ pids' = pids \ {c} /\ todo' = todo
    BY <1>2 DEF ReapOne, At
  <2>5. InHand \subseteq pids /\ todo \cap pids = {}
    BY <2>4 DEF PoolInv, InTrap
  <2>6. InHand' \subseteq pids' /\ todo' \cap pids' = {}
    BY <2>3, <2>4, <2>5
  <2> QED
    BY <2>2, <2>4, <2>6 DEF PoolInv, Starting, InTrap
<1>3. ASSUME NEW c \in Cells, RetryScan(c) PROVE PoolInv'
  BY <1>3 DEF RetryScan, At, PoolInv, Bound, Starting, InHand, InTrap
<1>4. CASE ImageGate \/ WaitForDisk \/ CheckHost
  BY <1>4 DEF ImageGate, WaitForDisk, CheckHost, Skip, At, PoolInv, Bound,
     Starting, InHand, InTrap
<1>5. CASE Spawn
  <2>1. InHand' \subseteq InHand \cup {cur}
    BY <1>5 DEF Spawn, InHand, TypeOK
  <2> QED
    BY <1>5, <2>1 DEF Spawn, At, PoolInv, Bound, Starting, InTrap
<1>6. CASE Record
  <2>1. cur \notin pids /\ running < Bound
    BY <1>6 DEF Record, At, PoolInv, Starting
  <2>2. Cardinality(pids \cup {cur}) = Cardinality(pids) + 1
    BY <2>1, FinitePids, FS_AddElement
  <2>3. Bound \in Nat
    BY PoolAssumption DEF Bound
  <2>4. running' = Cardinality(pids') /\ running' <= Bound'
    BY <1>6, <2>1, <2>2, <2>3 DEF Record, PoolInv, TypeOK, Bound
  <2> QED
    BY <1>6, <2>4 DEF Record, At, PoolInv, Starting, InHand, InTrap
<1>7. CASE TeardownStart \/ TeardownEnd
  BY <1>7 DEF TeardownStart, TeardownEnd, At, PoolInv, Bound, Starting,
     InHand, InTrap
<1>8. CASE PoolDone
  <2>1. pids = {}
    BY <1>8, FinitePids, FS_EmptySet DEF PoolDone, PoolInv
  <2> QED
    BY <1>8, <2>1 DEF PoolDone, At, PoolInv, Bound, Starting, InHand, InTrap
<1>9. CASE RetryStart
  <2>1. pids = {} /\ running = 0
    BY <1>9, FS_EmptySet DEF RetryStart, At, PoolInv
  <2> QED
    BY <1>9, <2>1, PoolAssumption
       DEF RetryStart, At, PoolInv, Bound, Starting, InHand, InTrap
<1>10. CASE FlagMostlyBlocked \/ Exit
  BY <1>10 DEF FlagMostlyBlocked, Exit, At, PoolInv, Bound, Starting,
     InHand, InTrap
<1>11. CASE TrapEnter \/ TrapExit
  BY <1>11 DEF TrapEnter, TrapExit, PoolInv, Bound, Starting, InTrap
<1>12. CASE TrapStop
  BY <1>12 DEF TrapStop, PoolInv, Bound, Starting, InTrap
<1>13. CASE TrapTeardownEnd
  BY <1>13 DEF TrapTeardownEnd, MarkTerminated, PoolInv, Bound, Starting,
     InTrap
<1>14. ASSUME NEW c \in Cells, TrapTeardownStart(c) PROVE PoolInv'
  BY <1>14 DEF TrapTeardownStart, PoolInv, Bound, Starting, InTrap
<1>15. CASE SignalShell
  BY <1>15, PoolInvFrame DEF SignalShell, poolView
<1>16. CASE SignalGroup
  <2>1. CASE pc = "downing"
    BY <1>16, <2>1 DEF SignalGroup, PoolInv, Bound, Starting, InHand, InTrap
  <2>2. CASE pc = "trap-downing"
    BY <1>16, <2>2 DEF SignalGroup, MarkTerminated, PoolInv, Bound,
       Starting, InHand, InTrap
  <2> QED
    BY <1>16, <2>1, <2>2 DEF SignalGroup
<1>17. ASSUME NEW c \in Cells, Cell(c) PROVE PoolInv'
  <2>1. /\ proc[c] \in Active
        /\ UNCHANGED shell
        /\ \E p \in Procs : proc' = [proc EXCEPT ![c] = p]
    BY <1>17 DEF Cell, CellEnds, CellUp, CellUpFails, CellMeasured,
       CellShapeFails, CellDies, CellDown, CellMeasure, Step, Active, Ended,
       Procs
  <2> QED
    BY <2>1, PoolInvCell
<1>18. ASSUME NEW c \in Cells, Others(c) PROVE PoolInv'
  BY <1>18, PoolInvFrame
     DEF Others, OtherDefines, OtherRemoves, ImageBuilt, shell, poolView
<1>19. CASE UNCHANGED vars
  BY <1>19, PoolInvFrame DEF vars, shell, poolView
<1> QED
  BY <1>1, <1>2, <1>3, <1>4, <1>5, <1>6, <1>7, <1>8, <1>9, <1>10, <1>11,
     <1>12, <1>13, <1>14, <1>15, <1>16, <1>17, <1>18, <1>19
     DEF Next, Main, Finished

LEMMA PoolInvBound == TypeOK /\ PoolInv => PoolBound
<1> SUFFICES ASSUME TypeOK, PoolInv, ~InTrap, pc # "exit"
             PROVE  Cardinality(InHand) <= Bound
  BY DEF PoolInv, PoolBound
<1>1. Bound \in Nat
  BY PoolAssumption DEF Bound
<1>2. CASE pc = "record"
  <2>1. InHand \subseteq pids \cup {cur} /\ cur \notin pids /\ running < Bound
    BY <1>2 DEF PoolInv, Starting
  <2>2. /\ IsFiniteSet(pids \cup {cur})
        /\ Cardinality(pids \cup {cur}) = Cardinality(pids) + 1
    BY <2>1, FinitePids, FS_AddElement
  <2>3. Cardinality(InHand) <= Cardinality(pids \cup {cur})
    BY <2>1, <2>2, FS_Subset
  <2>4. Cardinality(InHand) \in Nat
    BY FinitePids, FS_CardinalityType
  <2> QED
    BY <1>1, <2>1, <2>2, <2>3, <2>4 DEF PoolInv, TypeOK
<1>3. CASE pc # "record"
  <2>1. InHand \subseteq pids
    BY <1>3 DEF PoolInv
  <2>2. Cardinality(InHand) <= Cardinality(pids)
    BY <2>1, FinitePids, FS_Subset
  <2>3. Cardinality(InHand) \in Nat
    BY FinitePids, FS_CardinalityType
  <2> QED
    BY <1>1, <2>2, <2>3 DEF PoolInv, TypeOK
<1> QED
  BY <1>2, <1>3

\* RUNNING never drifts from PID_CELL, and no interleaving of starts, exits,
\* teardowns and signals puts more than -j cells in hand.
THEOREM PoolBoundHolds == Spec => []PoolBound
<1>1. Init => TypeOK /\ PoolInv
  BY TypeInit, PoolInvInit
<1>2. (TypeOK /\ PoolInv) /\ [Next]_vars => (TypeOK /\ PoolInv)'
  BY TypeStep, PoolInvStep
<1> QED
  BY <1>1, <1>2, PoolInvBound, PTL DEF Spec

-----------------------------------------------------------------------------
(* What the job pool answers and what it leaves behind: no verdict is lost,*)
(* a green run is complete, every cell has one answer, and no domains of   *)
(* this run are forgotten.                                                 *)

\* The shell is at its ordinary work.
Regular == ~InTrap /\ pc # "exit"

\* start_cell has not answered for the cell yet, or its session runs.
Awaited(c) == c \in todo \cup pids \/ (cur = c /\ pc \in Starting)

\* Every cell that is not awaited has its answer, in the table and on disk.
AnswerInv ==
    /\ status # NoCode <=> pc = "exit"
    /\ pc \in {"scan", "judge", "report"} => todo = {}
    /\ Regular => \A c \in Cells :
          /\ proc[c] # "killed"
          /\ Awaited(c) \/ (rc[c] # NoCode /\ rcfile[c] = rc[c])
    /\ status \in {"0", "1"} => \A c \in Cells :
          rc[c] # NoCode /\ rcfile[c] = rc[c] /\ proc[c] = "none"

\* A cell that was started had its image then, and has it still.
ImageInv ==
    \A c \in Cells :
        /\ cur = c /\ pc \in Starting \ {"gate"} => built[c]
        /\ proc[c] \in Active \cup Ended => built[c]
        /\ rc[c] \in {"0", "1"} => built[c]
        /\ c \in retried => built[c] /\ rc[c] # "skipped-image"

Complete(c) == Unmeasured(c) = {} /\ dom[c] # "ours"

\* The cells whose answer is that of an attempt before the one to come.
ToRerun(c) == IF pc = "scan" THEN c \in retried ELSE Awaited(c)

\* An exit status 0 of run-cell.sh stands for a complete cell until the
\* retry pass has moved one of its rows aside.
GreenInv ==
    /\ pass = 1 /\ pc # "scan" /\ Regular => retried = {}
    /\ pc = "scan" => pass = 1
    /\ \A c \in Cells :
        /\ proc[c] = "closing" => Unmeasured(c) = {}
        /\ proc[c] = "ok" => Complete(c)
        /\ Regular /\ rc[c] = "0" /\ ~ToRerun(c) => Complete(c)
        /\ pc = "report" /\ rc[c] = "0" => ~MostlyBlocked(c)

\* Without a signal there is no trap.
QuietInv == signals = 0 => ~pending /\ ~InTrap /\ status # "130"

-----------------------------------------------------------------------------
\* A step of a run-cell.sh is one of a session that runs, and leaves the
\* measured rows and everything of the other cells alone.
LEMMA CellFrame ==
    ASSUME TypeOK, NEW c \in Cells, Cell(c)
    PROVE  /\ proc[c] \in Active
           /\ UNCHANGED <<shell, aside, marker, built, foreign>>
           /\ \E p \in Active \cup Ended : proc' = [proc EXCEPT ![c] = p]
           /\ \A d \in Cells \ {c} :
                 proc'[d] = proc[d] /\ verd'[d] = verd[d] /\ dom'[d] = dom[d]
           /\ \A s \in Scenarios : Real(verd[c][s]) => verd'[c][s] = verd[c][s]
<1> USE DEF evidence, host
<1>1. /\ proc[c] \in Active
      /\ UNCHANGED <<shell, aside, marker, built, foreign>>
      /\ \E p \in Active \cup Ended : proc' = [proc EXCEPT ![c] = p]
  BY DEF Cell, CellEnds, CellUp, CellUpFails, CellMeasured, CellShapeFails,
     CellDies, CellDown, CellMeasure, Step, Active, Ended
<1>2. \A d \in Cells \ {c} : proc'[d] = proc[d]
  BY <1>1 DEF TypeOK
<1>3. \A d \in Cells \ {c} : dom'[d] = dom[d]
  BY DEF TypeOK, Cell, CellEnds, CellUp, CellUpFails, CellMeasured,
     CellShapeFails, CellDies, CellDown, CellMeasure, DefineDomains
<1>4. /\ \A d \in Cells \ {c} : verd'[d] = verd[d]
      /\ \A s \in Scenarios : Real(verd[c][s]) => verd'[c][s] = verd[c][s]
  <2>1. CASE AbortRows(c)
    BY <2>1 DEF TypeOK, AbortRows, Unmeasured
  <2>2. CASE UNCHANGED verd
    BY <2>2
  <2>3. CASE \E s \in Scenarios, r \in Outcomes : CellMeasure(c, s, r)
    BY <2>3 DEF TypeOK, CellMeasure, Unmeasured
  <2> QED
    BY <2>1, <2>2, <2>3 DEF Cell, CellEnds, CellUp, CellUpFails, CellMeasured,
       CellShapeFails, CellDies, CellDown
<1> QED
  BY <1>1, <1>2, <1>3, <1>4

\* Other users touch domains and images alone: no domain becomes ours, no
\* image disappears.
LEMMA OthersFrame ==
    ASSUME TypeOK, NEW c \in Cells, Others(c)
    PROVE  /\ UNCHANGED <<shell, proc, evidence>>
           /\ \A d \in Cells : dom'[d] = "ours" => dom[d] = "ours"
           /\ \A d \in Cells : built[d] => built'[d]
  BY DEF Others, OtherDefines, OtherRemoves, ImageBuilt, TypeOK

\* While the shell is at its ordinary work, a session runs or waits to be
\* reaped only where the shell has it in its table or in its hand.
LEMMA InHandAwaited ==
    ASSUME PoolInv, Regular, NEW c \in Cells, proc[c] \in Active \cup Ended
    PROVE  c \in pids \/ (pc = "record" /\ cur = c)
  BY DEF PoolInv, Regular, InHand

-----------------------------------------------------------------------------
\* The image-not-built marker.
LEMMA MarkerInit == Init => MarkerInv
  BY DEF Init, MarkerInv, Active, Starting

LEMMA MarkerStep == TypeOK /\ PoolInv /\ MarkerInv /\ [Next]_vars => MarkerInv'
<1> SUFFICES ASSUME TypeOK, PoolInv, MarkerInv, [Next]_vars PROVE MarkerInv'
  OBVIOUS
<1> USE DEF pool, books, sent, ends, evidence, host, Rows
<1>1. ASSUME NEW c \in Cells, PoolFill(c) PROVE MarkerInv'
  BY <1>1 DEF PoolFill, MarkerInv, At, Starting
<1>2. ASSUME NEW c \in Cells, ReapOne(c) PROVE MarkerInv'
  BY <1>2 DEF ReapOne, MarkerInv, At, Starting, TypeOK, Active
<1>3. ASSUME NEW c \in Cells, RetryScan(c) PROVE MarkerInv'
  <2>1. \A d \in Cells : Rows(d) = {} => Rows(d)' = {}
    BY <1>3 DEF RetryScan, TypeOK
  <2> QED
    BY <1>3, <2>1 DEF RetryScan, MarkerInv, At, Starting
<1>4. CASE ImageGate
  <2>1. ~built[cur] => proc[cur] \notin Active
    BY <1>4, InHandAwaited DEF ImageGate, At, Regular, InTrap, PoolInv, Starting, TypeOK
  <2>2. /\ UNCHANGED <<cur, proc, verd>>
        /\ pc = "gate" /\ pc' \in {"pool", "disk"}
        /\ pc' = "disk" => ~marker'[cur]
    BY <1>4 DEF ImageGate, Skip, At, TypeOK
  <2>3. \A c \in Cells : marker'[c] => marker[c] \/ (c = cur /\ ~built[cur] /\ Rows(cur) = {})
    <3>1. CASE built[cur]
      BY <1>4, <3>1 DEF ImageGate, TypeOK
    <3>2. CASE ~built[cur]
      <4>1. marker' = [marker EXCEPT ![cur] = marker[cur] \/ Rows(cur) = {}]
        BY <1>4, <3>2 DEF ImageGate
      <4> HIDE DEF Rows
      <4> QED
        BY <3>2, <4>1, Zenon DEF TypeOK
    <3> QED
      BY <3>1, <3>2
  <2> QED
    BY <2>1, <2>2, <2>3 DEF MarkerInv, Starting
<1>5. CASE WaitForDisk \/ CheckHost
  BY <1>5 DEF WaitForDisk, CheckHost, Skip, At, MarkerInv, Starting
<1>6. CASE Spawn
  BY <1>6 DEF Spawn, At, MarkerInv, Starting, TypeOK
<1>7. CASE Record
  BY <1>7 DEF Record, At, MarkerInv, Starting
<1>8. CASE TeardownStart \/ TeardownEnd \/ PoolDone \/ RetryStart \/ FlagMostlyBlocked \/ Exit
  BY <1>8 DEF TeardownStart, TeardownEnd, PoolDone, RetryStart, FlagMostlyBlocked, Exit,
     At, MarkerInv, Starting
<1>9. CASE TrapEnter \/ TrapTeardownEnd \/ TrapExit
  BY <1>9 DEF TrapEnter, TrapTeardownEnd, MarkTerminated, TrapExit, MarkerInv, Starting
<1>10. CASE TrapStop
  BY <1>10 DEF TrapStop, MarkerInv, Starting, Active
<1>11. ASSUME NEW c \in Cells, TrapTeardownStart(c) PROVE MarkerInv'
  BY <1>11 DEF TrapTeardownStart, MarkerInv, Starting
<1>12. CASE SignalShell \/ SignalGroup
  BY <1>12 DEF SignalShell, SignalGroup, MarkTerminated, MarkerInv, Starting
<1>13. ASSUME NEW c \in Cells, Cell(c) PROVE MarkerInv'
  <2>1. ~marker[c]
    BY <1>13, CellFrame DEF MarkerInv
  <2> QED
    BY <1>13, <2>1, CellFrame DEF MarkerInv, shell
<1>14. ASSUME NEW c \in Cells, Others(c) PROVE MarkerInv'
  BY <1>14, OthersFrame DEF MarkerInv, shell
<1>15. CASE UNCHANGED vars
  BY <1>15 DEF MarkerInv, vars, shell
<1> QED
  BY <1>1, <1>2, <1>3, <1>4, <1>5, <1>6, <1>7, <1>8, <1>9, <1>10, <1>11,
     <1>12, <1>13, <1>14, <1>15 DEF Next, Main, Finished

-----------------------------------------------------------------------------
\* The answers.
LEMMA AnswerInit == Init => AnswerInv
  BY DEF Init, AnswerInv, Regular, Awaited, InTrap, NoCode

LEMMA AnswerStep == TypeOK /\ PoolInv /\ AnswerInv /\ [Next]_vars => AnswerInv'
<1> SUFFICES ASSUME TypeOK, PoolInv, AnswerInv, [Next]_vars PROVE AnswerInv'
  OBVIOUS
<1> USE DEF pool, books, sent, ends, evidence, host, Regular, Awaited, InTrap
<1>0. pc # "exit" => status = NoCode
  BY DEF AnswerInv
<1>1. ASSUME NEW c \in Cells, PoolFill(c) PROVE AnswerInv'
  BY <1>1, <1>0 DEF PoolFill, AnswerInv, At, Starting, TypeOK, NoCode
<1>2. ASSUME NEW c \in Cells, ReapOne(c) PROVE AnswerInv'
  BY <1>2, <1>0 DEF ReapOne, AnswerInv, At, Starting, TypeOK, NoCode
<1>3. ASSUME NEW c \in Cells, RetryScan(c) PROVE AnswerInv'
  BY <1>3, <1>0 DEF RetryScan, AnswerInv, At, Starting, NoCode
<1>4. CASE ImageGate \/ WaitForDisk \/ CheckHost
  <2>1. CASE \E code \in Codes : Skip(code)
    BY <1>4, <1>0, <2>1 DEF ImageGate, WaitForDisk, CheckHost, Skip, At, AnswerInv, Starting, TypeOK,
       Codes, NoCode
  <2>2. CASE UNCHANGED books /\ pc' \in Starting
    BY <1>4, <1>0, <2>2 DEF ImageGate, WaitForDisk, CheckHost, At, AnswerInv, Starting
  <2> QED
    BY <1>4, <2>1, <2>2 DEF ImageGate, WaitForDisk, CheckHost, Codes, Starting
<1>5. CASE Spawn \/ Record
  BY <1>5, <1>0 DEF Spawn, Record, At, AnswerInv, Starting, TypeOK, NoCode
<1>6. CASE TeardownStart \/ TeardownEnd \/ PoolDone
  BY <1>6, <1>0 DEF TeardownStart, TeardownEnd, PoolDone, At, AnswerInv, Starting, NoCode
<1>7. CASE RetryStart
  BY <1>7, <1>0 DEF RetryStart, At, AnswerInv, PoolInv, Starting, NoCode
<1>8. CASE FlagMostlyBlocked
  BY <1>8, <1>0 DEF FlagMostlyBlocked, At, AnswerInv, PoolInv, Starting, NoCode
<1>9. CASE Exit
  <2>1. /\ pc = "report" /\ pids = {} /\ todo = {}
        /\ \A c \in Cells : proc[c] \notin Active \cup Ended
    BY <1>9, InHandAwaited DEF Exit, At, PoolInv, AnswerInv
  <2>2. \A c \in Cells : proc[c] = "none"
    BY <2>1 DEF AnswerInv, TypeOK, Procs
  <2> QED
    BY <1>9, <2>1, <2>2 DEF Exit, AnswerInv, Starting, NoCode
<1>10. CASE TrapEnter \/ TrapStop \/ TrapTeardownEnd \/ TrapExit \/ \E c \in Cells : TrapTeardownStart(c)
  BY <1>10, <1>0 DEF TrapEnter, TrapStop, TrapTeardownEnd, MarkTerminated, TrapExit,
     TrapTeardownStart, AnswerInv, NoCode
<1>11. CASE SignalShell
  BY <1>11, <1>0 DEF SignalShell, AnswerInv, NoCode
<1>12. CASE SignalGroup
  BY <1>12, <1>0 DEF SignalGroup, MarkTerminated, AnswerInv, Starting, NoCode
<1>13. ASSUME NEW c \in Cells, Cell(c) PROVE AnswerInv'
  <2>1. PICK p \in Active \cup Ended : proc' = [proc EXCEPT ![c] = p]
    BY <1>13, CellFrame
  <2>2. UNCHANGED shell /\ proc[c] # "none" /\ \A d \in Cells : proc'[d] # "killed" \/ proc'[d] = proc[d]
    BY <1>13, <2>1, CellFrame DEF TypeOK, Active, Ended
  <2> QED
    BY <2>2 DEF AnswerInv, shell
<1>14. ASSUME NEW c \in Cells, Others(c) PROVE AnswerInv'
  BY <1>14, OthersFrame DEF AnswerInv, shell
<1>15. CASE UNCHANGED vars
  BY <1>15 DEF AnswerInv, vars, shell
<1> QED
  BY <1>1, <1>2, <1>3, <1>4, <1>5, <1>6, <1>7, <1>8, <1>9, <1>10, <1>11,
     <1>12, <1>13, <1>14, <1>15 DEF Next, Main, Finished

-----------------------------------------------------------------------------
\* The images.
LEMMA ImageInit == Init => ImageInv
  BY DEF Init, ImageInv, Starting, Active, Ended, NoCode

LEMMA ImageStep == TypeOK /\ ImageInv /\ [Next]_vars => ImageInv'
<1> SUFFICES ASSUME TypeOK, ImageInv, [Next]_vars PROVE ImageInv'
  OBVIOUS
<1> USE DEF pool, books, sent, ends, evidence, host
<1>1. ASSUME NEW c \in Cells, PoolFill(c) PROVE ImageInv'
  BY <1>1 DEF PoolFill, ImageInv, At, Starting
<1>2. ASSUME NEW c \in Cells, ReapOne(c) PROVE ImageInv'
  BY <1>2 DEF ReapOne, ImageInv, At, Starting, TypeOK, Active, Ended
<1>3. ASSUME NEW c \in Cells, RetryScan(c) PROVE ImageInv'
  BY <1>3 DEF RetryScan, ImageInv, At, Starting
<1>4. CASE ImageGate
  BY <1>4 DEF ImageGate, Skip, At, ImageInv, Starting, TypeOK
<1>5. CASE WaitForDisk \/ CheckHost
  BY <1>5 DEF WaitForDisk, CheckHost, Skip, At, ImageInv, Starting, TypeOK
<1>6. CASE Spawn
  BY <1>6 DEF Spawn, At, ImageInv, Starting, TypeOK
<1>7. CASE Record
  BY <1>7 DEF Record, At, ImageInv, Starting
<1>8. CASE TeardownStart \/ TeardownEnd \/ PoolDone \/ RetryStart \/ Exit
  BY <1>8 DEF TeardownStart, TeardownEnd, PoolDone, RetryStart, Exit, At, ImageInv, Starting
<1>9. CASE FlagMostlyBlocked
  BY <1>9 DEF FlagMostlyBlocked, At, ImageInv, Starting
<1>10. CASE TrapEnter \/ TrapExit
  BY <1>10 DEF TrapEnter, TrapExit, ImageInv, Starting
<1>11. CASE TrapStop
  BY <1>11 DEF TrapStop, ImageInv, Starting, Active, Ended
<1>12. CASE TrapTeardownEnd
  BY <1>12 DEF TrapTeardownEnd, MarkTerminated, ImageInv, Starting, TypeOK
<1>13. ASSUME NEW c \in Cells, TrapTeardownStart(c) PROVE ImageInv'
  BY <1>13 DEF TrapTeardownStart, ImageInv, Starting
<1>14. CASE SignalShell \/ SignalGroup
  BY <1>14 DEF SignalShell, SignalGroup, MarkTerminated, ImageInv, Starting, TypeOK
<1>15. ASSUME NEW c \in Cells, Cell(c) PROVE ImageInv'
  BY <1>15, CellFrame DEF ImageInv, shell
<1>16. ASSUME NEW c \in Cells, Others(c) PROVE ImageInv'
  BY <1>16, OthersFrame DEF ImageInv, shell
<1>17. CASE UNCHANGED vars
  BY <1>17 DEF ImageInv, vars, shell
<1> QED
  BY <1>1, <1>2, <1>3, <1>4, <1>5, <1>6, <1>7, <1>8, <1>9, <1>10, <1>11,
     <1>12, <1>13, <1>14, <1>15, <1>16, <1>17 DEF Next, Main, Finished

-----------------------------------------------------------------------------
\* Exit status 0.
LEMMA NoRowsNoBlocked == \A c \in Cells : Rows(c) = {} => ~MostlyBlocked(c)
<1> SUFFICES ASSUME NEW c \in Cells, Rows(c) = {} PROVE ~MostlyBlocked(c)
  OBVIOUS
<1>1. BlockedRows(c) = {}
  BY DEF BlockedRows, Rows, NoRow
<1> QED
  BY <1>1, FS_EmptySet, PoolAssumption DEF MostlyBlocked

LEMMA GreenInit == Init => GreenInv
  BY DEF Init, GreenInv, NoCode, Complete

LEMMA GreenStep ==
    TypeOK /\ PoolInv /\ AnswerInv /\ GreenInv /\ [Next]_vars => GreenInv'
<1> SUFFICES ASSUME TypeOK, PoolInv, AnswerInv, GreenInv, [Next]_vars PROVE GreenInv'
  OBVIOUS
<1> USE DEF pool, books, sent, ends, evidence, host, Regular, InTrap
<1>a. ASSUME UNCHANGED <<verd, dom>> PROVE \A c \in Cells : Complete(c)' = Complete(c)
  BY <1>a DEF Complete, Unmeasured
<1>b. ASSUME UNCHANGED verd
      PROVE  \A c \in Cells : Unmeasured(c)' = Unmeasured(c) /\ MostlyBlocked(c)' = MostlyBlocked(c)
  BY <1>b DEF Unmeasured, MostlyBlocked, BlockedRows, Rows
<1>1. ASSUME NEW c \in Cells, PoolFill(c) PROVE GreenInv'
  BY <1>1, <1>a, <1>b DEF PoolFill, At, GreenInv, ToRerun, Awaited, Starting
<1>2. ASSUME NEW c \in Cells, ReapOne(c) PROVE GreenInv'
  <2>1. \A d \in Cells : proc'[d] \in {"ok", "closing"} => proc'[d] = proc[d]
    BY <1>2 DEF ReapOne, TypeOK
  <2>2. \A d \in Cells : rc'[d] = "0" => (d # c /\ rc[d] = "0") \/ (d = c /\ proc[d] = "ok")
    BY <1>2 DEF ReapOne, TypeOK, Ended
  <2> QED
    BY <1>2, <1>a, <1>b, <2>1, <2>2 DEF ReapOne, At, GreenInv, ToRerun, Awaited, Starting
<1>3. ASSUME NEW c \in Cells, RetryScan(c) PROVE GreenInv'
  <2>1. \A d \in Cells : d \in retried' \/ verd'[d] = verd[d]
    BY <1>3 DEF RetryScan, TypeOK
  <2>2. \A d \in Cells : proc[d] \notin Active \cup Ended
    BY <1>3, InHandAwaited DEF RetryScan, At, PoolInv
  <2>3. pc = "scan" /\ pass = 1 /\ retried \subseteq retried' /\ UNCHANGED <<pc, pass, rc, proc, dom>>
    BY <1>3 DEF RetryScan, At, GreenInv
  <2> QED
    BY <2>1, <2>2, <2>3 DEF GreenInv, ToRerun, Complete, Unmeasured, Active, Ended
<1>4. CASE ImageGate \/ WaitForDisk \/ CheckHost
  <2>1. CASE \E code \in Codes \ {"0"} : Skip(code)
    <3>1. \A d \in Cells : rc'[d] = "0" => d # cur /\ rc[d] = "0"
      BY <2>1 DEF Skip, TypeOK
    <3> QED
      BY <1>4, <2>1, <3>1, <1>a, <1>b DEF ImageGate, WaitForDisk, CheckHost, Skip, At, GreenInv, ToRerun,
         Awaited, Starting
  <2>2. CASE UNCHANGED books /\ pc' \in Starting
    BY <1>4, <2>2, <1>a, <1>b DEF ImageGate, WaitForDisk, CheckHost, At, GreenInv, ToRerun, Awaited, Starting
  <2> QED
    BY <1>4, <2>1, <2>2 DEF ImageGate, WaitForDisk, CheckHost, Codes, Starting
<1>5. CASE Spawn
  <2>1. \A d \in Cells : proc'[d] \in {"ok", "closing"} => proc'[d] = proc[d]
    BY <1>5 DEF Spawn, TypeOK
  <2> QED
    BY <1>5, <1>a, <1>b, <2>1 DEF Spawn, At, GreenInv, ToRerun, Awaited, Starting
<1>6. CASE Record
  BY <1>6, <1>a, <1>b DEF Record, At, GreenInv, ToRerun, Awaited, Starting
<1>7. CASE TeardownStart
  BY <1>7, <1>a, <1>b DEF TeardownStart, At, GreenInv, ToRerun, Awaited, Starting
<1>8. CASE TeardownEnd
  <2>1. \A c \in Cells : Complete(c) => Complete(c)'
    BY <1>8 DEF TeardownEnd, DownCell, Complete, Unmeasured, TypeOK
  <2> QED
    BY <1>8, <1>b, <2>1 DEF TeardownEnd, At, GreenInv, ToRerun, Awaited, Starting
<1>9. CASE PoolDone
  <2>1. pids = {} /\ todo = {}
    BY <1>9, FinitePids, FS_EmptySet DEF PoolDone, PoolInv
  <2> QED
    BY <1>9, <1>a, <1>b, <2>1 DEF PoolDone, At, GreenInv, ToRerun, Awaited, Starting
<1>10. CASE RetryStart
  BY <1>10, <1>a, <1>b DEF RetryStart, At, GreenInv, ToRerun, Awaited, Starting
<1>11. CASE FlagMostlyBlocked
  <2>1. \A c \in Cells : rc'[c] = "0" => rc[c] = "0" /\ ~MostlyBlocked(c)
    BY <1>11, NoRowsNoBlocked DEF FlagMostlyBlocked
  <2> QED
    BY <1>11, <1>a, <1>b, <2>1 DEF FlagMostlyBlocked, At, GreenInv, ToRerun, Awaited, Starting
<1>12. CASE Exit \/ TrapEnter \/ TrapExit \/ \E c \in Cells : TrapTeardownStart(c)
  BY <1>12, <1>a, <1>b DEF Exit, At, TrapEnter, TrapExit, TrapTeardownStart, GreenInv
<1>13. CASE TrapStop
  <2>1. \A d \in Cells : proc'[d] \in {"ok", "closing"} => proc'[d] = proc[d]
    BY <1>13 DEF TrapStop
  <2> QED
    BY <1>13, <1>a, <1>b, <2>1 DEF TrapStop, GreenInv
<1>14. CASE TrapTeardownEnd
  <2>1. \A c \in Cells : Complete(c) => Complete(c)'
    BY <1>14 DEF TrapTeardownEnd, DownCell, Complete, Unmeasured, TypeOK
  <2> QED
    BY <1>14, <1>b, <2>1 DEF TrapTeardownEnd, MarkTerminated, GreenInv
<1>15. CASE SignalShell
  BY <1>15, <1>a, <1>b DEF SignalShell, GreenInv, ToRerun, Awaited
<1>16. CASE SignalGroup
  BY <1>16, <1>a, <1>b DEF SignalGroup, MarkTerminated, GreenInv, ToRerun, Awaited, Starting
<1>17. ASSUME NEW c \in Cells, Cell(c) PROVE GreenInv'
  <2>1. /\ proc[c] \in Active /\ UNCHANGED shell
        /\ \A d \in Cells \ {c} : proc'[d] = proc[d] /\ verd'[d] = verd[d] /\ dom'[d] = dom[d]
    BY <1>17, CellFrame
  <2>2. Regular => pc \notin {"scan", "report"} /\ ToRerun(c)
    BY <2>1, InHandAwaited DEF PoolInv, ToRerun, Awaited, Starting
  <2>3. /\ proc'[c] = "closing" => Unmeasured(c)'= {}
        /\ proc'[c] = "ok" => Complete(c)'
    <3>1. CASE CellMeasured(c)
      BY <3>1 DEF CellMeasured, Unmeasured, Step, TypeOK
    <3>2. CASE CellDown(c)
      BY <3>2 DEF CellDown, Unmeasured, Complete, Step, TypeOK, GreenInv
    <3>3. CASE ~CellMeasured(c) /\ ~CellDown(c)
      BY <1>17, <3>3 DEF Cell, CellEnds, CellUp, CellUpFails, CellMeasure, CellShapeFails, CellDies, Step, TypeOK
    <3> QED
      BY <3>1, <3>2, <3>3
  <2>4. \A d \in Cells \ {c} : Unmeasured(d)' = Unmeasured(d) /\ Complete(d)' = Complete(d)
    BY <2>1 DEF Unmeasured, Complete
  <2> QED
    BY <2>1, <2>2, <2>3, <2>4 DEF GreenInv, ToRerun, Awaited, shell
<1>18. ASSUME NEW c \in Cells, Others(c) PROVE GreenInv'
  <2>1. \A d \in Cells : Complete(d) => Complete(d)'
    BY <1>18, OthersFrame DEF Complete, Unmeasured
  <2> QED
    BY <1>18, <1>b, <2>1, OthersFrame DEF GreenInv, ToRerun, Awaited, shell
<1>19. CASE UNCHANGED vars
  BY <1>19, <1>a, <1>b DEF GreenInv, ToRerun, Awaited, vars, shell
<1> QED
  BY <1>1, <1>2, <1>3, <1>4, <1>5, <1>6, <1>7, <1>8, <1>9, <1>10, <1>11, <1>12, <1>13,
     <1>14, <1>15, <1>16, <1>17, <1>18, <1>19 DEF Next, Main, Finished

\* Once the status is 0 no session is left to change a row or a domain.
LEMMA MeasuredStep ==
    TypeOK /\ PoolInv /\ AnswerInv /\ ImageInv /\ GreenInv /\ GreenMeansMeasured /\ [Next]_vars
        => GreenMeansMeasured'
<1> SUFFICES ASSUME TypeOK, PoolInv, AnswerInv, ImageInv, GreenInv, GreenMeansMeasured, [Next]_vars,
                    status' = "0", NEW c \in Cells
             PROVE  \/ rc'[c] = "skipped-image" /\ c \notin retried'
                    \/ Unmeasured(c)' = {} /\ ~MostlyBlocked(c)' /\ dom'[c] # "ours"
  BY DEF GreenMeansMeasured
<1> USE DEF pool, books, sent, ends, evidence, host
<1>1. CASE status = "0"
  <2>1. pc = "exit" /\ \A d \in Cells : proc[d] = "none"
    BY <1>1 DEF AnswerInv, NoCode
  <2>2. ~Main /\ ~SignalShell /\ ~SignalGroup /\ \A d \in Cells : ~Cell(d)
    BY <2>1, CellFrame DEF Main, PoolFill, ReapOne, RetryScan, ImageGate, WaitForDisk, CheckHost, Spawn,
       Record, TeardownStart, TeardownEnd, PoolDone, RetryStart, FlagMostlyBlocked, Exit, At,
       TrapEnter, TrapStop, TrapTeardownEnd, TrapExit, TrapTeardownStart, SignalShell, SignalGroup,
       InTrap, Active
  <2>3. UNCHANGED <<rc, retried, verd>> /\ (dom'[c] = "ours" => dom[c] = "ours")
    BY <2>2, OthersFrame DEF Next, Finished, vars, shell
  <2> QED
    BY <1>1, <2>3 DEF GreenMeansMeasured, Unmeasured, MostlyBlocked, BlockedRows, Rows
<1>2. CASE status # "0"
  <2>1. Exit
    BY <1>2, CellFrame, OthersFrame DEF Next, Main, PoolFill, ReapOne, RetryScan, ImageGate, WaitForDisk,
       CheckHost, Spawn, Record, TeardownStart, TeardownEnd, PoolDone, RetryStart, FlagMostlyBlocked,
       TrapEnter, TrapStop, TrapTeardownEnd, TrapExit, TrapTeardownStart, SignalShell, SignalGroup,
       Finished, vars, shell
  <2>2. /\ rc[c] \in {"0", "skipped-image"} /\ pc = "report"
        /\ UNCHANGED <<rc, retried, verd, dom>>
    BY <2>1 DEF Exit, At
  <2>3. ~Awaited(c)
    BY <2>2 DEF PoolInv, AnswerInv, Awaited, Starting
  <2>4. rc[c] = "0" => Complete(c) /\ ~MostlyBlocked(c)
    BY <2>2, <2>3 DEF GreenInv, ToRerun, Regular, InTrap
  <2> QED
    BY <2>2, <2>4 DEF ImageInv, Complete, Unmeasured, MostlyBlocked, BlockedRows, Rows
<1> QED
  BY <1>1, <1>2

-----------------------------------------------------------------------------
\* What is left on the host.
LEMMA QuietStep == QuietInv /\ TypeOK /\ [Next]_vars => QuietInv'
<1> SUFFICES ASSUME QuietInv, TypeOK, [Next]_vars, signals' = 0
             PROVE  ~pending' /\ ~InTrap' /\ status' # "130"
  BY DEF QuietInv
<1> USE DEF pool, books, sent, ends, InTrap, At
<1>1. ~SignalShell /\ ~SignalGroup
  BY DEF TypeOK, SignalShell, SignalGroup
<1>2. CASE UNCHANGED shell
  BY <1>2 DEF QuietInv, shell
<1>3. CASE Main
  <2>1. signals = 0
    BY <1>3 DEF Main, PoolFill, ReapOne, RetryScan, ImageGate, WaitForDisk, CheckHost, Spawn, Record,
       TeardownStart, TeardownEnd, PoolDone, RetryStart, FlagMostlyBlocked, Exit,
       TrapEnter, TrapStop, TrapTeardownEnd, TrapExit, TrapTeardownStart
  <2>2. ~pending /\ ~InTrap /\ status # "130"
    BY <2>1 DEF QuietInv
  <2>3. ~TrapEnter /\ ~TrapStop /\ ~TrapTeardownEnd /\ ~TrapExit /\ \A c \in Cells : ~TrapTeardownStart(c)
    BY <2>2 DEF TrapEnter, TrapStop, TrapTeardownEnd, TrapExit, TrapTeardownStart
  <2>4. CASE ImageGate \/ WaitForDisk \/ CheckHost \/ Spawn \/ Record \/ TeardownStart \/ TeardownEnd
    BY <2>2, <2>4 DEF ImageGate, WaitForDisk, CheckHost, Skip, Spawn, Record, TeardownStart, TeardownEnd
  <2>5. CASE PoolDone \/ RetryStart \/ FlagMostlyBlocked \/ Exit
    BY <2>2, <2>5 DEF PoolDone, RetryStart, FlagMostlyBlocked, Exit
  <2>6. CASE \E c \in Cells : PoolFill(c) \/ ReapOne(c) \/ RetryScan(c)
    BY <2>2, <2>6 DEF PoolFill, ReapOne, RetryScan
  <2> QED
    BY <1>3, <2>3, <2>4, <2>5, <2>6 DEF Main
<1>4. \A c \in Cells : Cell(c) \/ Others(c) => UNCHANGED shell
  BY CellFrame, OthersFrame
<1> QED
  BY <1>1, <1>2, <1>3, <1>4 DEF Next, Finished, vars

LEMMA LeftoverStep ==
    TypeOK /\ PoolInv /\ AnswerInv /\ GreenInv /\ QuietInv /\ QuietInv' /\ LeftoverIsReported /\ [Next]_vars
        => LeftoverIsReported'
<1> SUFFICES ASSUME TypeOK, PoolInv, AnswerInv, GreenInv, QuietInv, QuietInv', LeftoverIsReported, [Next]_vars,
                    signals' = 0, NEW c \in Cells, dom'[c] = "ours"
             PROVE  c \in pids' \cup refused' \/ (cur' = c /\ pc' \in {"record", "down", "downing"})
  BY DEF LeftoverIsReported
<1> USE DEF pool, books, sent, ends, evidence, host
<1>1. CASE \E d \in Cells : Cell(d)
  <2>1. PICK d \in Cells : Cell(d)
    BY <1>1
  <2>2. UNCHANGED shell /\ signals = 0 /\ proc[d] \in Active
    BY <2>1, CellFrame DEF shell
  <2>3. pc # "exit"
    BY <2>2 DEF QuietInv, AnswerInv, TypeOK, Active
  <2>4. d \in pids \/ (pc = "record" /\ cur = d)
    BY <2>2, <2>3, InHandAwaited DEF QuietInv, Regular
  <2>5. c # d => dom[c] = "ours"
    BY <2>1, CellFrame
  <2> QED
    BY <2>2, <2>4, <2>5 DEF LeftoverIsReported, shell
<1>2. CASE \E d \in Cells : Others(d)
  <2>1. PICK d \in Cells : Others(d)
    BY <1>2
  <2>2. UNCHANGED shell /\ dom[c] = "ours"
    BY <2>1, OthersFrame
  <2> QED
    BY <2>2 DEF LeftoverIsReported, shell
<1>3. CASE \E d \in Cells : ReapOne(d)
  <2>1. PICK d \in Cells : ReapOne(d)
    BY <1>3
  <2>2. dom[c] = "ours" /\ signals = 0 /\ pc = "pool"
    BY <2>1 DEF ReapOne, At
  <2>3. c \in pids \cup refused
    BY <2>2 DEF LeftoverIsReported
  <2>4. c = d => proc[c] # "ok"
    BY <2>2 DEF GreenInv, Complete
  <2> QED
    BY <2>1, <2>3, <2>4 DEF ReapOne
<1>4. CASE TeardownEnd
  BY <1>4 DEF TeardownEnd, DownCell, LeftoverIsReported, QuietInv, TypeOK
<1>5. CASE TrapEnter \/ TrapStop \/ TrapTeardownEnd \/ TrapExit \/ \E d \in Cells : TrapTeardownStart(d)
  BY <1>5 DEF TrapEnter, TrapStop, TrapTeardownEnd, MarkTerminated, TrapExit, TrapTeardownStart, QuietInv, InTrap
<1>6. CASE SignalShell \/ SignalGroup
  BY <1>6 DEF SignalShell, SignalGroup, TypeOK
<1>7. CASE Spawn \/ Record \/ TeardownStart
  BY <1>7 DEF Spawn, Record, TeardownStart, At, LeftoverIsReported
<1>8. CASE ImageGate \/ WaitForDisk \/ CheckHost
  BY <1>8 DEF ImageGate, WaitForDisk, CheckHost, Skip, At, LeftoverIsReported
<1>9. CASE PoolDone \/ RetryStart \/ FlagMostlyBlocked \/ Exit
  BY <1>9 DEF PoolDone, RetryStart, FlagMostlyBlocked, Exit, At, LeftoverIsReported
<1>10. CASE \E d \in Cells : PoolFill(d) \/ RetryScan(d)
  BY <1>10 DEF PoolFill, RetryScan, At, LeftoverIsReported
<1>11. CASE UNCHANGED vars
  BY <1>11 DEF LeftoverIsReported, vars, shell
<1> QED
  BY <1>1, <1>2, <1>3, <1>4, <1>5, <1>6, <1>7, <1>8, <1>9, <1>10, <1>11 DEF Next, Main, Finished

-----------------------------------------------------------------------------
\* Between the look at the host and the start nobody else defines the cell.
ClearInv == pc = "spawn" => dom[cur] = "none"

LEMMA ClearStep ==
    ASSUME OthersKeepAway, TypeOK, PoolInv, ClearInv, [Next]_vars
    PROVE  ClearInv'
<1> SUFFICES ASSUME pc' = "spawn" PROVE dom'[cur'] = "none"
  BY DEF ClearInv
<1> USE DEF pool, books, sent, ends, evidence, host, At
<1>1. CASE CheckHost
  BY <1>1 DEF CheckHost, HostConflict, Skip
<1>2. CASE pc = "spawn" /\ UNCHANGED <<cur, dom>>
  BY <1>2 DEF ClearInv
<1>3. CASE \E c \in Cells : Cell(c)
  <2>1. PICK c \in Cells : Cell(c)
    BY <1>3
  <2>2. UNCHANGED shell /\ proc[c] \in Active /\ \A d \in Cells \ {c} : dom'[d] = dom[d]
    BY <2>1, CellFrame
  <2>3. pc = "spawn" /\ cur' = cur
    BY <2>2 DEF shell
  <2>4. c # cur
    BY <2>2, <2>3, InHandAwaited DEF PoolInv, Starting, Regular, InTrap
  <2> QED
    BY <2>2, <2>3, <2>4 DEF ClearInv, TypeOK
<1>4. CASE \E c \in Cells : Others(c)
  <2>1. UNCHANGED shell
    BY <1>4, OthersFrame
  <2>2. pc = "spawn" /\ cur' = cur
    BY <2>1 DEF shell
  <2> QED
    BY <1>4, <2>2 DEF ClearInv, TypeOK, Others, OtherDefines, OtherRemoves, ImageBuilt, BringingUp
<1>5. CASE SignalShell \/ SignalGroup
  BY <1>5, <1>2 DEF SignalShell, SignalGroup, MarkTerminated
<1>6. CASE UNCHANGED vars
  BY <1>6, <1>2 DEF vars, shell
<1>7. CASE Main /\ ~CheckHost
  BY <1>7 DEF Main, PoolFill, ReapOne, RetryScan, ImageGate, WaitForDisk, Skip, Spawn, Record,
     TeardownStart, TeardownEnd, PoolDone, RetryStart, FlagMostlyBlocked, Exit,
     TrapEnter, TrapStop, TrapTeardownEnd, MarkTerminated, TrapExit, TrapTeardownStart
<1> QED
  BY <1>1, <1>3, <1>4, <1>5, <1>6, <1>7 DEF Next, Finished

-----------------------------------------------------------------------------
\* What holds in every state.
Inv == TypeOK /\ PoolInv /\ AnswerInv /\ ImageInv /\ GreenInv /\ QuietInv

LEMMA Invariant == Spec => []Inv
<1>1. Init => Inv
  BY TypeInit, PoolInvInit, AnswerInit, ImageInit, GreenInit DEF Inv, QuietInv, Init, InTrap, NoCode
<1>2. Inv /\ [Next]_vars => Inv'
  BY TypeStep, PoolInvStep, AnswerStep, ImageStep, GreenStep, QuietStep DEF Inv
<1> QED
  BY <1>1, <1>2, PTL DEF Spec

\* The results page never meets a bundle with both an image-not-built marker
\* and a verdict of the same cell, whatever order starts, runs and signals
\* come in.
THEOREM MarkerExclusiveHolds == Spec => []MarkerExclusive
<1>1. Inv /\ MarkerInv /\ [Next]_vars => MarkerInv'
  BY MarkerStep DEF Inv
<1>2. MarkerInv => MarkerExclusive
  BY DEF MarkerInv, MarkerExclusive
<1> QED
  BY <1>1, <1>2, MarkerInit, Invariant, PTL DEF Spec

\* A run that ends has an answer for every cell, the same in the table and on
\* disk, and no session of it runs on.
THEOREM EveryCellAnsweredHolds == Spec => []EveryCellAnswered
<1>1. Inv => EveryCellAnswered
  BY DEF Inv, AnswerInv, EveryCellAnswered
<1> QED
  BY <1>1, Invariant, PTL

\* Exit 0 vouches for every cell, through both passes of the pool.
THEOREM GreenMeansMeasuredHolds == Spec => []GreenMeansMeasured
<1>1. Init => GreenMeansMeasured
  BY DEF Init, GreenMeansMeasured, NoCode
<1>2. Inv /\ GreenMeansMeasured /\ [Next]_vars => GreenMeansMeasured'
  BY MeasuredStep DEF Inv
<1> QED
  BY <1>1, <1>2, Invariant, PTL DEF Spec

\* Without a signal, no domains of this run are forgotten on the host.
THEOREM LeftoverIsReportedHolds == Spec => []LeftoverIsReported
<1>1. Init => LeftoverIsReported
  BY DEF Init, LeftoverIsReported
<1>2. Inv /\ Inv' /\ LeftoverIsReported /\ [Next]_vars => LeftoverIsReported'
  BY LeftoverStep DEF Inv
<1> QED
  BY <1>1, <1>2, Invariant, PTL DEF Spec

\* A measured verdict leaves the bundle only into retried/, in the one retry
\* pass there is.
THEOREM VerdictsKeptHolds == Spec => VerdictsKept
<1>1. ASSUME Inv, [Next]_vars, NEW c \in Cells, NEW s \in Scenarios,
             Real(verd[c][s]), verd'[c][s] # verd[c][s]
      PROVE  pass = 1 /\ verd'[c][s] = NoRow /\ aside'[c][s] = aside[c][s] + 1
  <2> USE DEF evidence, host
  <2>1. \A d \in Cells : ~Cell(d)
    <3> SUFFICES ASSUME NEW d \in Cells, Cell(d) PROVE FALSE
      OBVIOUS
    <3> QED
      BY <1>1, CellFrame DEF Inv
  <2>2. \A d \in Cells : ~Others(d)
    BY <1>1, OthersFrame DEF Inv
  <2>3. PICK d \in Cells : RetryScan(d)
    BY <1>1, <2>1, <2>2 DEF Next, Main, PoolFill, ReapOne, ImageGate, WaitForDisk, CheckHost, Spawn, Record,
       TeardownStart, TeardownEnd, PoolDone, RetryStart, FlagMostlyBlocked, Exit,
       TrapEnter, TrapStop, TrapTeardownEnd, TrapExit, TrapTeardownStart, SignalShell, SignalGroup,
       Finished, vars
  <2>4. pass = 1
    BY <1>1, <2>3 DEF Inv, GreenInv, RetryScan, At
  <2> QED
    BY <1>1, <2>3, <2>4 DEF Inv, TypeOK, RetryScan
<1>2. ASSUME Inv, [Next]_vars, pass = 2
      PROVE  pass' = 2 /\ retried' = retried
  <2> USE DEF pool
  <2>1. pc # "scan"
    BY <1>2 DEF Inv, GreenInv
  <2>2. \A c \in Cells : Cell(c) \/ Others(c) => UNCHANGED shell
    BY <1>2, CellFrame, OthersFrame DEF Inv
  <2> QED
    BY <1>2, <2>1, <2>2 DEF At, Next, Main, PoolFill, ReapOne, RetryScan, ImageGate, WaitForDisk, CheckHost,
       Spawn, Record, TeardownStart, TeardownEnd, PoolDone, RetryStart, FlagMostlyBlocked, Exit,
       TrapEnter, TrapStop, TrapTeardownEnd, TrapExit, TrapTeardownStart, SignalShell, SignalGroup,
       Finished, vars, shell
<1>3. Inv /\ [Next]_vars =>
        [/\ \A c \in Cells, s \in Scenarios :
              Real(verd[c][s]) /\ verd'[c][s] # verd[c][s] =>
                  /\ pass = 1
                  /\ verd'[c][s] = NoRow
                  /\ aside'[c][s] = aside[c][s] + 1
         /\ pass = 2 => pass' = 2 /\ retried' = retried]_vars
  BY <1>1, <1>2
<1> QED
  BY <1>3, Invariant, PTL DEF Spec, VerdictsKept

\* Where others keep away from a cell that is being brought up, no cell is
\* started on top of domains that are there.
THEOREM NeverOnTopHolds == OthersKeepAway => (Spec => NeverOnTop)
<1> SUFFICES ASSUME OthersKeepAway PROVE Spec => NeverOnTop
  OBVIOUS
<1>1. Init => ClearInv
  BY DEF Init, ClearInv
<1>2. Inv /\ ClearInv /\ [Next]_vars => ClearInv'
  BY ClearStep DEF Inv
<1>3. ASSUME Inv, ClearInv, [Next]_vars, NEW c \in Cells,
             proc[c] # "starting", proc'[c] = "starting"
      PROVE  dom[c] = "none" /\ proc[c] = "none"
  <2>1. \A d \in Cells : Cell(d) => FALSE
    <3> SUFFICES ASSUME NEW d \in Cells, Cell(d) PROVE FALSE
      OBVIOUS
    <3>1. PICK p \in Active \cup Ended : proc' = [proc EXCEPT ![d] = p]
      BY <1>3, CellFrame DEF Inv
    <3>2. proc'[d] # "starting"
      BY <1>3 DEF Inv, TypeOK, Cell, CellEnds, CellUp, CellUpFails, CellMeasured, CellShapeFails,
         CellDies, CellDown, CellMeasure, Step
    <3> QED
      BY <1>3, <3>1, <3>2 DEF Inv, TypeOK
  <2>2. \A d \in Cells : ~Others(d)
    BY <1>3, OthersFrame DEF Inv
  <2>3. Spawn
    BY <1>3, <2>1, <2>2 DEF Inv, TypeOK, Next, Main, PoolFill, ReapOne, RetryScan, ImageGate, WaitForDisk,
       CheckHost, Record, TeardownStart, TeardownEnd, PoolDone, RetryStart, FlagMostlyBlocked, Exit,
       TrapEnter, TrapStop, TrapTeardownEnd, TrapExit, TrapTeardownStart, SignalShell, SignalGroup,
       Finished, vars
  <2>4. pc = "spawn" /\ c = cur /\ dom[c] = "none"
    BY <1>3, <2>3 DEF Spawn, At, ClearInv, Inv, TypeOK
  <2>5. proc[c] \notin Active \cup Ended /\ proc[c] # "killed"
    BY <1>3, <2>4, InHandAwaited DEF Inv, PoolInv, AnswerInv, Starting, Regular, InTrap
  <2> QED
    BY <1>3, <2>4, <2>5 DEF Inv, TypeOK, Procs
<1>4. Inv /\ ClearInv /\ [Next]_vars =>
        [\A c \in Cells :
           proc[c] # "starting" /\ proc'[c] = "starting" =>
               dom[c] = "none" /\ proc[c] = "none"]_vars
  BY <1>3
<1> QED
  BY <1>1, <1>2, <1>4, Invariant, PTL DEF Spec, NeverOnTop
=============================================================================
