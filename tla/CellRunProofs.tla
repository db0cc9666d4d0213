--------------------------- MODULE CellRunProofs ---------------------------
(* What a cell's evidence keeps over any number of passes, shapes and        *)
(* scenarios: the verdicts implement VerdictStore, and a pass that exits 0   *)
(* has measured everything.                                                  *)
EXTENDS CellRun, WellFoundedInduction, TLAPS

\* A set of naturals that is not empty has a least member, and Min names it.
LEMMA MinIsMember ==
    ASSUME NEW S, S \subseteq Nat, S # {}
    PROVE  Min(S) \in S /\ \A y \in S : Min(S) =< y
<1> DEFINE Less == {p \in Nat \X Nat : p[1] < p[2]}
<1>0. IsWellFoundedOn(Less, Nat)
  <2>1. OpToRel(<, Nat) = Less
    BY Zenon DEF OpToRel
  <2> QED
    BY <2>1, NatLessThanWellFounded, Zenon
<1>1. PICK x \in S : \A y \in S : ~ (<<y, x>> \in Less)
  <2> HIDE DEF Less
  <2> QED
    BY <1>0, WFMin, Zenon
<1>2. \A y \in S : x =< y
  <2> SUFFICES ASSUME NEW y \in S PROVE x =< y
    OBVIOUS
  <2>1. <<y, x>> \in Nat \X Nat
    OBVIOUS
  <2>2. ~ (y < x)
    BY <1>1, <2>1
  <2> QED
    BY <2>2
<1> QED
  BY <1>2 DEF Min

-----------------------------------------------------------------------------
(* The inductive invariant.  GreenIsComplete is not inductive: it says       *)
(* nothing of the commands before the end of a pass.  LoopInv relates what   *)
(* labctl run still has to answer to the rows; GreenInv says how much is      *)
(* measured at each command of a pass that has not failed.                   *)

Full(sh) == Done(sh) = Scenarios

LoopInv ==
    /\ pc \in PCs
    /\ at \in 1..Len(ShapeOrder)
    /\ todo \subseteq Scenarios
    /\ rows \in [Shapes -> [Scenarios -> RowStates]]
    /\ failed \in BOOLEAN
    /\ short \in BOOLEAN
    /\ pc \in {"run", "write"} => todo \cap Done(shape) = {}
    /\ pc = "write" => todo # {}
    /\ pc \in {"up", "config", "start_cell", "start_server", "probe"} => at = 1

EndCommands == {"stop_cell", "cp_cell", "stop_server", "cp_server", "regenerate", "down", "ended"}

GreenInv ==
    ~failed =>
      /\ pc \notin {"abort", "abort_all"}
      /\ pc \in {"remaining", "run", "write"} => \A i \in 1..(at - 1) : Full(ShapeOrder[i])
      /\ pc \in {"run", "write"} => Done(shape) \cup todo = Scenarios
      /\ pc \in EndCommands => \A i \in 1..Len(ShapeOrder) : Full(ShapeOrder[i])

IInv == LoopInv /\ GreenInv

LEMMA ShapeIsShape ==
    ASSUME LoopInv
    PROVE  shape \in Shapes /\ Len(ShapeOrder) \in Nat
  BY ShapeOrderAssumption DEF LoopInv, shape, Shapes

\* Abort rows touch no verdict.
LEMMA AbortKeepsVerdicts ==
    ASSUME LoopInv, NEW sh \in Shapes, AbortRows(sh)
    PROVE  /\ rows' \in [Shapes -> [Scenarios -> RowStates]]
           /\ \A other \in Shapes : Done(other)' = Done(other)
<1> DEFINE Kept(row) == /\ row \in [Scenarios -> RowStates]
                        /\ \A sc \in Scenarios : row[sc] = "measured" <=> rows[sh][sc] = "measured"
<1>0. rows[sh] \in [Scenarios -> RowStates]
  BY DEF LoopInv
<1>1. \A S \in SUBSET RemainingOf(sh) : Kept(Aborted(sh, S))
  BY <1>0 DEF Aborted, RemainingOf, Done, RowStates
<1>2. \A S \in SUBSET RemainingOf(sh) : \A bad \in RemainingOf(sh) :
        Kept([Aborted(sh, S) EXCEPT ![bad] = "torn"])
  BY <1>0 DEF Aborted, RemainingOf, Done, RowStates
<1>3. ASSUME NEW row, Kept(row), rows' = [rows EXCEPT ![sh] = row]
      PROVE  /\ rows' \in [Shapes -> [Scenarios -> RowStates]]
             /\ \A other \in Shapes : Done(other)' = Done(other)
  BY <1>3 DEF LoopInv, Done
<1>4. CASE rows' = rows
  BY <1>4 DEF LoopInv, Done
<1> HIDE DEF Kept
<1>5. CASE rows' = [rows EXCEPT ![sh] = Aborted(sh, RemainingOf(sh))]
  BY <1>5, <1>1, <1>3
<1>6. ASSUME NEW bad \in RemainingOf(sh), NEW S \in SUBSET RemainingOf(sh),
             rows' \in {[rows EXCEPT ![sh] = Aborted(sh, S)],
                       [rows EXCEPT ![sh] = [Aborted(sh, S) EXCEPT ![bad] = "torn"]]}
      PROVE  /\ rows' \in [Shapes -> [Scenarios -> RowStates]]
             /\ \A other \in Shapes : Done(other)' = Done(other)
  BY <1>6, <1>1, <1>2, <1>3
<1>7. ASSUME NEW bad \in RemainingOf(sh),
             LET row == Aborted(sh, {sc \in RemainingOf(sh) : sc < bad})
             IN  rows' \in {[rows EXCEPT ![sh] = row],
                           [rows EXCEPT ![sh] = [row EXCEPT ![bad] = "torn"]]}
      PROVE  /\ rows' \in [Shapes -> [Scenarios -> RowStates]]
             /\ \A other \in Shapes : Done(other)' = Done(other)
  <2> DEFINE S == {sc \in RemainingOf(sh) : sc < bad}
  <2>1. S \in SUBSET RemainingOf(sh)
    OBVIOUS
  <2>2. rows' \in {[rows EXCEPT ![sh] = Aborted(sh, S)],
                  [rows EXCEPT ![sh] = [Aborted(sh, S) EXCEPT ![bad] = "torn"]]}
    BY <1>7
  <2> HIDE DEF S
  <2> QED
    BY <2>1, <2>2, <1>6
<1> QED
  BY <1>4, <1>5, <1>7, Zenon DEF AbortRows

\* A verdict that is written is one the run still owed.
LEMMA WriteAddsOne ==
    ASSUME LoopInv, WriteVerdict
    PROVE  /\ Min(todo) \in todo
           /\ rows' \in [Shapes -> [Scenarios -> RowStates]]
           /\ Done(shape)' = Done(shape) \cup {Min(todo)}
           /\ \A sh \in Shapes : Done(sh) \subseteq Done(sh)'
           /\ \A sh \in Shapes : sh # shape => Done(sh)' = Done(sh)
<1>1. todo \subseteq Nat /\ todo # {}
  BY CountsAssumption DEF LoopInv, WriteVerdict, Scenarios
<1>2. Min(todo) \in todo
  BY <1>1, MinIsMember
<1>3. shape \in Shapes /\ shape' = shape
  BY ShapeIsShape DEF WriteVerdict, shape
<1>4. rows' = [rows EXCEPT ![shape][Min(todo)] = "measured"]
  BY DEF WriteVerdict
<1> HIDE DEF shape, Min
<1>5. Min(todo) \in Scenarios
  BY <1>2 DEF LoopInv
<1>6. PICK m : m = Min(todo)
  OBVIOUS
<1>7. rows' \in [Shapes -> [Scenarios -> RowStates]]
  BY <1>3, <1>4, <1>5, <1>6 DEF LoopInv, RowStates
<1>8. \A sh \in Shapes : \A sc \in Scenarios :
        rows'[sh][sc] = IF sh = shape /\ sc = m THEN "measured" ELSE rows[sh][sc]
  BY <1>3, <1>4, <1>5, <1>6 DEF LoopInv
<1>9. Done(shape)' = Done(shape) \cup {m}
  BY <1>3, <1>5, <1>6, <1>8 DEF Done
<1>10. \A sh \in Shapes : Done(sh) \subseteq Done(sh)' /\ (sh # shape => Done(sh)' = Done(sh))
  BY <1>3, <1>5, <1>6, <1>8 DEF Done
<1> QED
  BY <1>2, <1>6, <1>7, <1>9, <1>10

-----------------------------------------------------------------------------
LEMMA LoopInit == Init => LoopInv
<1> SUFFICES ASSUME Init PROVE LoopInv
  OBVIOUS
<1>1. 1 \in 1..Len(ShapeOrder)
  BY ShapeOrderAssumption
<1> QED
  BY <1>1 DEF Init, LoopInv, PCs, RowStates

LEMMA LoopStep == LoopInv /\ [Next]_vars => LoopInv'
<1> SUFFICES ASSUME LoopInv, [Next]_vars PROVE LoopInv'
  OBVIOUS
<1>0. shape \in Shapes /\ Len(ShapeOrder) \in Nat /\ 1 \in 1..Len(ShapeOrder)
  BY ShapeIsShape, ShapeOrderAssumption
<1> USE DEF evidence, lab, loop, ends
<1>1. ASSUME UNCHANGED <<at, todo, rows>>, failed' \in BOOLEAN, short' \in BOOLEAN, pc' \in PCs,
             pc' \notin {"run", "write"},
             pc' \in {"up", "config", "start_cell", "start_server", "probe"} => at = 1
      PROVE  LoopInv'
  BY <1>1 DEF LoopInv
<1>2. CASE Start
  BY <1>2, <1>0 DEF Start, LoopInv, PCs
<1>3. CASE UpCell \/ UpCellFails \/ ChooseSlot \/ ProbeRelay
  BY <1>3, <1>1 DEF UpCell, UpCellFails, ChooseSlot, ProbeRelay, LoopInv, PCs
<1>4. CASE StartCell \/ StartServer
  BY <1>4, <1>1 DEF StartCell, StartServer, StartCapture, LoopInv, PCs
<1>5. CASE AbortAllShapes
  BY <1>5, <1>0, AbortKeepsVerdicts DEF AbortAllShapes, LoopInv, PCs
<1>6. CASE AskRemaining
  <2>1. CASE todo' = {}
    <3>1. UNCHANGED <<rows, failed>> /\ short' = FALSE /\ NextShape
      BY <1>6, <2>1 DEF AskRemaining
    <3>2. at' \in 1..Len(ShapeOrder) /\ pc' \in {"remaining", "stop_cell"}
      BY <3>1, <1>0 DEF NextShape, LoopInv
    <3> QED
      BY <2>1, <3>1, <3>2 DEF LoopInv, PCs
  <2>2. CASE todo' # {}
    <3>1. todo' = RemainingOf(shape) /\ at' = at /\ pc' = "run" /\ rows' = rows
      BY <1>6, <2>2 DEF AskRemaining, Listed
    <3> QED
      BY <1>6, <3>1 DEF AskRemaining, RemainingOf, Done, shape, LoopInv, PCs
  <2> QED
    BY <2>1, <2>2
<1>7. CASE RunBody \/ FindPoolShort
  <2>1. UNCHANGED <<at, todo, rows, failed>> /\ short' \in BOOLEAN
    BY <1>7 DEF RunBody, FindPoolShort, LoopInv
  <2>2. pc' \in {"run", "write"} /\ (pc' = "write" => todo # {})
    BY <1>7 DEF RunBody, FindPoolShort
  <2>3. todo \cap Done(shape) = {}
    BY <1>7 DEF RunBody, FindPoolShort, LoopInv
  <2> QED
    BY <2>1, <2>2, <2>3 DEF LoopInv, PCs, Done, shape
<1>8. CASE WriteVerdict
  <2>1. UNCHANGED <<at, short, failed>> /\ todo' = todo \ {Min(todo)} /\ pc' = "run" /\ shape' = shape
    BY <1>8 DEF WriteVerdict, shape
  <2>2. todo \cap Done(shape) = {}
    BY <1>8 DEF WriteVerdict, LoopInv
  <2> HIDE DEF shape, Min
  <2>3. todo' \cap Done(shape)' = {}
    BY <1>8, <2>1, <2>2, WriteAddsOne
  <2> QED
    BY <1>8, <2>1, <2>3, WriteAddsOne DEF LoopInv, PCs
<1>9. CASE WriteCut
  BY <1>9, <1>0 DEF WriteCut, LoopInv, PCs, RowStates
<1>10. CASE LabctlFails
  BY <1>10, <1>1 DEF LabctlFails, LoopInv, PCs
<1>11. CASE LabctlEnds
  BY <1>11, <1>0 DEF LabctlEnds, NextShape, LoopInv, PCs
<1>12. CASE AbortShape
  BY <1>12, <1>0, AbortKeepsVerdicts DEF AbortShape, NextShape, LoopInv, PCs
<1>13. CASE StopCell \/ StopServer
  BY <1>13, <1>1 DEF StopCell, StopServer, StopCapture, LoopInv, PCs
<1>14. CASE CopyCell \/ CopyServer
  BY <1>14, <1>1 DEF CopyCell, CopyServer, CopyOut, AfterCaptures, LoopInv, PCs
<1>15. CASE Regenerate \/ TearDown
  BY <1>15, <1>1 DEF Regenerate, TearDown, DownCell, DownCellRefuses, LoopInv, PCs
<1>16. CASE DiesUnderSetE \/ DiesAtRemaining \/ Kill
  BY <1>16, <1>1 DEF DiesUnderSetE, DiesAtRemaining, Kill, LoopInv, PCs
<1>17. CASE Reap \/ ReapGreen
  BY <1>17, <1>1 DEF Reap, ReapGreen, DownCell, DownCellRefuses, LoopInv, PCs
<1>18. CASE MoveAside
  BY <1>18 DEF MoveAside, LoopInv, RowStates, Done
<1>19. CASE UNCHANGED vars
  BY <1>19 DEF vars, LoopInv, Done, shape
<1> QED
  BY <1>2, <1>3, <1>4, <1>5, <1>6, <1>7, <1>8, <1>9, <1>10, <1>11, <1>12, <1>13, <1>14, <1>15,
     <1>16, <1>17, <1>18, <1>19 DEF Next

-----------------------------------------------------------------------------
LEMMA GreenStep == IInv /\ [Next]_vars => GreenInv'
<1> SUFFICES ASSUME IInv, [Next]_vars, ~failed' PROVE GreenInv'
  BY DEF GreenInv
<1>0. /\ LoopInv
      /\ shape \in Shapes /\ Len(ShapeOrder) \in Nat /\ 1 \in 1..Len(ShapeOrder)
      /\ \A i \in 1..Len(ShapeOrder) : ShapeOrder[i] \in Shapes
  BY ShapeIsShape, ShapeOrderAssumption DEF IInv, Shapes
<1> USE DEF evidence, lab, loop, ends
\* Steps that leave the loop and the verdicts alone.
<1>1. ASSUME UNCHANGED <<at, todo, rows>>, ~failed, pc' \notin {"abort", "abort_all"},
             pc' \in {"remaining", "run", "write"} => pc \in {"remaining", "run", "write"} \/ at = 1,
             pc' \in {"run", "write"} => pc \in {"run", "write"},
             pc' \in EndCommands => pc \in EndCommands
      PROVE  GreenInv'
  <2>1. \A sh : Done(sh)' = Done(sh) /\ (Full(sh)' <=> Full(sh)) /\ shape' = shape
    BY <1>1 DEF Done, Full, shape
  <2> HIDE DEF Done, Full, shape
  <2> QED
    BY <1>1, <2>1, <1>0 DEF IInv, GreenInv
\* The loop goes on behind a shape that is measured.
<1>2. ASSUME NextShape, rows' = rows, ~failed, Full(shape),
             \A i \in 1..(at - 1) : Full(ShapeOrder[i])
      PROVE  GreenInv'
  <2>1. \A sh : Full(sh)' <=> Full(sh)
    BY <1>2 DEF Done, Full
  <2>2. \A i \in 1..at : Full(ShapeOrder[i])
    BY <1>2, <1>0 DEF shape, LoopInv
  <2>3. CASE at < Len(ShapeOrder)
    <3>1. at' = at + 1 /\ pc' = "remaining"
      BY <1>2, <2>3 DEF NextShape
    <3> QED
      BY <3>1, <2>1, <2>2, <1>0 DEF GreenInv, LoopInv, EndCommands
  <2>4. CASE ~(at < Len(ShapeOrder))
    <3>1. at' = at /\ pc' = "stop_cell" /\ at = Len(ShapeOrder)
      BY <1>2, <2>4, <1>0 DEF NextShape, LoopInv
    <3> QED
      BY <3>1, <2>1, <2>2, <1>0 DEF GreenInv, LoopInv, EndCommands
  <2> QED
    BY <2>3, <2>4
<1>3. CASE Start
  BY <1>3 DEF Start, GreenInv, EndCommands
<1>4. CASE UpCell \/ UpCellFails \/ ChooseSlot
  BY <1>4 DEF UpCell, UpCellFails, ChooseSlot, GreenInv, EndCommands
<1>5. CASE StartCell \/ StartServer \/ ProbeRelay
  <2>1. at = 1 /\ at' = 1 /\ pc' \in {"start_server", "probe", "remaining", "stop_cell"}
    BY <1>5, <1>0 DEF StartCell, StartServer, ProbeRelay, StartCapture, LoopInv
  <2>2. pc' # "stop_cell"
    BY <1>5 DEF StartCell, StartServer, ProbeRelay, StartCapture
  <2> QED
    BY <2>1, <2>2 DEF GreenInv, EndCommands
<1>6. CASE AbortAllShapes \/ AbortShape
  BY <1>6 DEF AbortAllShapes, AbortShape, NextShape, IInv, GreenInv, EndCommands
<1>7. CASE AskRemaining
  <2>1. ~failed /\ rows' = rows /\ (\A i \in 1..(at - 1) : Full(ShapeOrder[i]))
        /\ todo' = RemainingOf(shape)
    BY <1>7 DEF AskRemaining, Listed, IInv, GreenInv
  <2>2. CASE todo' = {}
    <3>1. Full(shape)
      BY <2>1, <2>2 DEF RemainingOf, Full, Done
    <3>2. NextShape
      BY <1>7, <2>2 DEF AskRemaining
    <3> QED
      BY <2>1, <3>1, <3>2, <1>2
  <2>3. CASE todo' # {}
    <3>1. pc' = "run" /\ at' = at
      BY <1>7, <2>3 DEF AskRemaining
    <3>2. (Done(shape) \cup todo)' = Scenarios
      BY <2>1, <3>1 DEF RemainingOf, Done, shape
    <3>3. \A i \in 1..(at - 1) : Full(ShapeOrder[i])'
      BY <2>1 DEF Full, Done
    <3> QED
      BY <3>1, <3>2, <3>3 DEF GreenInv, EndCommands
  <2> QED
    BY <2>2, <2>3
<1>8. CASE RunBody \/ FindPoolShort
  BY <1>8, <1>1 DEF RunBody, FindPoolShort, EndCommands
<1>9. CASE WriteVerdict
  <2>1. /\ ~failed /\ UNCHANGED at /\ shape' = shape /\ pc' = "run"
        /\ todo' = todo \ {Min(todo)}
        /\ Done(shape) \cup todo = Scenarios
        /\ \A i \in 1..(at - 1) : Full(ShapeOrder[i])
    BY <1>9 DEF WriteVerdict, shape, IInv, GreenInv
  <2> HIDE DEF shape, Min
  <2>2. (Done(shape) \cup todo)' = Scenarios
    BY <2>1, <1>9, <1>0, WriteAddsOne
  <2>3. \A sh \in Shapes : Full(sh) => Full(sh)'
    <3>1. \A sh \in Shapes : Done(sh) \subseteq Done(sh)' /\ Done(sh)' \subseteq Scenarios
      BY <1>9, <1>0, WriteAddsOne DEF Done
    <3> QED
      BY <3>1 DEF Full
  <2>4. \A i \in 1..(at - 1) : Full(ShapeOrder[i])'
    <3> HIDE DEF Full
    <3> QED
      BY <2>1, <2>3, <1>0 DEF LoopInv
  <2> QED
    BY <2>1, <2>2, <2>4 DEF GreenInv, EndCommands
<1>10. CASE WriteCut \/ LabctlFails
  BY <1>10 DEF WriteCut, LabctlFails
<1>11. CASE LabctlEnds
  <2>1. ~failed /\ rows' = rows /\ NextShape /\ pc = "run" /\ todo = {}
    BY <1>11, <1>0 DEF LabctlEnds, LoopInv
  <2>2. Full(shape) /\ \A i \in 1..(at - 1) : Full(ShapeOrder[i])
    BY <2>1 DEF IInv, GreenInv, Full
  <2> QED
    BY <2>1, <2>2, <1>2
<1>12. CASE StopCell \/ StopServer
  BY <1>12, <1>1 DEF StopCell, StopServer, StopCapture, EndCommands
<1>13. CASE CopyCell \/ CopyServer
  BY <1>13, <1>1 DEF CopyCell, CopyServer, CopyOut, AfterCaptures, EndCommands
<1>14. CASE Regenerate \/ TearDown
  <2>1. UNCHANGED <<at, todo, rows, failed>> /\ pc \in {"regenerate", "down"}
    BY <1>14 DEF Regenerate, TearDown
  <2>2. pc' \in {"down", "dead", "ended"}
    BY <1>14 DEF Regenerate, TearDown, DownCell, DownCellRefuses
  <2> QED
    BY <2>1, <2>2, <1>1 DEF EndCommands
<1>15. CASE DiesUnderSetE \/ DiesAtRemaining \/ Kill
  BY <1>15, <1>1 DEF DiesUnderSetE, DiesAtRemaining, Kill, EndCommands
<1>16. CASE Reap \/ ReapGreen
  BY <1>16 DEF Reap, ReapGreen, DownCell, DownCellRefuses, GreenInv, EndCommands
<1>17. CASE MoveAside
  BY <1>17 DEF MoveAside, GreenInv, EndCommands
<1>18. CASE UNCHANGED vars
  <2>1. UNCHANGED <<pc, at, todo, rows, failed>>
    BY <1>18 DEF vars
  <2> QED
    BY <2>1, <1>0 DEF IInv, GreenInv, Full, Done, shape
<1> QED
  BY <1>3, <1>4, <1>5, <1>6, <1>7, <1>8, <1>9, <1>10, <1>11, <1>12, <1>13, <1>14, <1>15, <1>16,
     <1>17, <1>18 DEF Next

THEOREM CellInvariant == Spec => []IInv
<1>1. Init => IInv
  BY LoopInit DEF IInv, GreenInv, Init, EndCommands
<1>2. IInv /\ [Next]_vars => IInv'
  BY LoopStep, GreenStep DEF IInv
<1> QED
  BY <1>1, <1>2, PTL DEF Spec

\* A pass that exits 0 has a measured verdict for every scenario of every shape.
THEOREM GreenIsCompleteHolds == Spec => []GreenIsComplete
<1>1. IInv => GreenIsComplete
  <2> SUFFICES ASSUME IInv, pc = "ended", ~failed, NEW q \in Questions
               PROVE  rows[q[1]][q[2]] = "measured"
    BY DEF GreenIsComplete, Answered
  <2>1. PICK i \in 1..Len(ShapeOrder) : q[1] = ShapeOrder[i]
    BY ShapeOrderAssumption DEF Questions, Shapes
  <2>2. Done(q[1]) = Scenarios /\ q[2] \in Scenarios
    BY <2>1 DEF IInv, GreenInv, EndCommands, Full, Questions
  <2> QED
    BY <2>2 DEF Done
<1> QED
  BY <1>1, CellInvariant, PTL

-----------------------------------------------------------------------------
(* The verdicts of a cell implement VerdictStore: a pass is the store        *)
(* running, the measured rows are its answers.                               *)

LEMMA SameAnswers ==
    ASSUME LoopInv, \A sh \in Shapes : Done(sh)' = Done(sh)
    PROVE  Answered' = Answered
<1>1. \A q \in Questions : q[1] \in Shapes /\ q[2] \in Scenarios
  BY DEF Questions
<1>2. Questions' = Questions
  BY DEF Questions, Shapes, Scenarios
<1>3. \A q \in Questions : rows'[q[1]][q[2]] = "measured" <=> rows[q[1]][q[2]] = "measured"
  BY <1>1 DEF Done
<1> QED
  BY <1>2, <1>3 DEF Answered

LEMMA StoreInit == Init => Store!Init
<1> SUFFICES ASSUME Init PROVE Answered = {} /\ (pc # "idle") = FALSE
  BY DEF Store!Init
<1> QED
  BY DEF Init, Answered, Questions

LEMMA StoreStep ==
    LoopInv /\ [Next]_vars => [Store!Next]_<<Answered, pc # "idle">>
<1> SUFFICES ASSUME LoopInv, [Next]_vars PROVE [Store!Next]_<<Answered, pc # "idle">>
  OBVIOUS
<1>0. shape \in Shapes
  BY ShapeIsShape
<1> USE DEF evidence, lab, loop, ends
<1>1. ASSUME rows' = rows PROVE Answered' = Answered
  BY <1>1, SameAnswers DEF Done
<1>2. ASSUME Answered' = Answered PROVE [Store!Next]_<<Answered, pc # "idle">>
  <2>1. CASE (pc' # "idle") = (pc # "idle")
    BY <1>2, <2>1
  <2>2. CASE pc = "idle" /\ pc' # "idle"
    BY <1>2, <2>2 DEF Store!Next, Store!Begin
  <2>3. CASE pc # "idle" /\ pc' = "idle"
    BY <1>2, <2>3 DEF Store!Next, Store!End
  <2> QED
    BY <2>1, <2>2, <2>3
<1>3. CASE AbortAllShapes \/ AbortShape
  <2>1. Answered' = Answered
    BY <1>3, <1>0, AbortKeepsVerdicts, SameAnswers DEF AbortAllShapes, AbortShape
  <2> QED
    BY <2>1, <1>2
<1>4. CASE WriteCut
  <2>1. todo \subseteq Nat /\ todo # {} /\ todo \cap Done(shape) = {}
    BY <1>4, CountsAssumption DEF WriteCut, LoopInv, Scenarios
  <2>2. Min(todo) \in todo
    BY <2>1, MinIsMember
  <2>3. PICK m : m = Min(todo)
    OBVIOUS
  <2>4. m \in Scenarios /\ rows[shape][m] # "measured" /\ rows' = [rows EXCEPT ![shape][m] = "torn"]
    BY <2>1, <2>2, <2>3, <1>4 DEF WriteCut, LoopInv, Done
  <2> HIDE DEF shape
  <2>5. \A sh \in Shapes : Done(sh)' = Done(sh)
    BY <2>4, <1>0 DEF LoopInv, Done
  <2> QED
    BY <2>5, SameAnswers, <1>2
<1>5. CASE WriteVerdict
  <2> DEFINE q == <<shape, Min(todo)>>
  <2>1. pc # "idle" /\ pc' # "idle" /\ todo \cap Done(shape) = {}
    BY <1>5 DEF WriteVerdict, LoopInv
  <2> HIDE DEF shape, Min
  <2>2. q \in Questions \ Answered
    BY <1>5, <1>0, <2>1, WriteAddsOne DEF LoopInv, Questions, Answered, Done
  <2>3. \A p \in Questions : p \in Answered' <=> p \in Answered \/ p = q
    <3> SUFFICES ASSUME NEW p \in Questions PROVE p \in Answered' <=> p \in Answered \/ p = q
      OBVIOUS
    <3>1. p[1] \in Shapes /\ p[2] \in Scenarios /\ p = <<p[1], p[2]>> /\ Questions' = Questions
      BY DEF Questions, Shapes, Scenarios
    <3>2. p \in Answered' <=> p[2] \in Done(p[1])'
      BY <3>1 DEF Answered, Done
    <3>3. p \in Answered <=> p[2] \in Done(p[1])
      BY <3>1 DEF Answered, Done
    <3>4. p[2] \in Done(p[1])' <=> p[2] \in Done(p[1]) \/ (p[1] = shape /\ p[2] = Min(todo))
      <4>1. CASE p[1] = shape
        <5>1. Done(p[1])' = Done(shape) \cup {Min(todo)}
          BY <4>1, <1>5, <1>0, <3>1, WriteAddsOne DEF WriteVerdict, shape
        <5> QED
          BY <4>1, <5>1
      <4>2. CASE p[1] # shape
        BY <4>2, <1>5, <3>1, WriteAddsOne
      <4> QED
        BY <4>1, <4>2
    <3> QED
      BY <3>1, <3>2, <3>3, <3>4
  <2>4. Answered \subseteq Questions /\ Answered' \subseteq Questions
    BY DEF Answered, Questions, Shapes, Scenarios
  <2>5. Answered' = Answered \cup {q}
    BY <2>2, <2>3, <2>4
  <2> QED
    BY <2>1, <2>2, <2>5 DEF Store!Next, Store!Answer
<1>6. CASE MoveAside
  <2>1. pc = "idle" /\ pc' = "idle"
    BY <1>6 DEF MoveAside
  <2>2. Answered' \subseteq Answered
    BY <1>6 DEF MoveAside, LoopInv, Answered, Questions, Done, Shapes, Scenarios
  <2>3. \E gone \in SUBSET Answered : Answered' = Answered \ gone
    <3>1. Answered' = Answered \ (Answered \ Answered')
      BY <2>2
    <3> QED
      BY <3>1
  <2> QED
    BY <2>1, <2>3 DEF Store!Next, Store!Aside
<1>7. CASE UNCHANGED vars
  BY <1>7, <1>1, <1>2 DEF vars
<1>8. ASSUME rows' = rows PROVE [Store!Next]_<<Answered, pc # "idle">>
  BY <1>8, <1>1, <1>2
<1>9. CASE Start \/ UpCell \/ UpCellFails \/ ChooseSlot \/ StartCell \/ StartServer \/ ProbeRelay
  BY <1>9, <1>8 DEF Start, UpCell, UpCellFails, ChooseSlot, StartCell, StartServer, StartCapture, ProbeRelay
<1>10. CASE AskRemaining \/ RunBody \/ FindPoolShort \/ LabctlFails \/ LabctlEnds
  BY <1>10, <1>8 DEF AskRemaining, RunBody, FindPoolShort, LabctlFails, LabctlEnds
<1>11. CASE StopCell \/ CopyCell \/ StopServer \/ CopyServer \/ Regenerate \/ TearDown
  BY <1>11, <1>8 DEF StopCell, CopyCell, StopServer, CopyServer, StopCapture, CopyOut, Regenerate, TearDown
<1>12. CASE DiesUnderSetE \/ DiesAtRemaining \/ Kill \/ Reap \/ ReapGreen
  BY <1>12, <1>8 DEF DiesUnderSetE, DiesAtRemaining, Kill, Reap, ReapGreen
<1> QED
  BY <1>3, <1>4, <1>5, <1>6, <1>7, <1>9, <1>10, <1>11, <1>12 DEF Next

\* However often a cell is resumed, aborted or killed, its verdicts are an
\* answer store: given once, and withdrawn only between two passes.
THEOREM AnsweredOnceHolds == Spec => AnsweredOnce
<1>1. Spec => []LoopInv
  <2>1. IInv => LoopInv
    BY DEF IInv
  <2> QED
    BY <2>1, CellInvariant, PTL
<1> QED
  BY <1>1, StoreInit, StoreStep, PTL DEF Spec, AnsweredOnce, Store!Spec

-----------------------------------------------------------------------------
(* What a cell's evidence says of its captures: one that left its observer   *)
(* is never lost or written over, the check a verdict names is judged only   *)
(* by the capture of its own exchange, a decided check stays decided, and a  *)
(* pass that ends answers for every scenario.                                *)

(* None of the properties is inductive.  PassInv: a pass in hand has its     *)
(* number.  SlotInv: no capture stands beyond the passes there were, so the  *)
(* name ChooseSlot finds is free, and it stays free until CopyCell.  WorkInv *)
(* says where in a pass a capture may lie in the work directory: Start finds *)
(* none, because down-cell.sh leaves one only with its VMs.  ChecksInv: a    *)
(* file is about a pass, is heard in that pass or a later one, and is judged *)
(* in none before it, so that a file the present pass wrote is one it heard; *)
(* a scenario whose verdict names its check does not run again, and so is    *)
(* not heard again.  FilledInv: the shapes the loop has left are answered    *)
(* for.                                                                      *)

PassInv ==
    /\ pass \in 0..MaxPasses
    /\ pc # "idle" => pass > 0
    /\ probeFailed => failed

BeforeSlot == {"up", "abort_all", "config"}
LoopCommands == {"remaining", "run", "write", "abort"}
Observed == {"start_cell", "start_server", "probe", "stop_cell"} \cup LoopCommands

SlotInv ==
    /\ slot \in Passes
    /\ pcaps \in [Legs -> [Passes -> 0..MaxPasses]]
    /\ \A k \in Passes : k > pass => FreeSlot(k)
    /\ pc \in BeforeSlot => \A k \in Passes : k >= pass => FreeSlot(k)
    /\ pc \in Observed \cup {"cp_cell"} => FreeSlot(slot) /\ slot =< pass

NoWork == \A leg \in Legs : ~work[leg]

WorkInv ==
    /\ work \in [Legs -> BOOLEAN]
    /\ vms \in BOOLEAN
    /\ pc \in BeforeSlot \cup Observed => NoWork
    /\ pc \in {"cp_cell", "stop_server"} => \A leg \in Legs \ {"cell"} : ~work[leg]
    /\ pc = "idle" /\ ~vms => NoWork
    /\ pc = "ended" /\ ~failed => NoWork

FileInv(check) ==
    /\ check.by =< check.heard
    /\ check.heard =< pass
    /\ check.says \in {"clean", "disagreement"} => check.by =< check.judged /\ check.judged =< pass

\* What a verdict that is written as row and names the check of pass own needs.
CiteInv(row, own, check) ==
    own # 0 => /\ row = "measured"
               /\ check.by = own
               /\ check.heard = own
               /\ check.says \in {"clean", "disagreement"} => check.judged = own

ChecksInv ==
    /\ checks \in [Shapes -> [Scenarios -> CheckStates]]
    /\ cited \in [Shapes -> [Scenarios -> 0..MaxPasses]]
    /\ \A sh \in Shapes : \A sc \in Scenarios :
          FileInv(checks[sh][sc]) /\ CiteInv(rows[sh][sc], cited[sh][sc], checks[sh][sc])

Filled(sh) == sh \in told \/ \A sc \in Scenarios : rows[sh][sc] \in {"abort", "measured"}

FilledInv ==
    /\ pc \in {"run", "write"} => Done(shape) \cup todo = Scenarios
    /\ pc \in LoopCommands \cup {"abort_all"} =>
          \A i \in 1..(at - 1) : Filled(ShapeOrder[i]) \/ ShapeOrder[i] = shape
    /\ pc = "remaining" => \A i \in 1..(at - 1) : Filled(ShapeOrder[i])
    /\ pc \in EndCommands /\ ~short /\ ~probeFailed =>
          \A i \in 1..Len(ShapeOrder) : Filled(ShapeOrder[i])

Remains ==
    /\ told \subseteq Shapes
    /\ moved \subseteq Legs \X Passes
    /\ observing \in [Legs -> BOOLEAN]
    /\ probeFailed \in BOOLEAN

CaptureInv == IInv /\ PassInv /\ SlotInv /\ WorkInv /\ ChecksInv /\ FilledInv /\ Remains

-----------------------------------------------------------------------------
\* The legs a cell has, and the numbers of its passes.
LEMMA LegFacts == "cell" \in Legs /\ (Relay => "server" \in Legs) /\ 1 \in Passes
                  /\ Passes \subseteq Nat /\ MaxPasses \in Nat
  BY CountsAssumption DEF Legs, Passes

LEMMA CaptureInit == Init => CaptureInv
<1> SUFFICES ASSUME Init PROVE CaptureInv
  OBVIOUS
<1>1. IInv
  BY LoopInit DEF IInv, GreenInv, Init, EndCommands
<1>2. PassInv
  BY CountsAssumption DEF Init, PassInv
<1>3. SlotInv
  <2>1. pcaps \in [Legs -> [Passes -> 0..MaxPasses]]
    BY CountsAssumption DEF Init
  <2>2. \A k \in Passes : FreeSlot(k)
    BY LegFacts DEF Init, FreeSlot
  <2> QED
    BY <2>1, <2>2, LegFacts DEF Init, SlotInv, BeforeSlot, Observed, LoopCommands
<1>4. WorkInv
  BY DEF Init, WorkInv, NoWork, BeforeSlot, Observed, LoopCommands
<1>5. ChecksInv
  BY CountsAssumption DEF Init, ChecksInv, FileInv, CiteInv, CheckStates, NoCheck
<1>6. FilledInv
  BY DEF Init, FilledInv, LoopCommands, EndCommands
<1>7. Remains
  BY DEF Init, Remains
<1> QED
  BY <1>1, <1>2, <1>3, <1>4, <1>5, <1>6, <1>7 DEF CaptureInv

LEMMA PassStepKeeps == IInv /\ PassInv /\ [Next]_vars => PassInv'
<1> SUFFICES ASSUME IInv, PassInv, [Next]_vars PROVE PassInv'
  OBVIOUS
<1> USE DEF evidence, lab, loop, ends, PassInv
<1>1. failed \in BOOLEAN
  BY DEF IInv, LoopInv
<1>2. CASE Start
  BY <1>2, CountsAssumption DEF Start
<1>3. CASE UpCell \/ UpCellFails \/ AbortAllShapes \/ ChooseSlot \/ StartCell \/ StartServer
  BY <1>3 DEF UpCell, UpCellFails, AbortAllShapes, ChooseSlot, StartCell, StartServer, StartCapture
<1>4. CASE ProbeRelay \/ AskRemaining \/ RunBody \/ FindPoolShort \/ WriteVerdict \/ WriteCut
  BY <1>4 DEF ProbeRelay, AskRemaining, RunBody, FindPoolShort, WriteVerdict, WriteCut, NextShape
<1>5. CASE LabctlFails \/ LabctlEnds \/ AbortShape
  BY <1>5, <1>1 DEF LabctlFails, LabctlEnds, AbortShape, NextShape
<1>6. CASE StopCell \/ CopyCell \/ StopServer \/ CopyServer \/ Regenerate \/ TearDown
  <2>1. pass' = pass /\ probeFailed' = probeFailed /\ failed' = failed /\ pc # "idle"
    BY <1>6 DEF StopCell, CopyCell, StopServer, CopyServer, StopCapture, CopyOut, Regenerate, TearDown
  <2> QED
    BY <2>1
<1>7. CASE DiesUnderSetE \/ DiesAtRemaining \/ Kill \/ Reap \/ ReapGreen \/ MoveAside
  BY <1>7 DEF DiesUnderSetE, DiesAtRemaining, Kill, Reap, ReapGreen, MoveAside, DownCell,
              DownCellRefuses
<1>8. CASE UNCHANGED vars
  BY <1>8 DEF vars
<1> QED
  BY <1>2, <1>3, <1>4, <1>5, <1>6, <1>7, <1>8 DEF Next

\* The slot of a pass is the least free one, and the pass's own number is free.
LEMMA SlotFound ==
    ASSUME PassInv, SlotInv, ChooseSlot
    PROVE  slot' \in Passes /\ FreeSlot(slot') /\ slot' =< pass
<1> DEFINE free == {k \in Passes : FreeSlot(k)}
<1>1. pc = "config" /\ slot' = Min(free)
  BY DEF ChooseSlot
<1>2. pass \in free
  BY <1>1, CountsAssumption DEF PassInv, SlotInv, BeforeSlot, Passes
<1>3. free \subseteq Nat
  BY LegFacts
<1> HIDE DEF free
<1>4. Min(free) \in free /\ Min(free) =< pass
  BY <1>2, <1>3, MinIsMember
<1> QED
  BY <1>1, <1>4 DEF free

LEMMA SlotStep == PassInv /\ SlotInv /\ [Next]_vars => SlotInv'
<1> SUFFICES ASSUME PassInv, SlotInv, [Next]_vars PROVE SlotInv'
  OBVIOUS
<1> USE DEF evidence, lab, loop, ends
\* Steps that touch neither the captures nor the slot of the pass.
<1>1. ASSUME UNCHANGED <<pass, slot, pcaps>>,
             pc' \in BeforeSlot => pc \in BeforeSlot,
             pc' \in Observed \cup {"cp_cell"} => pc \in Observed
      PROVE  SlotInv'
  <2>1. \A k : FreeSlot(k)' = FreeSlot(k)
    BY <1>1 DEF FreeSlot
  <2> QED
    BY <1>1, <2>1 DEF SlotInv, FreeSlot
<1> USE DEF BeforeSlot, Observed, LoopCommands
<1>2. CASE Start
  <2>1. pass' = pass + 1 /\ pc' = "up" /\ slot' = slot /\ pcaps' = pcaps
    BY <1>2 DEF Start
  <2>2. \A k \in Passes : k >= pass' => k > pass
    BY <2>1, CountsAssumption DEF PassInv, Passes
  <2>3. \A k \in Passes : k > pass' => k > pass
    BY <2>1, CountsAssumption DEF PassInv, Passes
  <2>4. \A k : FreeSlot(k)' = FreeSlot(k)
    BY <2>1 DEF FreeSlot
  <2> QED
    BY <2>1, <2>2, <2>3, <2>4 DEF SlotInv, FreeSlot
<1>3. CASE UpCell \/ UpCellFails \/ AbortAllShapes
  BY <1>3, <1>1 DEF UpCell, UpCellFails, AbortAllShapes
<1>4. CASE ChooseSlot
  <2>1. slot' \in Passes /\ FreeSlot(slot') /\ slot' =< pass
    BY <1>4, SlotFound
  <2>2. pass' = pass /\ pcaps' = pcaps /\ pc' = "start_cell"
    BY <1>4 DEF ChooseSlot
  <2> QED
    BY <2>1, <2>2 DEF SlotInv, FreeSlot
<1>5. CASE StartCell \/ StartServer \/ ProbeRelay
  BY <1>5, <1>1 DEF StartCell, StartServer, StartCapture, ProbeRelay
<1>6. CASE AskRemaining \/ RunBody \/ FindPoolShort \/ WriteVerdict \/ WriteCut
  BY <1>6, <1>1 DEF AskRemaining, RunBody, FindPoolShort, WriteVerdict, WriteCut, NextShape
<1>7. CASE LabctlFails \/ LabctlEnds \/ AbortShape
  BY <1>7, <1>1 DEF LabctlFails, LabctlEnds, AbortShape, NextShape
<1>8. CASE StopCell \/ StopServer
  BY <1>8, <1>1 DEF StopCell, StopServer, StopCapture
<1>9. CASE CopyCell
  <2>1. pc = "cp_cell" /\ pass' = pass /\ slot' = slot /\ pc' \notin BeforeSlot \cup Observed \cup {"cp_cell"}
    BY <1>9 DEF CopyCell, CopyOut, AfterCaptures
  <2>2. CASE pcaps' = pcaps
    BY <2>1, <2>2 DEF SlotInv, FreeSlot
  <2>3. CASE pcaps' = [pcaps EXCEPT !["cell"][slot] = pass]
    <3>1. pcaps' \in [Legs -> [Passes -> 0..MaxPasses]]
      BY <2>3, LegFacts DEF SlotInv, PassInv
    <3>2. \A k \in Passes : k > pass => k # slot
      BY <2>1, LegFacts DEF SlotInv, PassInv
    <3>3. \A k \in Passes : k # slot => pcaps'["cell"][k] = pcaps["cell"][k]
      BY <2>3, LegFacts DEF SlotInv
    <3> QED
      BY <2>1, <3>1, <3>2, <3>3 DEF SlotInv, FreeSlot
  <2> QED
    BY <1>9, <2>2, <2>3 DEF CopyCell, CopyOut
<1>10. CASE CopyServer
  <2>1. pass' = pass /\ slot' = slot /\ pc' \notin BeforeSlot \cup Observed \cup {"cp_cell"}
    BY <1>10 DEF CopyServer, CopyOut, AfterCaptures
  <2>2. pcaps' \in [Legs -> [Passes -> 0..MaxPasses]] /\ pcaps'["cell"] = pcaps["cell"]
    BY <1>10, LegFacts DEF CopyServer, CopyOut, SlotInv, PassInv
  <2> QED
    BY <2>1, <2>2 DEF SlotInv, FreeSlot
<1>11. CASE Regenerate \/ TearDown
  <2>1. UNCHANGED <<pass, slot, pcaps>>
    BY <1>11 DEF Regenerate, TearDown
  <2>2. pc' \in {"down", "dead", "ended"}
    BY <1>11 DEF Regenerate, TearDown, DownCell, DownCellRefuses
  <2> QED
    BY <2>1, <2>2, <1>1
<1>12. CASE DiesUnderSetE \/ DiesAtRemaining \/ Kill
  BY <1>12, <1>1 DEF DiesUnderSetE, DiesAtRemaining, Kill
<1>13. CASE Reap \/ ReapGreen \/ MoveAside
  BY <1>13, <1>1 DEF Reap, ReapGreen, MoveAside, DownCell, DownCellRefuses
<1>14. CASE UNCHANGED vars
  BY <1>14 DEF vars, SlotInv, FreeSlot
<1> QED
  BY <1>2, <1>3, <1>4, <1>5, <1>6, <1>7, <1>8, <1>9, <1>10, <1>11, <1>12, <1>13, <1>14 DEF Next

LEMMA WorkStep == IInv /\ PassInv /\ WorkInv /\ [Next]_vars => WorkInv'
<1> SUFFICES ASSUME IInv, PassInv, WorkInv, [Next]_vars PROVE WorkInv'
  OBVIOUS
<1> USE DEF evidence, lab, loop, ends, WorkInv, NoWork, BeforeSlot, Observed, LoopCommands
<1>1. failed \in BOOLEAN /\ (pc = "abort_all" => failed)
  BY DEF IInv, LoopInv, GreenInv
<1>2. CASE Start \/ UpCell \/ UpCellFails \/ ChooseSlot
  BY <1>2 DEF Start, UpCell, UpCellFails, ChooseSlot
<1>3. CASE AbortAllShapes \/ AbortShape
  BY <1>3, <1>1 DEF AbortAllShapes, AbortShape, NextShape
<1>4. CASE StartCell \/ StartServer
  BY <1>4, LegFacts DEF StartCell, StartServer, StartCapture
<1>5. CASE ProbeRelay \/ AskRemaining \/ RunBody \/ FindPoolShort \/ WriteVerdict \/ WriteCut
  BY <1>5 DEF ProbeRelay, AskRemaining, RunBody, FindPoolShort, WriteVerdict, WriteCut, NextShape
<1>6. CASE LabctlFails \/ LabctlEnds
  BY <1>6 DEF LabctlFails, LabctlEnds, NextShape
<1>7. CASE StopCell
  BY <1>7, LegFacts DEF StopCell, StopCapture
<1>8. CASE StopServer
  BY <1>8, LegFacts DEF StopServer, StopCapture
<1>9. CASE CopyCell \/ CopyServer
  BY <1>9 DEF CopyCell, CopyServer, CopyOut, AfterCaptures
<1>10. CASE Regenerate \/ TearDown
  BY <1>10 DEF Regenerate, TearDown, DownCell, DownCellRefuses, PassInv
<1>11. CASE DiesUnderSetE \/ DiesAtRemaining \/ Kill
  BY <1>11 DEF DiesUnderSetE, DiesAtRemaining, Kill
<1>12. CASE Reap \/ ReapGreen \/ MoveAside
  BY <1>12 DEF Reap, ReapGreen, MoveAside, DownCell, DownCellRefuses
<1>13. CASE UNCHANGED vars
  BY <1>13 DEF vars
<1> QED
  BY <1>2, <1>3, <1>4, <1>5, <1>6, <1>7, <1>8, <1>9, <1>10, <1>11, <1>12, <1>13 DEF Next

-----------------------------------------------------------------------------
LEMMA LeastIsScenario ==
    ASSUME LoopInv, todo # {}
    PROVE  Min(todo) \in todo /\ Min(todo) \in Scenarios
<1>1. todo \subseteq Nat /\ todo \subseteq Scenarios
  BY CountsAssumption DEF LoopInv, Scenarios
<1> QED
  BY <1>1, MinIsMember

\* What a deferred file may say after it was judged.
LEMMA JudgedFile ==
    ASSUME PassInv, pc # "idle", NEW check \in CheckStates, FileInv(check),
           NEW word \in Judgements(check)
    PROVE  LET judged == [check EXCEPT !.says = word, !.judged = pass]
           IN  /\ judged \in CheckStates
               /\ FileInv(judged)
               /\ \A row : \A own \in 0..MaxPasses :
                     CiteInv(row, own, check) => CiteInv(row, own, judged)
<1>1. word \in {"unreadable", "clean", "disagreement", "postdates"}
      /\ (word \in {"clean", "disagreement"} => check.heard = pass)
  BY DEF Judgements
<1>2. pass \in 0..MaxPasses /\ MaxPasses \in Nat
  BY CountsAssumption DEF PassInv
<1>3. check.by \in 0..MaxPasses /\ check.heard \in 0..MaxPasses
  BY DEF CheckStates
<1> DEFINE judged == [check EXCEPT !.says = word, !.judged = pass]
<1>4. judged \in CheckStates
  BY <1>1, <1>2 DEF CheckStates
<1>5. judged.says = word /\ judged.judged = pass /\ judged.by = check.by /\ judged.heard = check.heard
  BY DEF CheckStates
<1> HIDE DEF judged
<1>6. FileInv(judged)
  BY <1>2, <1>3, <1>5 DEF FileInv
<1>7. \A row : \A own \in 0..MaxPasses : CiteInv(row, own, check) => CiteInv(row, own, judged)
  BY <1>1, <1>5 DEF CiteInv
<1> QED
  BY <1>4, <1>6, <1>7 DEF judged

\* A file corroborate leaves, or one whose MAC is heard again, is heard in this
\* pass.
LEMMA HeardFile ==
    ASSUME PassInv, pc # "idle", NEW check \in CheckStates, FileInv(check)
    PROVE  /\ LET file == [says |-> "deferred", by |-> pass, heard |-> pass, judged |-> 0]
              IN  file \in CheckStates /\ FileInv(file)
           /\ LET file == [check EXCEPT !.heard = pass]
              IN  file \in CheckStates /\ FileInv(file)
<1>1. pass \in 0..MaxPasses /\ MaxPasses \in Nat
  BY CountsAssumption DEF PassInv
<1>2. check.by \in 0..MaxPasses /\ check.heard \in 0..MaxPasses /\ check.judged \in 0..MaxPasses
  BY DEF CheckStates
<1>3. [says |-> "deferred", by |-> pass, heard |-> pass, judged |-> 0] \in CheckStates
  BY <1>1 DEF CheckStates
<1>4. FileInv([says |-> "deferred", by |-> pass, heard |-> pass, judged |-> 0])
  BY <1>1 DEF FileInv
<1> DEFINE file == [check EXCEPT !.heard = pass]
<1>5. file \in CheckStates /\ file.says = check.says /\ file.by = check.by /\ file.heard = pass
      /\ file.judged = check.judged
  BY <1>1 DEF CheckStates
<1> HIDE DEF file
<1>6. FileInv(file)
  BY <1>1, <1>2, <1>5 DEF FileInv
<1> QED
  BY <1>3, <1>4, <1>5, <1>6 DEF file

\* A file the present pass wrote was heard, and if at all judged, in it.
LEMMA OwnFile ==
    ASSUME PassInv, pc # "idle", NEW check \in CheckStates, FileInv(check)
    PROVE  LET own == IF check.by = pass THEN pass ELSE 0
           IN  own \in 0..MaxPasses /\ CiteInv("measured", own, check)
<1>1. pass \in 0..MaxPasses /\ MaxPasses \in Nat
  BY CountsAssumption DEF PassInv
<1>2. check.by \in 0..MaxPasses /\ check.heard \in 0..MaxPasses /\ check.judged \in 0..MaxPasses
  BY DEF CheckStates
<1> QED
  BY <1>1, <1>2 DEF FileInv, CiteInv

LEMMA ChecksStep == IInv /\ PassInv /\ ChecksInv /\ [Next]_vars => ChecksInv'
<1> SUFFICES ASSUME IInv, PassInv, ChecksInv, [Next]_vars PROVE ChecksInv'
  OBVIOUS
<1> USE DEF evidence, lab, loop, ends
<1>0. LoopInv /\ shape \in Shapes /\ rows \in [Shapes -> [Scenarios -> RowStates]]
  BY ShapeIsShape DEF IInv, LoopInv
<1>1. ASSUME checks' = checks, cited' = cited, pass' = pass, \A sh \in Shapes : Done(sh)' = Done(sh)
      PROVE  ChecksInv'
  <2>1. \A sh \in Shapes : \A sc \in Scenarios : rows'[sh][sc] = "measured" <=> rows[sh][sc] = "measured"
    BY <1>1 DEF Done
  <2> QED
    BY <1>1, <2>1 DEF ChecksInv, FileInv, CiteInv
<1>2. ASSUME checks' = checks, cited' = cited, pass' = pass, rows' = rows
      PROVE  ChecksInv'
  BY <1>2 DEF ChecksInv, FileInv, CiteInv
\* One file is written, of a scenario that has no verdict.
<1>3. ASSUME NEW m \in Scenarios, m \notin Done(shape), NEW file \in CheckStates, FileInv(file),
             checks' = [checks EXCEPT ![shape][m] = file], UNCHANGED <<rows, cited, pass>>
      PROVE  ChecksInv'
  <2> HIDE DEF shape
  <2>1. \A sh \in Shapes : \A sc \in Scenarios :
           checks'[sh][sc] = IF sh = shape /\ sc = m THEN file ELSE checks[sh][sc]
    BY <1>3, <1>0 DEF ChecksInv
  <2>2. checks' \in [Shapes -> [Scenarios -> CheckStates]]
    BY <1>3, <1>0 DEF ChecksInv
  <2>3. cited[shape][m] = 0
    BY <1>3, <1>0 DEF ChecksInv, CiteInv, Done
  <2>4. \A check \in CheckStates : FileInv(check)' <=> FileInv(check)
    BY <1>3 DEF FileInv
  <2>5. \A sh \in Shapes : \A sc \in Scenarios :
           FileInv(checks'[sh][sc]) /\ CiteInv(rows[sh][sc], cited[sh][sc], checks'[sh][sc])
    BY <1>3, <2>1, <2>3 DEF ChecksInv, CiteInv
  <2> QED
    BY <1>3, <2>2, <2>4, <2>5 DEF ChecksInv, FileInv, CiteInv
\* One row is written, and what it cites is its own check or nothing.
<1>4. ASSUME NEW sh \in Shapes, NEW m \in Scenarios, NEW row, NEW own \in 0..MaxPasses,
             CiteInv(row, own, checks[sh][m]),
             rows' = [rows EXCEPT ![sh][m] = row], cited' = [cited EXCEPT ![sh][m] = own],
             UNCHANGED <<checks, pass>>
      PROVE  ChecksInv'
  <2>1. \A other \in Shapes : \A sc \in Scenarios :
           /\ rows'[other][sc] = IF other = sh /\ sc = m THEN row ELSE rows[other][sc]
           /\ cited'[other][sc] = IF other = sh /\ sc = m THEN own ELSE cited[other][sc]
    BY <1>4, <1>0 DEF ChecksInv
  <2>2. cited' \in [Shapes -> [Scenarios -> 0..MaxPasses]]
    BY <1>4 DEF ChecksInv
  <2>3. \A other \in Shapes : \A sc \in Scenarios :
           CiteInv(rows'[other][sc], cited'[other][sc], checks[other][sc])
    BY <1>4, <2>1 DEF ChecksInv
  <2> QED
    BY <1>4, <2>2, <2>3 DEF ChecksInv, FileInv, CiteInv
<1>5. CASE Start
  <2>1. UNCHANGED <<rows, cited, checks>> /\ pass' = pass + 1 /\ pass \in Nat
    BY <1>5, CountsAssumption DEF Start, PassInv
  <2>2. \A check \in CheckStates : FileInv(check) => FileInv(check)'
    BY <2>1, CountsAssumption DEF FileInv, CheckStates
  <2>3. \A sh \in Shapes : \A sc \in Scenarios : FileInv(checks[sh][sc])'
    <3>1. \A sh \in Shapes : \A sc \in Scenarios :
             checks[sh][sc] \in CheckStates /\ FileInv(checks[sh][sc])
      BY DEF ChecksInv
    <3> QED
      BY <2>1, <2>2, <3>1 DEF FileInv
  <2> QED
    BY <2>1, <2>3 DEF ChecksInv, FileInv, CiteInv
<1>6. CASE RunBody
  <2>1. PICK m : m = Min(todo)
    OBVIOUS
  <2>2. m \in Scenarios /\ m \notin Done(shape) /\ pc # "idle"
    BY <2>1, <1>6, <1>0, LeastIsScenario DEF RunBody, LoopInv
  <2>3. checks[shape][m] \in CheckStates /\ FileInv(checks[shape][m])
    BY <2>2, <1>0 DEF ChecksInv
  <2>4. UNCHANGED <<rows, cited, pass>>
    BY <1>6 DEF RunBody
  <2>5. CASE checks' = checks
    BY <2>4, <2>5, <1>2
  <2>6. CASE Corroborate(m)
    <3>1. PICK file : file = [says |-> "deferred", by |-> pass, heard |-> pass, judged |-> 0]
      OBVIOUS
    <3>2. file \in CheckStates /\ FileInv(file)
      BY <3>1, <2>2, <2>3, HeardFile
    <3>3. checks' = [checks EXCEPT ![shape][m] = file]
      BY <3>1, <2>6 DEF Corroborate
    <3> QED
      BY <3>2, <3>3, <2>2, <2>4, <1>3
  <2>7. CASE HeardAgain(m)
    <3>1. PICK file : file = [checks[shape][m] EXCEPT !.heard = pass]
      OBVIOUS
    <3>2. file \in CheckStates /\ FileInv(file)
      BY <3>1, <2>2, <2>3, HeardFile
    <3>3. checks' = [checks EXCEPT ![shape][m] = file]
      <4> HIDE DEF shape
      <4> QED
        BY <3>1, <2>2, <2>3, <2>7, <1>0 DEF HeardAgain, ChecksInv
    <3> QED
      BY <3>2, <3>3, <2>2, <2>4, <1>3
  <2> QED
    BY <2>1, <2>5, <2>6, <2>7, <1>6 DEF RunBody
<1>7. CASE WriteVerdict
  <2>1. PICK m : m = Min(todo)
    OBVIOUS
  <2>2. m \in Scenarios /\ pc # "idle"
    BY <2>1, <1>7, <1>0, LeastIsScenario DEF WriteVerdict, LoopInv
  <2>3. checks[shape][m] \in CheckStates /\ FileInv(checks[shape][m])
    BY <2>2, <1>0 DEF ChecksInv
  <2>4. PICK own : own = IF checks[shape][m].by = pass THEN pass ELSE 0
    OBVIOUS
  <2>5. own \in 0..MaxPasses /\ CiteInv("measured", own, checks[shape][m])
    BY <2>2, <2>3, <2>4, OwnFile
  <2>6. /\ rows' = [rows EXCEPT ![shape][m] = "measured"]
        /\ cited' = [cited EXCEPT ![shape][m] = own]
        /\ UNCHANGED <<checks, pass>>
    BY <2>1, <2>4, <1>7 DEF WriteVerdict, CitedBy
  <2> HIDE DEF shape
  <2> QED
    BY <2>2, <2>5, <2>6, <1>0, <1>4
<1>8. CASE WriteCut
  <2>1. PICK m : m = Min(todo)
    OBVIOUS
  <2>2. m \in Scenarios
    BY <2>1, <1>8, <1>0, LeastIsScenario DEF WriteCut, LoopInv
  <2>3. /\ rows' = [rows EXCEPT ![shape][m] = "torn"]
        /\ cited' = [cited EXCEPT ![shape][m] = 0]
        /\ UNCHANGED <<checks, pass>>
    BY <2>1, <1>8 DEF WriteCut
  <2>4. 0 \in 0..MaxPasses /\ CiteInv("torn", 0, checks[shape][m])
    BY LegFacts DEF CiteInv
  <2> HIDE DEF shape
  <2> QED
    BY <2>2, <2>3, <2>4, <1>0, <1>4
<1>9. CASE MoveAside
  <2>1. PICK sh \in Shapes : \E sc \in Done(sh) :
          /\ rows' = [rows EXCEPT ![sh][sc] = "none"]
          /\ cited' = [cited EXCEPT ![sh][sc] = 0]
    BY <1>9 DEF MoveAside
  <2>2. PICK m \in Done(sh) :
          /\ rows' = [rows EXCEPT ![sh][m] = "none"]
          /\ cited' = [cited EXCEPT ![sh][m] = 0]
    BY <2>1
  <2>3. m \in Scenarios /\ UNCHANGED <<checks, pass>>
    BY <2>2, <1>9 DEF MoveAside, Done
  <2>4. 0 \in 0..MaxPasses /\ CiteInv("none", 0, checks[sh][m])
    BY LegFacts DEF CiteInv
  <2> QED
    BY <2>2, <2>3, <2>4, <1>4
<1>10. CASE Regenerate
  <2>1. PICK files \in SUBSET Deferred :
        \E says \in [files -> UNION {Judgements(checks[q[1]][q[2]]) : q \in files}] :
                /\ \A q \in files : says[q] \in Judgements(checks[q[1]][q[2]])
                /\ checks' = [sh \in Shapes |-> [sc \in Scenarios |->
                       IF <<sh, sc>> \in files
                         THEN [checks[sh][sc] EXCEPT !.says = says[<<sh, sc>>], !.judged = pass]
                         ELSE checks[sh][sc]]]
    BY <1>10 DEF Regenerate
  <2>2. PICK says \in [files -> UNION {Judgements(checks[q[1]][q[2]]) : q \in files}] :
                /\ \A q \in files : says[q] \in Judgements(checks[q[1]][q[2]])
                /\ checks' = [sh \in Shapes |-> [sc \in Scenarios |->
                       IF <<sh, sc>> \in files
                         THEN [checks[sh][sc] EXCEPT !.says = says[<<sh, sc>>], !.judged = pass]
                         ELSE checks[sh][sc]]]
    BY <2>1
  <2> DEFINE file(sh, sc) == IF <<sh, sc>> \in files
                         THEN [checks[sh][sc] EXCEPT !.says = says[<<sh, sc>>], !.judged = pass]
                         ELSE checks[sh][sc]
  <2>3. \A sh \in Shapes : \A sc \in Scenarios :
           /\ file(sh, sc) \in CheckStates
           /\ FileInv(file(sh, sc))
           /\ CiteInv(rows[sh][sc], cited[sh][sc], file(sh, sc))
    <3> SUFFICES ASSUME NEW sh \in Shapes, NEW sc \in Scenarios
                 PROVE  /\ file(sh, sc) \in CheckStates
                        /\ FileInv(file(sh, sc))
                        /\ CiteInv(rows[sh][sc], cited[sh][sc], file(sh, sc))
      OBVIOUS
    <3>1. /\ checks[sh][sc] \in CheckStates
          /\ cited[sh][sc] \in 0..MaxPasses
          /\ FileInv(checks[sh][sc])
          /\ CiteInv(rows[sh][sc], cited[sh][sc], checks[sh][sc])
      BY DEF ChecksInv
    <3>2. CASE <<sh, sc>> \in files
      <4>1. says[<<sh, sc>>] \in Judgements(checks[sh][sc])
        BY <2>2, <3>2
      <4>2. pc # "idle"
        BY <1>10 DEF Regenerate
      <4> QED
        BY <3>1, <3>2, <4>1, <4>2, JudgedFile
    <3>3. CASE <<sh, sc>> \notin files
      BY <3>1, <3>3
    <3> QED
      BY <3>2, <3>3
  <2>4. checks' = [sh \in Shapes |-> [sc \in Scenarios |-> file(sh, sc)]]
    BY <2>2
  <2>5. UNCHANGED <<rows, cited, pass>>
    BY <1>10 DEF Regenerate
  <2> HIDE DEF file
  <2>6. checks' \in [Shapes -> [Scenarios -> CheckStates]]
    BY <2>3, <2>4
  <2>7. \A sh \in Shapes : \A sc \in Scenarios :
           FileInv(checks'[sh][sc]) /\ CiteInv(rows[sh][sc], cited[sh][sc], checks'[sh][sc])
    BY <2>3, <2>4
  <2> QED
    BY <2>5, <2>6, <2>7 DEF ChecksInv, FileInv, CiteInv
<1>11. CASE AbortAllShapes \/ AbortShape
  <2>1. UNCHANGED <<checks, cited, pass>> /\ \A sh \in Shapes : Done(sh)' = Done(sh)
    BY <1>11, <1>0, AbortKeepsVerdicts DEF AbortAllShapes, AbortShape
  <2> QED
    BY <2>1, <1>1
<1>12. CASE UpCell \/ UpCellFails \/ ChooseSlot \/ StartCell \/ StartServer
  BY <1>12, <1>2 DEF UpCell, UpCellFails, ChooseSlot, StartCell, StartServer, StartCapture
<1>13. CASE ProbeRelay \/ AskRemaining \/ FindPoolShort \/ LabctlFails \/ LabctlEnds
  BY <1>13, <1>2 DEF ProbeRelay, AskRemaining, FindPoolShort, LabctlFails, LabctlEnds
<1>14. CASE StopCell \/ CopyCell \/ StopServer \/ CopyServer \/ TearDown
  BY <1>14, <1>2 DEF StopCell, CopyCell, StopServer, CopyServer, StopCapture, CopyOut, TearDown
<1>15. CASE DiesUnderSetE \/ DiesAtRemaining \/ Kill \/ Reap \/ ReapGreen
  BY <1>15, <1>2 DEF DiesUnderSetE, DiesAtRemaining, Kill, Reap, ReapGreen
<1>16. CASE UNCHANGED vars
  BY <1>16, <1>2 DEF vars
<1> QED
  BY <1>5, <1>6, <1>7, <1>8, <1>9, <1>10, <1>11, <1>12, <1>13, <1>14, <1>15, <1>16 DEF Next

LEMMA RemainsStep == IInv /\ PassInv /\ WorkInv /\ Remains /\ [Next]_vars => Remains'
<1> SUFFICES ASSUME IInv, PassInv, WorkInv, Remains, [Next]_vars PROVE Remains'
  OBVIOUS
<1>0. shape \in Shapes /\ (pc # "idle" => pass \in Passes)
  BY ShapeIsShape, CountsAssumption DEF IInv, PassInv, Passes
<1> USE DEF evidence, lab, loop, ends, Remains
<1>1. CASE Start \/ UpCell \/ UpCellFails \/ ChooseSlot
  BY <1>1 DEF Start, UpCell, UpCellFails, ChooseSlot
<1>2. CASE AbortAllShapes \/ AbortShape
  <2>1. told' \subseteq Shapes
    <3> HIDE DEF shape
    <3> QED
      BY <1>0, <1>2 DEF AbortAllShapes, AbortShape, AbortRows
  <2> QED
    BY <1>2, <2>1 DEF AbortAllShapes, AbortShape
<1>3. CASE StartCell \/ StartServer
  BY <1>3 DEF StartCell, StartServer, StartCapture
<1>4. CASE ProbeRelay \/ AskRemaining \/ RunBody \/ FindPoolShort \/ WriteVerdict \/ WriteCut
  BY <1>4 DEF ProbeRelay, AskRemaining, RunBody, FindPoolShort, WriteVerdict, WriteCut
<1>5. CASE LabctlFails \/ LabctlEnds
  BY <1>5 DEF LabctlFails, LabctlEnds
<1>6. CASE StopCell \/ StopServer
  BY <1>6 DEF StopCell, StopServer, StopCapture
<1>7. CASE CopyCell \/ CopyServer
  BY <1>7 DEF CopyCell, CopyServer, CopyOut
<1>8. CASE Regenerate
  <2>1. UNCHANGED <<told, moved, observing, probeFailed>>
    BY <1>8 DEF Regenerate
  <2> QED
    BY <2>1
<1>9. CASE TearDown \/ Reap
  <2>1. told' = told /\ probeFailed' = probeFailed /\ pc # "idle"
    BY <1>9 DEF TearDown, Reap
  <2>2. observing' \in [Legs -> BOOLEAN] /\ moved' \subseteq moved \cup {<<leg, pass>> : leg \in Legs}
    BY <1>9 DEF TearDown, Reap, DownCell, DownCellRefuses
  <2> QED
    BY <2>1, <2>2, <1>0
<1>10. CASE DiesUnderSetE \/ DiesAtRemaining \/ Kill \/ ReapGreen \/ MoveAside
  BY <1>10 DEF DiesUnderSetE, DiesAtRemaining, Kill, ReapGreen, MoveAside
<1>11. CASE UNCHANGED vars
  BY <1>11 DEF vars
<1> QED
  BY <1>1, <1>2, <1>3, <1>4, <1>5, <1>6, <1>7, <1>8, <1>9, <1>10, <1>11 DEF Next

-----------------------------------------------------------------------------
\* abort-blocked answers for its shape, or says that it could not; it takes
\* nothing from another shape.
LEMMA AbortFills ==
    ASSUME LoopInv, NEW sh \in Shapes, AbortRows(sh)
    PROVE  Filled(sh)' /\ \A other \in Shapes : Filled(other) => Filled(other)'
<1>1. CASE rows' = [rows EXCEPT ![sh] = Aborted(sh, RemainingOf(sh))] /\ told' = told
  <2>1. \A sc \in Scenarios : rows'[sh][sc] \in {"abort", "measured"}
    BY <1>1 DEF LoopInv, Aborted, RemainingOf, Done
  <2>2. \A other \in Shapes : other # sh => rows'[other] = rows[other]
    BY <1>1 DEF LoopInv
  <2> QED
    BY <1>1, <2>1, <2>2 DEF Filled
<1>2. CASE told' = told \cup {sh} /\ \E row : rows' = [rows EXCEPT ![sh] = row]
  <2>1. \A other \in Shapes : other # sh => rows'[other] = rows[other]
    BY <1>2 DEF LoopInv
  <2> QED
    BY <1>2, <2>1 DEF Filled
<1>3. CASE told' = told \cup {sh} /\ rows' = rows
  BY <1>3 DEF Filled
<1>4. ASSUME NEW bad \in RemainingOf(sh), NEW row,
             rows' \in {[rows EXCEPT ![sh] = row], [rows EXCEPT ![sh] = [row EXCEPT ![bad] = "torn"]]}
      PROVE  \E new : rows' = [rows EXCEPT ![sh] = new]
  BY <1>4
<1> QED
  BY <1>1, <1>2, <1>3, <1>4, Zenon DEF AbortRows

LEMMA FilledStep == IInv /\ PassInv /\ FilledInv /\ [Next]_vars => FilledInv'
<1> SUFFICES ASSUME IInv, PassInv, FilledInv, [Next]_vars PROVE FilledInv'
  OBVIOUS
<1>0. /\ LoopInv
      /\ shape \in Shapes /\ Len(ShapeOrder) \in Nat /\ 1 \in 1..Len(ShapeOrder)
      /\ \A i \in 1..Len(ShapeOrder) : ShapeOrder[i] \in Shapes
  BY ShapeIsShape, ShapeOrderAssumption DEF IInv, Shapes
<1> USE DEF evidence, lab, loop, ends
\* Steps that leave the loop and the rows alone.
<1>1. ASSUME UNCHANGED <<at, todo, rows, told, probeFailed>>, short => short',
             pc' = "remaining" => pc = "remaining" \/ at = 1,
             pc' \in {"run", "write"} => pc \in {"run", "write"},
             pc' \in LoopCommands \cup {"abort_all"} => pc \in LoopCommands \cup {"abort_all"} \/ at = 1,
             pc' \in EndCommands => pc \in EndCommands
      PROVE  FilledInv'
  <2>1. Done(shape)' = Done(shape) /\ (\A sh : Filled(sh)' <=> Filled(sh)) /\ shape' = shape
    BY <1>1 DEF Done, Filled, shape
  <2> HIDE DEF Done, Filled, shape
  <2> QED
    BY <1>1, <2>1, <1>0 DEF FilledInv, LoopInv
\* The loop goes on behind a shape that is answered for.
<1>2. ASSUME NextShape, \A i \in 1..at : Filled(ShapeOrder[i])'
      PROVE  FilledInv'
  <2>1. CASE at < Len(ShapeOrder)
    BY <1>2, <2>1, <1>0 DEF NextShape, FilledInv, LoopInv, EndCommands
  <2>2. CASE ~(at < Len(ShapeOrder))
    BY <1>2, <2>2, <1>0 DEF NextShape, FilledInv, LoopInv, LoopCommands
  <2> QED
    BY <2>1, <2>2
<1> USE DEF LoopCommands, EndCommands
<1>3. CASE Start
  BY <1>3 DEF Start, FilledInv
<1>4. CASE UpCell \/ UpCellFails \/ ChooseSlot
  BY <1>4, <1>1, <1>0 DEF UpCell, UpCellFails, ChooseSlot, LoopInv
<1>5. CASE AbortAllShapes
  <2>1. PICK sh \in Shapes : sh = shape
    BY <1>0
  <2>2. Filled(sh)' /\ \A other \in Shapes : Filled(other) => Filled(other)'
    BY <1>5, <1>0, <2>1, AbortFills DEF AbortAllShapes
  <2>3. \A i \in 1..(at - 1) : Filled(ShapeOrder[i]) \/ ShapeOrder[i] = sh
    BY <1>5, <2>1 DEF AbortAllShapes, FilledInv
  <2>4. \A i \in 1..at : ShapeOrder[i] \in Shapes /\ (i \in 1..(at - 1) \/ ShapeOrder[i] = sh)
    BY <1>0, <2>1 DEF LoopInv, shape
  <2>5. \A i \in 1..at : Filled(ShapeOrder[i])'
    <3> HIDE DEF Filled
    <3> QED
      BY <2>2, <2>3, <2>4
  <2>6. CASE at < Len(ShapeOrder)
    <3>1. at' = at + 1 /\ pc' = "abort_all"
      BY <1>5, <2>6 DEF AbortAllShapes
    <3> HIDE DEF Filled
    <3> QED
      BY <2>5, <3>1, <1>0 DEF FilledInv, LoopInv
  <2>7. CASE ~(at < Len(ShapeOrder))
    <3>1. at = Len(ShapeOrder) /\ at' = at /\ pc' = "ended"
      BY <1>5, <2>7, <1>0 DEF AbortAllShapes, LoopInv
    <3> HIDE DEF Filled
    <3> QED
      BY <2>5, <3>1, <1>0 DEF FilledInv, LoopInv
  <2> QED
    BY <2>6, <2>7
<1>6. CASE StartCell \/ StartServer
  BY <1>6, <1>1, <1>0 DEF StartCell, StartServer, StartCapture, LoopInv
<1>7. CASE ProbeRelay
  <2>1. CASE pc' = "remaining" /\ UNCHANGED ends
    BY <1>7, <2>1, <1>1, <1>0 DEF ProbeRelay, LoopInv
  <2>2. CASE pc' = "stop_cell" /\ probeFailed' = TRUE
    BY <2>2 DEF FilledInv
  <2> QED
    BY <1>7, <2>1, <2>2 DEF ProbeRelay
<1>8. CASE AskRemaining
  <2>1. rows' = rows /\ told' = told /\ todo' = Scenarios \ Done(shape)
        /\ \A i \in 1..(at - 1) : Filled(ShapeOrder[i])
    BY <1>8 DEF AskRemaining, Listed, RemainingOf, FilledInv
  <2>2. \A sh : Filled(sh)' <=> Filled(sh)
    BY <2>1 DEF Filled
  <2>3. CASE todo' = {}
    <3>1. Filled(shape)
      BY <2>1, <2>3 DEF Filled, Done
    <3>2. \A i \in 1..at : Filled(ShapeOrder[i])'
      BY <2>1, <2>2, <3>1, <1>0 DEF LoopInv, shape
    <3>3. NextShape
      BY <1>8, <2>3 DEF AskRemaining
    <3> QED
      BY <3>2, <3>3, <1>2
  <2>4. CASE todo' # {}
    <3>1. pc' = "run" /\ at' = at /\ shape' = shape
      BY <1>8, <2>4 DEF AskRemaining, shape
    <3>2. (Done(shape) \cup todo)' = Scenarios
      BY <2>1, <3>1 DEF Done
    <3> QED
      BY <2>1, <2>2, <3>1, <3>2 DEF FilledInv
  <2> QED
    BY <2>3, <2>4
<1>9. CASE RunBody \/ FindPoolShort
  BY <1>9, <1>1 DEF RunBody, FindPoolShort
<1>10. CASE WriteVerdict
  <2>1. /\ UNCHANGED <<at, told>> /\ shape' = shape /\ pc' = "run" /\ pc = "write"
        /\ todo' = todo \ {Min(todo)}
        /\ Done(shape) \cup todo = Scenarios
        /\ \A i \in 1..(at - 1) : Filled(ShapeOrder[i]) \/ ShapeOrder[i] = shape
    BY <1>10 DEF WriteVerdict, shape, FilledInv
  <2>2. PICK m : m = Min(todo)
    OBVIOUS
  <2>3. rows' = [rows EXCEPT ![shape][m] = "measured"]
    BY <1>10, <2>2 DEF WriteVerdict
  <2> HIDE DEF shape, Min
  <2>4. (Done(shape) \cup todo)' = Scenarios
    BY <2>1, <1>10, <1>0, WriteAddsOne
  <2>5. \A sh \in Shapes : sh # shape => (Filled(sh) => Filled(sh)')
    BY <2>1, <2>3, <1>0 DEF LoopInv, Filled
  <2>6. \A i \in 1..(at - 1) : ShapeOrder[i] \in Shapes
    BY <1>0 DEF LoopInv
  <2> HIDE DEF Filled
  <2>7. \A i \in 1..(at - 1) : Filled(ShapeOrder[i])' \/ ShapeOrder[i] = shape
    BY <2>1, <2>5, <2>6
  <2> QED
    BY <2>1, <2>4, <2>7 DEF FilledInv
<1>11. CASE WriteCut
  <2>1. /\ UNCHANGED <<at, told>> /\ shape' = shape /\ pc' \in {"abort", "dead"} /\ pc = "write"
        /\ \A i \in 1..(at - 1) : Filled(ShapeOrder[i]) \/ ShapeOrder[i] = shape
    BY <1>11 DEF WriteCut, shape, FilledInv
  <2>2. PICK m : rows' = [rows EXCEPT ![shape][m] = "torn"]
    BY <1>11 DEF WriteCut
  <2> HIDE DEF shape
  <2>3. \A sh \in Shapes : sh # shape => (Filled(sh) => Filled(sh)')
    BY <2>1, <2>2, <1>0 DEF LoopInv, Filled
  <2>4. \A i \in 1..(at - 1) : ShapeOrder[i] \in Shapes
    BY <1>0 DEF LoopInv
  <2> HIDE DEF Filled
  <2> QED
    BY <2>1, <2>3, <2>4 DEF FilledInv
<1>12. CASE LabctlFails
  BY <1>12, <1>1 DEF LabctlFails
<1>13. CASE LabctlEnds
  <2>1. rows' = rows /\ told' = told /\ probeFailed' = probeFailed /\ short' = short /\ pc = "run"
        /\ todo = {}
    BY <1>13 DEF LabctlEnds
  <2>2. \A sh : Filled(sh)' <=> Filled(sh)
    BY <2>1 DEF Filled
  <2>3. Filled(shape)
    BY <2>1 DEF FilledInv, Filled, Done
  <2>4. \A i \in 1..at : Filled(ShapeOrder[i])'
    <3>1. \A i \in 1..(at - 1) : Filled(ShapeOrder[i]) \/ ShapeOrder[i] = shape
      BY <2>1 DEF FilledInv
    <3>2. \A i \in 1..at : i \in 1..(at - 1) \/ ShapeOrder[i] = shape
      BY <1>0 DEF LoopInv, shape
    <3> QED
      BY <3>1, <3>2, <2>2, <2>3
  <2>5. CASE short
    BY <1>13, <2>1, <2>5 DEF LabctlEnds, FilledInv
  <2>6. CASE ~short
    BY <1>13, <2>4, <2>6, <1>2 DEF LabctlEnds
  <2> QED
    BY <2>5, <2>6
<1>14. CASE AbortShape
  <2>1. PICK sh \in Shapes : sh = shape
    BY <1>0
  <2>2. Filled(sh)' /\ \A other \in Shapes : Filled(other) => Filled(other)'
    BY <1>14, <1>0, <2>1, AbortFills DEF AbortShape
  <2>3. \A i \in 1..(at - 1) : Filled(ShapeOrder[i]) \/ ShapeOrder[i] = sh
    BY <1>14, <2>1 DEF AbortShape, FilledInv
  <2>4. \A i \in 1..at : ShapeOrder[i] \in Shapes /\ (i \in 1..(at - 1) \/ ShapeOrder[i] = sh)
    BY <1>0, <2>1 DEF LoopInv, shape
  <2>5. \A i \in 1..at : Filled(ShapeOrder[i])'
    <3> HIDE DEF Filled
    <3> QED
      BY <2>2, <2>3, <2>4
  <2> QED
    BY <1>14, <2>5, <1>2 DEF AbortShape
<1>15. CASE StopCell \/ StopServer
  BY <1>15, <1>1 DEF StopCell, StopServer, StopCapture
<1>16. CASE CopyCell \/ CopyServer
  BY <1>16, <1>1 DEF CopyCell, CopyServer, CopyOut, AfterCaptures
<1>17. CASE Regenerate \/ TearDown
  <2>1. UNCHANGED <<at, todo, rows, told, probeFailed, short>> /\ pc \in {"regenerate", "down"}
    BY <1>17 DEF Regenerate, TearDown
  <2>2. pc' \in {"down", "dead", "ended"}
    BY <1>17 DEF Regenerate, TearDown, DownCell, DownCellRefuses
  <2> QED
    BY <2>1, <2>2, <1>1
<1>18. CASE DiesUnderSetE \/ DiesAtRemaining \/ Kill
  BY <1>18, <1>1 DEF DiesUnderSetE, DiesAtRemaining, Kill
<1>19. CASE Reap \/ ReapGreen \/ MoveAside
  BY <1>19 DEF Reap, ReapGreen, MoveAside, DownCell, DownCellRefuses, FilledInv
<1>20. CASE UNCHANGED vars
  BY <1>20, <1>1 DEF vars
<1> QED
  BY <1>3, <1>4, <1>5, <1>6, <1>7, <1>8, <1>9, <1>10, <1>11, <1>12, <1>13, <1>14, <1>15, <1>16,
     <1>17, <1>18, <1>19, <1>20 DEF Next

-----------------------------------------------------------------------------
THEOREM CaptureInvariant == Spec => []CaptureInv
<1>1. CaptureInv /\ [Next]_vars => CaptureInv'
  BY LoopStep, GreenStep, PassStepKeeps, SlotStep, WorkStep, ChecksStep, FilledStep, RemainsStep
  DEF CaptureInv, IInv
<1> QED
  BY <1>1, CaptureInit, PTL DEF Spec

\* The variables of a cell have their types, in every pass.
THEOREM CellTypeCorrect == Spec => []TypeOK
<1>1. CaptureInv => TypeOK
  <2>1. DOMAIN ShapeOrder = 1..Len(ShapeOrder)
    BY ShapeOrderAssumption
  <2> QED
    BY <2>1 DEF CaptureInv, IInv, LoopInv, PassInv, SlotInv, WorkInv, ChecksInv, Remains, TypeOK
<1> QED
  BY <1>1, CaptureInvariant, PTL

\* A pass that comes to its end answers for every scenario of every shape it
\* does not report, whatever was cut, aborted or resumed before.
THEOREM NothingMissingHolds == Spec => []NothingMissing
<1>1. CaptureInv => NothingMissing
  <2> SUFFICES ASSUME CaptureInv, pc = "ended", ~short, ~probeFailed,
                      NEW sh \in Shapes \ told, NEW sc \in Scenarios
               PROVE  rows[sh][sc] \in {"abort", "measured"}
    BY DEF NothingMissing
  <2>1. PICK i \in 1..Len(ShapeOrder) : sh = ShapeOrder[i]
    BY ShapeOrderAssumption DEF Shapes
  <2>2. Filled(sh)
    BY <2>1 DEF CaptureInv, FilledInv, EndCommands
  <2> QED
    BY <2>2 DEF Filled
<1> QED
  BY <1>1, CaptureInvariant, PTL

\* Whatever passes follow, the capture check a verdict names is the one its own
\* body left, judged by no other pass's capture.
THEOREM CitedCheckIsOwnHolds == Spec => []CitedCheckIsOwn
<1>1. CaptureInv => CitedCheckIsOwn
  BY DEF CaptureInv, ChecksInv, CiteInv, CitedCheckIsOwn
<1> QED
  BY <1>1, CaptureInvariant, PTL

\* The decided check of a measured scenario is judged in no later pass.
THEOREM DecidedChecksKeptHolds == Spec => DecidedChecksKept
<1> DEFINE Decided(sh, sc) == rows[sh][sc] = "measured" /\ checks[sh][sc].says \notin {"none", "deferred"}
<1>1. ASSUME CaptureInv, [Next]_vars, NEW sh \in Shapes, NEW sc \in Scenarios, Decided(sh, sc)
      PROVE  checks'[sh][sc] = checks[sh][sc]
  <2> USE DEF evidence, lab, loop, ends
  <2>0. LoopInv /\ shape \in Shapes /\ checks \in [Shapes -> [Scenarios -> CheckStates]]
    BY <1>1, ShapeIsShape DEF CaptureInv, IInv, ChecksInv
  <2>1. CASE RunBody
    <3>1. PICK m : m = Min(todo)
      OBVIOUS
    <3>2. m \in todo /\ m \in Scenarios /\ m \notin Done(shape)
      BY <3>1, <2>1, <2>0, LeastIsScenario DEF RunBody, LoopInv
    <3>3. checks' = checks \/ (\E file : checks' = [checks EXCEPT ![shape][m] = file])
                          \/ checks' = [checks EXCEPT ![shape][m].heard = pass]
      BY <3>1, <2>1 DEF RunBody, Corroborate, HeardAgain
    <3>4. ~(sh = shape /\ sc = m)
      BY <1>1, <3>2 DEF Done
    <3> HIDE DEF shape
    <3> QED
      BY <2>0, <3>2, <3>3, <3>4
  <2>2. CASE Regenerate
    <3>1. <<sh, sc>> \notin Deferred
      BY <1>1 DEF Deferred
    <3> QED
      BY <2>2, <3>1 DEF Regenerate
  <2>3. CASE Start \/ UpCell \/ UpCellFails \/ AbortAllShapes \/ ChooseSlot \/ StartCell \/ StartServer
    BY <2>3 DEF Start, UpCell, UpCellFails, AbortAllShapes, ChooseSlot, StartCell, StartServer,
                StartCapture
  <2>4. CASE ProbeRelay \/ AskRemaining \/ FindPoolShort \/ WriteVerdict \/ WriteCut
    BY <2>4 DEF ProbeRelay, AskRemaining, FindPoolShort, WriteVerdict, WriteCut
  <2>5. CASE LabctlFails \/ LabctlEnds \/ AbortShape
    BY <2>5 DEF LabctlFails, LabctlEnds, AbortShape
  <2>6. CASE StopCell \/ CopyCell \/ StopServer \/ CopyServer \/ TearDown
    BY <2>6 DEF StopCell, CopyCell, StopServer, CopyServer, StopCapture, CopyOut, TearDown
  <2>7. CASE DiesUnderSetE \/ DiesAtRemaining \/ Kill \/ Reap \/ ReapGreen \/ MoveAside
    BY <2>7 DEF DiesUnderSetE, DiesAtRemaining, Kill, Reap, ReapGreen, MoveAside
  <2>8. CASE UNCHANGED vars
    BY <2>8 DEF vars
  <2> QED
    BY <1>1, <2>1, <2>2, <2>3, <2>4, <2>5, <2>6, <2>7, <2>8 DEF Next
<1>2. CaptureInv /\ [Next]_vars =>
        [\A sh \in Shapes : \A sc \in Scenarios :
            rows[sh][sc] = "measured" /\ checks[sh][sc].says \notin {"none", "deferred"}
                => checks'[sh][sc] = checks[sh][sc]]_vars
  BY <1>1
<1> QED
  BY <1>2, CaptureInvariant, PTL DEF Spec, DecidedChecksKept

\* A capture that left its observer is in the evidence before its work
\* directory goes, and a cell capture in the evidence is never written over.
THEOREM CapturesKeptHolds == Spec => CapturesKept
<1>1. ASSUME CaptureInv, [Next]_vars, NEW leg \in Legs, work[leg], ~work'[leg]
      PROVE  <<leg, pass>> \in moved'
  <2> USE <1>1 DEF evidence, lab, loop, ends, CaptureInv, WorkInv, NoWork, BeforeSlot, Observed
  <2>1. CASE TearDown \/ Reap
    BY <2>1 DEF TearDown, Reap, DownCell, DownCellRefuses
  <2>2. CASE StartCell \/ StartServer
    BY <2>2 DEF StartCell, StartServer, StartCapture
  <2>3. CASE StopCell \/ StopServer
    BY <2>3 DEF StopCell, StopServer, StopCapture
  <2>4. CASE Start \/ UpCell \/ UpCellFails \/ AbortAllShapes \/ ChooseSlot \/ ProbeRelay
    BY <2>4 DEF Start, UpCell, UpCellFails, AbortAllShapes, ChooseSlot, ProbeRelay
  <2>5. CASE AskRemaining \/ RunBody \/ FindPoolShort \/ WriteVerdict \/ WriteCut
    BY <2>5 DEF AskRemaining, RunBody, FindPoolShort, WriteVerdict, WriteCut
  <2>6. CASE LabctlFails \/ LabctlEnds \/ AbortShape \/ CopyCell \/ CopyServer \/ Regenerate
    <3>1. work' = work
      BY <2>6 DEF LabctlFails, LabctlEnds, AbortShape, CopyCell, CopyServer, CopyOut, Regenerate
    <3> QED
      BY <3>1
  <2>7. CASE DiesUnderSetE \/ DiesAtRemaining \/ Kill \/ ReapGreen \/ MoveAside \/ UNCHANGED vars
    BY <2>7 DEF DiesUnderSetE, DiesAtRemaining, Kill, ReapGreen, MoveAside, vars
  <2> QED
    BY <2>1, <2>2, <2>3, <2>4, <2>5, <2>6, <2>7 DEF Next
<1>2. ASSUME CaptureInv, [Next]_vars, NEW k \in Passes, pcaps["cell"][k] # 0
      PROVE  pcaps'["cell"][k] = pcaps["cell"][k]
  <2> USE <1>2 DEF evidence, lab, loop, ends
  <2>1. CASE CopyCell
    <3>1. k # slot
      BY <2>1 DEF CopyCell, CopyOut, CaptureInv, SlotInv, FreeSlot
    <3> QED
      BY <2>1, <3>1, LegFacts DEF CopyCell, CopyOut, CaptureInv, SlotInv
  <2>2. CASE CopyServer
    BY <2>2, LegFacts DEF CopyServer, CopyOut, CaptureInv, SlotInv
  <2>3. CASE Start \/ UpCell \/ UpCellFails \/ AbortAllShapes \/ ChooseSlot \/ StartCell \/ StartServer
    BY <2>3 DEF Start, UpCell, UpCellFails, AbortAllShapes, ChooseSlot, StartCell, StartServer,
                StartCapture
  <2>4. CASE ProbeRelay \/ AskRemaining \/ RunBody \/ FindPoolShort \/ WriteVerdict \/ WriteCut
    BY <2>4 DEF ProbeRelay, AskRemaining, RunBody, FindPoolShort, WriteVerdict, WriteCut
  <2>5. CASE LabctlFails \/ LabctlEnds \/ AbortShape
    BY <2>5 DEF LabctlFails, LabctlEnds, AbortShape
  <2>6. CASE StopCell \/ StopServer \/ Regenerate \/ TearDown
    <3>1. pcaps' = pcaps
      BY <2>6 DEF StopCell, StopServer, StopCapture, Regenerate, TearDown
    <3> QED
      BY <3>1
  <2>7. CASE DiesUnderSetE \/ DiesAtRemaining \/ Kill \/ Reap \/ ReapGreen \/ MoveAside
             \/ UNCHANGED vars
    BY <2>7 DEF DiesUnderSetE, DiesAtRemaining, Kill, Reap, ReapGreen, MoveAside, vars
  <2> QED
    BY <2>1, <2>2, <2>3, <2>4, <2>5, <2>6, <2>7 DEF Next
<1>3. CaptureInv /\ [Next]_vars =>
        [/\ \A leg \in Legs : work[leg] /\ ~work'[leg] =>
                <<leg, pass>> \in moved' \/ \E k \in Passes : pcaps'[leg][k] = pass
         /\ \A k \in Passes : pcaps["cell"][k] # 0 => pcaps'["cell"][k] = pcaps["cell"][k]]_vars
  BY <1>1, <1>2
<1> QED
  BY <1>3, CaptureInvariant, PTL DEF Spec, CapturesKept
=============================================================================
