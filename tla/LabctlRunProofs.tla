-------------------------- MODULE LabctlRunProofs --------------------------
(***************************************************************************)
(* What holds of one `labctl run` for any list of scenarios, any reset     *)
(* budget and any number of faults.                                        *)
(***************************************************************************)
EXTENDS LabctlRun, TLAPS

\* The steps before the loop, in RunOne, behind its first gate, and after
\* the loop.
BeforeLoop == {"ready", "reset-ready", "leases", "parent", "netup"}
InRunOne   == {"inspect", "poll", "enable", "reset", "bridge", "applicable",
               "source", "body", "write"}
AfterGate  == {"bridge", "applicable", "source", "body", "write"}
Left       == {"down", "exit"}

\* Where the loop is: the scenario at hand is one of the list, and RunOne has
\* been entered at most once for each.
LoopInv ==
    /\ pc \in BeforeLoop => i = 1 /\ ran = 0
    /\ pc \in {"next", "isolate", "isolate-wait"} => ran < i
    /\ pc \in {"isolate", "isolate-wait"} => i <= N /\ ran > 0
    /\ pc \in InRunOne => ran \in 1..i /\ i <= N
    /\ pc = "write" => result \in Written

\* What the exit status can vouch for.
StatusInv ==
    /\ pc \notin Left => rc = Running
    /\ \A s \in Selected : s < i => rows[s] \in Written
    /\ StatusAnswers

\* A held identity is behind a body that has ended, with its isolation still
\* to come.
IdentityInv ==
    Isolating /\ hold =>
        /\ pc \in {"write", "next", "isolate", "isolate-wait"} \cup Left
        /\ pc \in {"write", "next"} => ran > 0

\* What each gate has established and no step of labctl run undoes before
\* the body has run.
GatesInv ==
    faults = 0 =>
        /\ pc \in {"bridge", "applicable", "source", "body"} =>
               host = "up" /\ plugin = "ok"
        /\ pc \in {"applicable", "source", "body"} => (Bridged => bridge)
        /\ pc = "body" => source = "ok"

\* Where a reset is noted until a verdict names it.
NoteInv ==
    /\ note => ran = 0 \/ pc \in {"inspect", "poll", "enable", "reset"}
    /\ hostNote => pc \in AfterGate
    /\ hostNote /\ pc = "write" => i \in named
    /\ back > 0 => note \/ hostNote \/ named # {}

\* A row that names a reset is the current one or an earlier one, and is not
\* PASS; nor is any row the loop has not come to.
NamedInv ==
    /\ \A s \in named : s <= i /\ rows[s] # "PASS"
    /\ i \in named => pc \in {"write"} \cup Left
    /\ i \in named /\ pc = "write" => result # "PASS"
    /\ \A s \in Selected : s >= i => rows[s] # "PASS"

\* The inductive invariant.
IInv ==
    /\ TypeOK /\ LoopInv /\ StatusInv
    /\ IdentityInv /\ GatesInv /\ NoteInv /\ NamedInv

\* The initial states are well typed.
LEMMA TypeInit == Init => TypeOK
<1> SUFFICES ASSUME Init PROVE TypeOK
  OBVIOUS
<1>1. rows \in [Selected -> Results]
  BY DEF Init, Results, NoRow
<1>2. ValuesOK
  BY <1>1 DEF Init, ValuesOK, Steps, Written, NoRow, Running
<1>3. CountsOK
  BY RunAssumption DEF Init, CountsOK, Selected
<1>4. FlagsOK
  BY DEF Init, FlagsOK
<1> QED
  BY <1>2, <1>3, <1>4 DEF TypeOK

\* The flags stay flags.
LEMMA FlagsStep == TypeOK /\ [Next]_vars => FlagsOK'
<1> SUFFICES ASSUME TypeOK, [Next]_vars PROVE FlagsOK'
  OBVIOUS
<1> USE RunAssumption DEF gate, recovery, loop, report, network, cell, history,
           TypeOK, FlagsOK, CountsOK, ValuesOK
<1>1. CASE WaitPluginReady
  BY <1>1 DEF WaitPluginReady
<1>2. CASE ShapeBlocked
  BY <1>2 DEF ShapeBlocked, BlockAll, Leave
<1>3. CASE ResetLeases
  BY <1>3 DEF ResetLeases, BlockAll, Leave
<1>4. CASE ParentReady
  BY <1>4 DEF ParentReady, BlockAll, Leave
<1>5. CASE NetworkUp
  BY <1>5 DEF NetworkUp, NetworkUpOK, NetworkUpFails, Leave
<1>6. CASE StaticRow
  BY <1>6 DEF StaticRow, Leave
<1>7. CASE NextScenario
  BY <1>7 DEF NextScenario, NeedsIsolation
<1>8. CASE AllRun
  BY <1>8 DEF AllRun, Leave
<1>9. CASE Isolate
  BY <1>9 DEF Isolate, Isolated, NetworkUpOK, NetworkUpFails, Leave
<1>10. CASE IsolateWait
  BY <1>10 DEF IsolateWait, Isolated, Leave
<1>11. CASE InspectPlugin
  BY <1>11 DEF InspectPlugin, GateError
<1>12. CASE PollPlugin
  BY <1>12 DEF PollPlugin, GatePasses, TakeNote, GateError
<1>13. CASE EnablePlugin
  BY <1>13 DEF EnablePlugin, GateError
<1>14. CASE PowerCycle
  BY <1>14 DEF PowerCycle, MayReset, Rebooted
<1>15. CASE ScenarioBlocked
  BY <1>15 DEF ScenarioBlocked, TakeNote
<1>16. CASE EnsureBridge
  BY <1>16 DEF EnsureBridge, NetworkUpOK, NetworkUpFails, Verdict
<1>17. CASE Applicable
  BY <1>17 DEF Applicable, Verdict
<1>18. CASE SourceReady
  BY <1>18 DEF SourceReady
<1>19. CASE RecoverSource
  BY <1>19 DEF RecoverSource, Verdict
<1>20. CASE PollSource
  BY <1>20 DEF PollSource, Verdict
<1>21. ASSUME NEW v \in Written, Body(v) PROVE FlagsOK'
  BY <1>21 DEF Body, Verdict
<1>22. CASE WriteVerdict
  BY <1>22 DEF WriteVerdict, Leave
<1>23. CASE NetworkDown
  BY <1>23 DEF NetworkDown
<1>24. CASE Fault
  BY <1>24 DEF Fault
<1>25. CASE Heal
  BY <1>25 DEF Heal
<1>26. CASE UNCHANGED vars
  BY <1>26 DEF vars
<1> QED
  BY <1>1, <1>2, <1>3, <1>4, <1>5, <1>6, <1>7, <1>8, <1>9, <1>10, <1>11, <1>12,
     <1>13, <1>14, <1>15, <1>16, <1>17, <1>18, <1>19, <1>20, <1>21, <1>22,
     <1>23, <1>24, <1>25, <1>26
     DEF Next, Labctl, Finished

\* The counters stay within their bounds.
LEMMA CountsStep == TypeOK /\ LoopInv /\ [Next]_vars => CountsOK'
<1> SUFFICES ASSUME TypeOK, LoopInv, [Next]_vars PROVE CountsOK'
  OBVIOUS
<1> USE RunAssumption DEF gate, recovery, loop, report, network, cell, history,
           TypeOK, FlagsOK, CountsOK, ValuesOK, Results, Written, NoRow,
           Running, Selected, LoopInv, BeforeLoop, InRunOne
<1>1. CASE WaitPluginReady
  BY <1>1 DEF WaitPluginReady
<1>2. CASE ShapeBlocked
  BY <1>2 DEF ShapeBlocked, BlockAll, Leave
<1>3. CASE ResetLeases
  BY <1>3 DEF ResetLeases, BlockAll, Leave
<1>4. CASE ParentReady
  BY <1>4 DEF ParentReady, BlockAll, Leave
<1>5. CASE NetworkUp
  BY <1>5 DEF NetworkUp, NetworkUpOK, NetworkUpFails, Leave
<1>6. CASE StaticRow
  BY <1>6 DEF StaticRow, Leave
<1>7. CASE NextScenario
  BY <1>7 DEF NextScenario, NeedsIsolation
<1>8. CASE AllRun
  BY <1>8 DEF AllRun, Leave
<1>9. CASE Isolate
  BY <1>9 DEF Isolate, Isolated, NetworkUpOK, NetworkUpFails, Leave
<1>10. CASE IsolateWait
  BY <1>10 DEF IsolateWait, Isolated, Leave
<1>11. CASE InspectPlugin
  BY <1>11 DEF InspectPlugin, GateError
<1>12. CASE PollPlugin
  BY <1>12 DEF PollPlugin, GatePasses, TakeNote, GateError
<1>13. CASE EnablePlugin
  BY <1>13 DEF EnablePlugin, GateError
<1>14. CASE PowerCycle
  BY <1>14 DEF PowerCycle, MayReset, Rebooted
<1>15. CASE ScenarioBlocked
  BY <1>15 DEF ScenarioBlocked, TakeNote
<1>16. CASE EnsureBridge
  <2>1. named' \in {named, named \cup {i}}
    BY <1>16 DEF EnsureBridge, NetworkUpOK, NetworkUpFails, Verdict
  <2>2. /\ UNCHANGED <<i, ran, recovery, lastUsed, behind, faults>>
        /\ polls' \in 0..ReadyTries
    BY <1>16 DEF EnsureBridge, NetworkUpOK, NetworkUpFails, Verdict
  <2> QED
    BY <1>16, <2>1, <2>2 DEF EnsureBridge
<1>17. CASE Applicable
  <2>1. named' \in {named, named \cup {i}}
    BY <1>17 DEF Applicable, Verdict
  <2>2. /\ UNCHANGED <<i, ran, recovery, lastUsed, behind, faults>>
        /\ polls' \in 0..ReadyTries
    BY <1>17 DEF Applicable, Verdict
  <2> QED
    BY <1>17, <2>1, <2>2 DEF Applicable
<1>18. CASE SourceReady
  BY <1>18 DEF SourceReady
<1>19. CASE RecoverSource
  <2>1. named' \in {named, named \cup {i}}
    BY <1>19 DEF RecoverSource, Verdict
  <2>2. /\ UNCHANGED <<i, ran, recovery, lastUsed, behind, faults>>
        /\ polls' \in 0..ReadyTries
    BY <1>19 DEF RecoverSource, Verdict
  <2> QED
    BY <1>19, <2>1, <2>2 DEF RecoverSource
<1>20. CASE PollSource
  <2>1. named' \in {named, named \cup {i}}
    BY <1>20 DEF PollSource, Verdict
  <2>2. /\ UNCHANGED <<i, ran, recovery, lastUsed, behind, faults>>
        /\ polls' \in 0..ReadyTries
    BY <1>20 DEF PollSource, Verdict
  <2> QED
    BY <1>20, <2>1, <2>2 DEF PollSource
<1>21. ASSUME NEW v \in Written, Body(v) PROVE CountsOK'
  BY <1>21 DEF Body, Verdict
<1>22. CASE WriteVerdict
  BY <1>22 DEF WriteVerdict, Leave
<1>23. CASE NetworkDown
  BY <1>23 DEF NetworkDown
<1>24. CASE Fault
  BY <1>24 DEF Fault
<1>25. CASE Heal
  BY <1>25 DEF Heal
<1>26. CASE UNCHANGED vars
  BY <1>26 DEF vars
<1> QED
  BY <1>1, <1>2, <1>3, <1>4, <1>5, <1>6, <1>7, <1>8, <1>9, <1>10, <1>11, <1>12,
     <1>13, <1>14, <1>15, <1>16, <1>17, <1>18, <1>19, <1>20, <1>21, <1>22,
     <1>23, <1>24, <1>25, <1>26
     DEF Next, Labctl, Finished

\* The program counter, the rows and the parts of the cell stay in their sets.
LEMMA ValuesStep == TypeOK /\ LoopInv /\ [Next]_vars => ValuesOK'
<1> SUFFICES ASSUME TypeOK, LoopInv, [Next]_vars PROVE ValuesOK'
  OBVIOUS
<1> USE RunAssumption DEF gate, recovery, loop, report, network, cell, history,
           TypeOK, FlagsOK, CountsOK, ValuesOK, Results, Written, NoRow,
           Running, Selected, LoopInv, BeforeLoop, InRunOne, Steps
<1>1. CASE WaitPluginReady
  BY <1>1 DEF WaitPluginReady
<1>2. CASE ShapeBlocked
  BY <1>2 DEF ShapeBlocked, BlockAll, Leave
<1>3. CASE ResetLeases
  BY <1>3 DEF ResetLeases, BlockAll, Leave
<1>4. CASE ParentReady
  BY <1>4 DEF ParentReady, BlockAll, Leave
<1>5. CASE NetworkUp
  BY <1>5 DEF NetworkUp, NetworkUpOK, NetworkUpFails, Leave
<1>6. CASE StaticRow
  BY <1>6 DEF StaticRow, Leave
<1>7. CASE NextScenario
  BY <1>7 DEF NextScenario, NeedsIsolation
<1>8. CASE AllRun
  BY <1>8 DEF AllRun, Leave
<1>9. CASE Isolate
  BY <1>9 DEF Isolate, Isolated, NetworkUpOK, NetworkUpFails, Leave
<1>10. CASE IsolateWait
  BY <1>10 DEF IsolateWait, Isolated, Leave
<1>11. CASE InspectPlugin
  BY <1>11 DEF InspectPlugin, GateError
<1>12. CASE PollPlugin
  BY <1>12 DEF PollPlugin, GatePasses, TakeNote, GateError
<1>13. CASE EnablePlugin
  BY <1>13 DEF EnablePlugin, GateError
<1>14. CASE PowerCycle
  BY <1>14 DEF PowerCycle, MayReset, Rebooted
<1>15. CASE ScenarioBlocked
  BY <1>15 DEF ScenarioBlocked, TakeNote
<1>16. CASE EnsureBridge
  BY <1>16 DEF EnsureBridge, NetworkUpOK, NetworkUpFails, Verdict
<1>17. CASE Applicable
  BY <1>17 DEF Applicable, Verdict
<1>18. CASE SourceReady
  BY <1>18 DEF SourceReady
<1>19. CASE RecoverSource
  BY <1>19 DEF RecoverSource, Verdict
<1>20. CASE PollSource
  BY <1>20 DEF PollSource, Verdict
<1>21. ASSUME NEW v \in Written, Body(v) PROVE ValuesOK'
  BY <1>21 DEF Body, Verdict
<1>22. CASE WriteVerdict
  BY <1>22 DEF WriteVerdict, Leave
<1>23. CASE NetworkDown
  BY <1>23 DEF NetworkDown
<1>24. CASE Fault
  BY <1>24 DEF Fault
<1>25. CASE Heal
  BY <1>25 DEF Heal
<1>26. CASE UNCHANGED vars
  BY <1>26 DEF vars
<1> QED
  BY <1>1, <1>2, <1>3, <1>4, <1>5, <1>6, <1>7, <1>8, <1>9, <1>10, <1>11, <1>12,
     <1>13, <1>14, <1>15, <1>16, <1>17, <1>18, <1>19, <1>20, <1>21, <1>22,
     <1>23, <1>24, <1>25, <1>26
     DEF Next, Labctl, Finished

\* The loop's place in the list.
LEMMA LoopStep == TypeOK /\ LoopInv /\ [Next]_vars => LoopInv'
<1> SUFFICES ASSUME TypeOK, LoopInv, [Next]_vars PROVE LoopInv'
  OBVIOUS
<1> USE RunAssumption DEF gate, recovery, loop, report, network, cell, history,
           TypeOK, FlagsOK, CountsOK, ValuesOK, Results, Written, NoRow,
           Running, Selected, LoopInv, BeforeLoop, InRunOne, AfterGate, Left
<1>1. CASE WaitPluginReady
  BY <1>1 DEF WaitPluginReady
<1>2. CASE ShapeBlocked
  BY <1>2 DEF ShapeBlocked, BlockAll, Leave
<1>3. CASE ResetLeases
  BY <1>3 DEF ResetLeases, BlockAll, Leave
<1>4. CASE ParentReady
  BY <1>4 DEF ParentReady, BlockAll, Leave
<1>5. CASE NetworkUp
  BY <1>5 DEF NetworkUp, NetworkUpOK, NetworkUpFails, Leave
<1>6. CASE StaticRow
  BY <1>6 DEF StaticRow, Leave
<1>7. CASE NextScenario
  BY <1>7 DEF NextScenario, NeedsIsolation
<1>8. CASE AllRun
  BY <1>8 DEF AllRun, Leave
<1>9. CASE Isolate
  BY <1>9 DEF Isolate, Isolated, NetworkUpOK, NetworkUpFails, Leave
<1>10. CASE IsolateWait
  BY <1>10 DEF IsolateWait, Isolated, Leave
<1>11. CASE InspectPlugin
  BY <1>11 DEF InspectPlugin, GateError
<1>12. CASE PollPlugin
  BY <1>12 DEF PollPlugin, GatePasses, TakeNote, GateError
<1>13. CASE EnablePlugin
  BY <1>13 DEF EnablePlugin, GateError
<1>14. CASE PowerCycle
  BY <1>14 DEF PowerCycle, MayReset, Rebooted
<1>15. CASE ScenarioBlocked
  BY <1>15 DEF ScenarioBlocked, TakeNote
<1>16. CASE EnsureBridge
  BY <1>16 DEF EnsureBridge, NetworkUpOK, NetworkUpFails, Verdict
<1>17. CASE Applicable
  BY <1>17 DEF Applicable, Verdict
<1>18. CASE SourceReady
  BY <1>18 DEF SourceReady
<1>19. CASE RecoverSource
  BY <1>19 DEF RecoverSource, Verdict
<1>20. CASE PollSource
  BY <1>20 DEF PollSource, Verdict
<1>21. ASSUME NEW v \in Written, Body(v) PROVE LoopInv'
  BY <1>21 DEF Body, Verdict
<1>22. CASE WriteVerdict
  BY <1>22 DEF WriteVerdict, Leave
<1>23. CASE NetworkDown
  BY <1>23 DEF NetworkDown
<1>24. CASE Fault
  BY <1>24 DEF Fault
<1>25. CASE Heal
  BY <1>25 DEF Heal
<1>26. CASE UNCHANGED vars
  BY <1>26 DEF vars
<1> QED
  BY <1>1, <1>2, <1>3, <1>4, <1>5, <1>6, <1>7, <1>8, <1>9, <1>10, <1>11, <1>12,
     <1>13, <1>14, <1>15, <1>16, <1>17, <1>18, <1>19, <1>20, <1>21, <1>22,
     <1>23, <1>24, <1>25, <1>26
     DEF Next, Labctl, Finished

\* The rows of the scenarios the loop has passed.
LEMMA StatusStep == TypeOK /\ LoopInv /\ StatusInv /\ [Next]_vars => StatusInv'
<1> SUFFICES ASSUME TypeOK, LoopInv, StatusInv, [Next]_vars PROVE StatusInv'
  OBVIOUS
<1> USE RunAssumption DEF gate, recovery, loop, report, network, cell, history,
           TypeOK, FlagsOK, CountsOK, ValuesOK, Results, Written, NoRow,
           Running, Selected, LoopInv, StatusInv, StatusAnswers, BeforeLoop,
           InRunOne, AfterGate, Left
<1>1. CASE WaitPluginReady
  BY <1>1 DEF WaitPluginReady
<1>2. CASE ShapeBlocked
  BY <1>2 DEF ShapeBlocked, BlockAll, Leave
<1>3. CASE ResetLeases
  BY <1>3 DEF ResetLeases, BlockAll, Leave
<1>4. CASE ParentReady
  BY <1>4 DEF ParentReady, BlockAll, Leave
<1>5. CASE NetworkUp
  BY <1>5 DEF NetworkUp, NetworkUpOK, NetworkUpFails, Leave
<1>6. CASE StaticRow
  BY <1>6 DEF StaticRow, Leave
<1>7. CASE NextScenario
  BY <1>7 DEF NextScenario, NeedsIsolation
<1>8. CASE AllRun
  BY <1>8 DEF AllRun, Leave
<1>9. CASE Isolate
  BY <1>9 DEF Isolate, Isolated, NetworkUpOK, NetworkUpFails, Leave
<1>10. CASE IsolateWait
  BY <1>10 DEF IsolateWait, Isolated, Leave
<1>11. CASE InspectPlugin
  BY <1>11 DEF InspectPlugin, GateError
<1>12. CASE PollPlugin
  BY <1>12 DEF PollPlugin, GatePasses, TakeNote, GateError
<1>13. CASE EnablePlugin
  BY <1>13 DEF EnablePlugin, GateError
<1>14. CASE PowerCycle
  BY <1>14 DEF PowerCycle, MayReset, Rebooted
<1>15. CASE ScenarioBlocked
  BY <1>15 DEF ScenarioBlocked, TakeNote
<1>16. CASE EnsureBridge
  BY <1>16 DEF EnsureBridge, NetworkUpOK, NetworkUpFails, Verdict
<1>17. CASE Applicable
  BY <1>17 DEF Applicable, Verdict
<1>18. CASE SourceReady
  BY <1>18 DEF SourceReady
<1>19. CASE RecoverSource
  BY <1>19 DEF RecoverSource, Verdict
<1>20. CASE PollSource
  BY <1>20 DEF PollSource, Verdict
<1>21. ASSUME NEW v \in Written, Body(v) PROVE StatusInv'
  BY <1>21 DEF Body, Verdict
<1>22. CASE WriteVerdict
  BY <1>22 DEF WriteVerdict, Leave
<1>23. CASE NetworkDown
  BY <1>23 DEF NetworkDown
<1>24. CASE Fault
  BY <1>24 DEF Fault
<1>25. CASE Heal
  BY <1>25 DEF Heal
<1>26. CASE UNCHANGED vars
  BY <1>26 DEF vars
<1> QED
  BY <1>1, <1>2, <1>3, <1>4, <1>5, <1>6, <1>7, <1>8, <1>9, <1>10, <1>11, <1>12,
     <1>13, <1>14, <1>15, <1>16, <1>17, <1>18, <1>19, <1>20, <1>21, <1>22,
     <1>23, <1>24, <1>25, <1>26
     DEF Next, Labctl, Finished

\* The identity hold.
LEMMA IdentityStep ==
    TypeOK /\ LoopInv /\ IdentityInv /\ [Next]_vars => IdentityInv'
<1> SUFFICES ASSUME TypeOK, LoopInv, IdentityInv, [Next]_vars PROVE IdentityInv'
  OBVIOUS
<1> USE RunAssumption DEF gate, recovery, loop, report, network, cell, history,
           TypeOK, FlagsOK, CountsOK, ValuesOK, Results, Written, NoRow,
           Running, Selected, LoopInv, IdentityInv, BeforeLoop, InRunOne,
           AfterGate, Left
<1>1. CASE WaitPluginReady
  BY <1>1 DEF WaitPluginReady
<1>2. CASE ShapeBlocked
  BY <1>2 DEF ShapeBlocked, BlockAll, Leave
<1>3. CASE ResetLeases
  BY <1>3 DEF ResetLeases, BlockAll, Leave
<1>4. CASE ParentReady
  BY <1>4 DEF ParentReady, BlockAll, Leave
<1>5. CASE NetworkUp
  BY <1>5 DEF NetworkUp, NetworkUpOK, NetworkUpFails, Leave
<1>6. CASE StaticRow
  BY <1>6 DEF StaticRow, Leave
<1>7. CASE NextScenario
  BY <1>7 DEF NextScenario, NeedsIsolation
<1>8. CASE AllRun
  BY <1>8 DEF AllRun, Leave
<1>9. CASE Isolate
  BY <1>9 DEF Isolate, Isolated, NetworkUpOK, NetworkUpFails, Leave
<1>10. CASE IsolateWait
  BY <1>10 DEF IsolateWait, Isolated, Leave
<1>11. CASE InspectPlugin
  BY <1>11 DEF InspectPlugin, GateError
<1>12. CASE PollPlugin
  BY <1>12 DEF PollPlugin, GatePasses, TakeNote, GateError
<1>13. CASE EnablePlugin
  BY <1>13 DEF EnablePlugin, GateError
<1>14. CASE PowerCycle
  BY <1>14 DEF PowerCycle, MayReset, Rebooted
<1>15. CASE ScenarioBlocked
  BY <1>15 DEF ScenarioBlocked, TakeNote
<1>16. CASE EnsureBridge
  BY <1>16 DEF EnsureBridge, NetworkUpOK, NetworkUpFails, Verdict
<1>17. CASE Applicable
  BY <1>17 DEF Applicable, Verdict
<1>18. CASE SourceReady
  BY <1>18 DEF SourceReady
<1>19. CASE RecoverSource
  BY <1>19 DEF RecoverSource, Verdict
<1>20. CASE PollSource
  BY <1>20 DEF PollSource, Verdict
<1>21. ASSUME NEW v \in Written, Body(v) PROVE IdentityInv'
  BY <1>21 DEF Body, Verdict
<1>22. CASE WriteVerdict
  BY <1>22 DEF WriteVerdict, Leave
<1>23. CASE NetworkDown
  BY <1>23 DEF NetworkDown
<1>24. CASE Fault
  BY <1>24 DEF Fault
<1>25. CASE Heal
  BY <1>25 DEF Heal
<1>26. CASE UNCHANGED vars
  BY <1>26 DEF vars
<1> QED
  BY <1>1, <1>2, <1>3, <1>4, <1>5, <1>6, <1>7, <1>8, <1>9, <1>10, <1>11, <1>12,
     <1>13, <1>14, <1>15, <1>16, <1>17, <1>18, <1>19, <1>20, <1>21, <1>22,
     <1>23, <1>24, <1>25, <1>26
     DEF Next, Labctl, Finished

\* What the gates establish.
LEMMA GatesStep == TypeOK /\ GatesInv /\ [Next]_vars => GatesInv'
<1> SUFFICES ASSUME TypeOK, GatesInv, [Next]_vars PROVE GatesInv'
  OBVIOUS
<1> USE RunAssumption DEF gate, recovery, loop, report, network, cell, history,
           TypeOK, FlagsOK, CountsOK, ValuesOK, Results, Written, NoRow,
           Running, Selected, GatesInv
<1>1. CASE WaitPluginReady
  BY <1>1 DEF WaitPluginReady
<1>2. CASE ShapeBlocked
  BY <1>2 DEF ShapeBlocked, BlockAll, Leave
<1>3. CASE ResetLeases
  BY <1>3 DEF ResetLeases, BlockAll, Leave
<1>4. CASE ParentReady
  BY <1>4 DEF ParentReady, BlockAll, Leave
<1>5. CASE NetworkUp
  BY <1>5 DEF NetworkUp, NetworkUpOK, NetworkUpFails, Leave
<1>6. CASE StaticRow
  BY <1>6 DEF StaticRow, Leave
<1>7. CASE NextScenario
  BY <1>7 DEF NextScenario, NeedsIsolation
<1>8. CASE AllRun
  BY <1>8 DEF AllRun, Leave
<1>9. CASE Isolate
  BY <1>9 DEF Isolate, Isolated, NetworkUpOK, NetworkUpFails, Leave
<1>10. CASE IsolateWait
  BY <1>10 DEF IsolateWait, Isolated, Leave
<1>11. CASE InspectPlugin
  BY <1>11 DEF InspectPlugin, GateError
<1>12. CASE PollPlugin
  BY <1>12 DEF PollPlugin, GatePasses, TakeNote, GateError
<1>13. CASE EnablePlugin
  BY <1>13 DEF EnablePlugin, GateError
<1>14. CASE PowerCycle
  BY <1>14 DEF PowerCycle, MayReset, Rebooted
<1>15. CASE ScenarioBlocked
  BY <1>15 DEF ScenarioBlocked, TakeNote
<1>16. CASE EnsureBridge
  BY <1>16 DEF EnsureBridge, NetworkUpOK, NetworkUpFails, Verdict
<1>17. CASE Applicable
  BY <1>17 DEF Applicable, Verdict
<1>18. CASE SourceReady
  BY <1>18 DEF SourceReady
<1>19. CASE RecoverSource
  BY <1>19 DEF RecoverSource, Verdict
<1>20. CASE PollSource
  BY <1>20 DEF PollSource, Verdict
<1>21. ASSUME NEW v \in Written, Body(v) PROVE GatesInv'
  BY <1>21 DEF Body, Verdict
<1>22. CASE WriteVerdict
  BY <1>22 DEF WriteVerdict, Leave
<1>23. CASE NetworkDown
  BY <1>23 DEF NetworkDown
<1>24. CASE Fault
  BY <1>24 DEF Fault
<1>25. CASE Heal
  BY <1>25 DEF Heal
<1>26. CASE UNCHANGED vars
  BY <1>26 DEF vars
<1> QED
  BY <1>1, <1>2, <1>3, <1>4, <1>5, <1>6, <1>7, <1>8, <1>9, <1>10, <1>11, <1>12,
     <1>13, <1>14, <1>15, <1>16, <1>17, <1>18, <1>19, <1>20, <1>21, <1>22,
     <1>23, <1>24, <1>25, <1>26
     DEF Next, Labctl, Finished

\* A verdict names the reset in the scenario at hand, and is then not PASS.
LEMMA VerdictNames ==
    ASSUME TypeOK, NamedInv, i \in Selected, NEW v \in Written, Verdict(v),
           UNCHANGED <<i, rows>>, pc \in AfterGate \ {"write"}
    PROVE  NamedInv'
<1>1. i \notin named /\ rows[i] # "PASS" /\ i <= i
  BY RunAssumption DEF NamedInv, TypeOK, CountsOK, Selected, AfterGate, Left
<1>2. pc' = "write"
  BY DEF Verdict
<1>3. CASE hostNote
  <2>1. named' = named \cup {i} /\ result' # "PASS"
    BY <1>3 DEF Verdict
  <2> QED
    BY <1>1, <1>2, <2>1 DEF NamedInv
<1>4. CASE ~hostNote
  <2>1. named' = named
    BY <1>4 DEF Verdict
  <2> QED
    BY <1>1, <1>2, <2>1 DEF NamedInv
<1> QED
  BY <1>3, <1>4

\* The note of a reset.
LEMMA NoteStep == TypeOK /\ LoopInv /\ NoteInv /\ [Next]_vars => NoteInv'
<1> SUFFICES ASSUME TypeOK, LoopInv, NoteInv, [Next]_vars PROVE NoteInv'
  OBVIOUS
<1> USE RunAssumption DEF gate, recovery, loop, report, network, cell, history,
           TypeOK, FlagsOK, CountsOK, ValuesOK, Results, Written, NoRow,
           Running, Selected, LoopInv, NoteInv, BeforeLoop, InRunOne,
           AfterGate, Left
<1>1. CASE WaitPluginReady
  BY <1>1 DEF WaitPluginReady
<1>2. CASE ShapeBlocked
  BY <1>2 DEF ShapeBlocked, BlockAll, Leave
<1>3. CASE ResetLeases
  BY <1>3 DEF ResetLeases, BlockAll, Leave
<1>4. CASE ParentReady
  BY <1>4 DEF ParentReady, BlockAll, Leave
<1>5. CASE NetworkUp
  BY <1>5 DEF NetworkUp, NetworkUpOK, NetworkUpFails, Leave
<1>6. CASE StaticRow
  BY <1>6 DEF StaticRow, Leave
<1>7. CASE NextScenario
  BY <1>7 DEF NextScenario, NeedsIsolation
<1>8. CASE AllRun
  BY <1>8 DEF AllRun, Leave
<1>9. CASE Isolate
  BY <1>9 DEF Isolate, Isolated, NetworkUpOK, NetworkUpFails, Leave
<1>10. CASE IsolateWait
  BY <1>10 DEF IsolateWait, Isolated, Leave
<1>11. CASE InspectPlugin
  BY <1>11 DEF InspectPlugin, GateError
<1>12. CASE PollPlugin
  BY <1>12 DEF PollPlugin, GatePasses, TakeNote, GateError
<1>13. CASE EnablePlugin
  BY <1>13 DEF EnablePlugin, GateError
<1>14. CASE PowerCycle
  BY <1>14 DEF PowerCycle, MayReset, Rebooted
<1>15. CASE ScenarioBlocked
  BY <1>15 DEF ScenarioBlocked, TakeNote
<1>16. CASE EnsureBridge
  BY <1>16 DEF EnsureBridge, NetworkUpOK, NetworkUpFails, Verdict
<1>17. CASE Applicable
  BY <1>17 DEF Applicable, Verdict
<1>18. CASE SourceReady
  BY <1>18 DEF SourceReady
<1>19. CASE RecoverSource
  BY <1>19 DEF RecoverSource, Verdict
<1>20. CASE PollSource
  BY <1>20 DEF PollSource, Verdict
<1>21. ASSUME NEW v \in Written, Body(v) PROVE NoteInv'
  BY <1>21 DEF Body, Verdict
<1>22. CASE WriteVerdict
  BY <1>22 DEF WriteVerdict, Leave
<1>23. CASE NetworkDown
  BY <1>23 DEF NetworkDown
<1>24. CASE Fault
  BY <1>24 DEF Fault
<1>25. CASE Heal
  BY <1>25 DEF Heal
<1>26. CASE UNCHANGED vars
  BY <1>26 DEF vars
<1> QED
  BY <1>1, <1>2, <1>3, <1>4, <1>5, <1>6, <1>7, <1>8, <1>9, <1>10, <1>11, <1>12,
     <1>13, <1>14, <1>15, <1>16, <1>17, <1>18, <1>19, <1>20, <1>21, <1>22,
     <1>23, <1>24, <1>25, <1>26
     DEF Next, Labctl, Finished

\* The rows that name a reset.
LEMMA NamedStep ==
    TypeOK /\ LoopInv /\ NoteInv /\ NamedInv /\ [Next]_vars => NamedInv'
<1> SUFFICES ASSUME TypeOK, LoopInv, NoteInv, NamedInv, [Next]_vars
             PROVE  NamedInv'
  OBVIOUS
<1> USE RunAssumption DEF gate, recovery, loop, report, network, cell, history,
           TypeOK, FlagsOK, CountsOK, ValuesOK, Results, Written, NoRow,
           Running, Selected, LoopInv, NoteInv, NamedInv, BeforeLoop, InRunOne,
           AfterGate, Left
<1>1. CASE WaitPluginReady
  BY <1>1 DEF WaitPluginReady
<1>2. CASE ShapeBlocked
  BY <1>2 DEF ShapeBlocked, BlockAll, Leave
<1>3. CASE ResetLeases
  BY <1>3 DEF ResetLeases, BlockAll, Leave
<1>4. CASE ParentReady
  BY <1>4 DEF ParentReady, BlockAll, Leave
<1>5. CASE NetworkUp
  BY <1>5 DEF NetworkUp, NetworkUpOK, NetworkUpFails, Leave
<1>6. CASE StaticRow
  BY <1>6 DEF StaticRow, Leave
<1>7. CASE NextScenario
  BY <1>7 DEF NextScenario, NeedsIsolation
<1>8. CASE AllRun
  BY <1>8 DEF AllRun, Leave
<1>9. CASE Isolate
  BY <1>9 DEF Isolate, Isolated, NetworkUpOK, NetworkUpFails, Leave
<1>10. CASE IsolateWait
  BY <1>10 DEF IsolateWait, Isolated, Leave
<1>11. CASE InspectPlugin
  BY <1>11 DEF InspectPlugin, GateError
<1>12. CASE PollPlugin
  BY <1>12 DEF PollPlugin, GatePasses, TakeNote, GateError
<1>13. CASE EnablePlugin
  BY <1>13 DEF EnablePlugin, GateError
<1>14. CASE PowerCycle
  BY <1>14 DEF PowerCycle, MayReset, Rebooted
<1>15. CASE ScenarioBlocked
  BY <1>15 DEF ScenarioBlocked, TakeNote
<1>16. CASE EnsureBridge
  <2>1. /\ UNCHANGED <<i, rows>>
        /\ pc \in AfterGate \ {"write"}
        /\ \/ UNCHANGED named /\ pc' # "write"
           \/ \E v \in Written : Verdict(v)
    BY <1>16 DEF EnsureBridge, NetworkUpOK, NetworkUpFails
  <2>2. CASE \E v \in Written : Verdict(v)
    BY <2>1, <2>2, VerdictNames
  <2>3. CASE UNCHANGED named /\ pc' # "write"
    BY <2>1, <2>3
  <2> QED
    BY <2>1, <2>2, <2>3
<1>17. CASE Applicable
  <2>1. /\ UNCHANGED <<i, rows>>
        /\ pc \in AfterGate \ {"write"}
        /\ \/ UNCHANGED named /\ pc' # "write"
           \/ \E v \in Written : Verdict(v)
    BY <1>17 DEF Applicable
  <2>2. CASE \E v \in Written : Verdict(v)
    BY <2>1, <2>2, VerdictNames
  <2>3. CASE UNCHANGED named /\ pc' # "write"
    BY <2>1, <2>3
  <2> QED
    BY <2>1, <2>2, <2>3
<1>18. CASE SourceReady
  BY <1>18 DEF SourceReady
<1>19. CASE RecoverSource
  <2>1. /\ UNCHANGED <<i, rows>>
        /\ pc \in AfterGate \ {"write"}
        /\ \/ UNCHANGED named /\ pc' # "write"
           \/ \E v \in Written : Verdict(v)
    BY <1>19 DEF RecoverSource
  <2>2. CASE \E v \in Written : Verdict(v)
    BY <2>1, <2>2, VerdictNames
  <2>3. CASE UNCHANGED named /\ pc' # "write"
    BY <2>1, <2>3
  <2> QED
    BY <2>1, <2>2, <2>3
<1>20. CASE PollSource
  <2>1. /\ UNCHANGED <<i, rows>>
        /\ pc \in AfterGate \ {"write"}
        /\ \/ UNCHANGED named /\ pc' # "write"
           \/ \E v \in Written : Verdict(v)
    BY <1>20 DEF PollSource
  <2>2. CASE \E v \in Written : Verdict(v)
    BY <2>1, <2>2, VerdictNames
  <2>3. CASE UNCHANGED named /\ pc' # "write"
    BY <2>1, <2>3
  <2> QED
    BY <2>1, <2>2, <2>3
<1>21. ASSUME NEW v \in Written, Body(v) PROVE NamedInv'
  BY <1>21 DEF Body, Verdict
<1>22. CASE WriteVerdict
  BY <1>22 DEF WriteVerdict, Leave
<1>23. CASE NetworkDown
  BY <1>23 DEF NetworkDown
<1>24. CASE Fault
  BY <1>24 DEF Fault
<1>25. CASE Heal
  BY <1>25 DEF Heal
<1>26. CASE UNCHANGED vars
  BY <1>26 DEF vars
<1> QED
  BY <1>1, <1>2, <1>3, <1>4, <1>5, <1>6, <1>7, <1>8, <1>9, <1>10, <1>11, <1>12,
     <1>13, <1>14, <1>15, <1>16, <1>17, <1>18, <1>19, <1>20, <1>21, <1>22,
     <1>23, <1>24, <1>25, <1>26
     DEF Next, Labctl, Finished

-----------------------------------------------------------------------------
\* The inductive invariant holds at first.
LEMMA InvInit == Init => IInv
<1> SUFFICES ASSUME Init PROVE IInv
  OBVIOUS
<1>1. TypeOK
  BY TypeInit
<1>2. NamedInv /\ NoteInv
  BY RunAssumption DEF Init, NamedInv, NoteInv, Selected, NoRow
<1>3. LoopInv /\ StatusInv
  BY RunAssumption
     DEF Init, LoopInv, StatusInv, StatusAnswers, BeforeLoop, InRunOne, Left,
         Running, NoRow, Selected
<1>4. IdentityInv /\ GatesInv
  BY DEF Init, IdentityInv, GatesInv
<1> QED
  BY <1>1, <1>2, <1>3, <1>4 DEF IInv

\* Every step keeps it.
LEMMA InvStep == IInv /\ [Next]_vars => IInv'
  BY FlagsStep, CountsStep, ValuesStep, LoopStep, StatusStep, IdentityStep,
     GatesStep, NoteStep, NamedStep
     DEF IInv, TypeOK

\* Whatever the scenarios, budgets and faults, the variables keep their
\* types: HostRecovery never resets more often than Max.
THEOREM RunTypeCorrect == Spec => []TypeOK
<1>1. IInv => TypeOK
  BY DEF IInv
<1> QED
  BY InvInit, InvStep, <1>1, PTL DEF Spec

\* labctl run's exit status answers for the rows it leaves behind.
THEOREM StatusAnswersHolds == Spec => []StatusAnswers
<1>1. IInv => StatusAnswers
  BY DEF IInv, StatusInv
<1> QED
  BY InvInit, InvStep, <1>1, PTL DEF Spec

\* The isolation of the IPAM shapes never lets an identity through to the
\* next body.
THEOREM NoInheritedIdentityHolds == Spec => []NoInheritedIdentity
<1>1. IInv => NoInheritedIdentity
  BY DEF IInv, IdentityInv, NoInheritedIdentity, Left
<1> QED
  BY InvInit, InvStep, <1>1, PTL DEF Spec

\* The gates in front of a body leave it nothing of what earlier bodies did
\* to the host, the plugin, the bridge or the source.
THEOREM StartsCleanHolds == Spec => []StartsClean
<1>1. IInv => StartsClean
  BY DEF IInv, GatesInv, StartsClean
<1> QED
  BY InvInit, InvStep, <1>1, PTL DEF Spec

\* A reset the host came back from is named in a row that is not PASS.
THEOREM ResetShowsHolds == Spec => []ResetShows
<1>1. IInv => ResetShows
  BY RunAssumption
     DEF IInv, StatusInv, NoteInv, NamedInv, ResetShows, AfterGate, Left,
         Running
<1> QED
  BY InvInit, InvStep, <1>1, PTL DEF Spec

-----------------------------------------------------------------------------
(* The network of a shape's bodies.  BodyHasNetwork alone says nothing of the *)
(* row behind which a rebuild of the bridge left none, nor of the isolation   *)
(* that makes it good.                                                        *)

\* The shapes of which it is claimed: every IPAM shape, and every shape without
\* a bridge, whose network nothing between two bodies touches.
NetworkSeen == Isolating \/ ~Bridged

\* Only an isolation, or a failed rebuild with an isolation to come, is without.
NetInv ==
    /\ pc \in InRunOne \ {"write"} => net
    /\ pc \in {"next", "write"} => net \/ (Isolating /\ ran > 0)

LEMMA NetStep == NetworkSeen /\ TypeOK /\ LoopInv /\ NetInv /\ [Next]_vars => NetInv'
<1> SUFFICES ASSUME NetworkSeen, TypeOK, LoopInv, NetInv, [Next]_vars PROVE NetInv'
  OBVIOUS
<1> USE RunAssumption DEF gate, recovery, loop, report, network, cell, history,
           TypeOK, FlagsOK, CountsOK, ValuesOK, LoopInv, NetInv, BeforeLoop, InRunOne, NetworkSeen
<1>1. CASE WaitPluginReady \/ ShapeBlocked \/ ResetLeases \/ ParentReady
  BY <1>1 DEF WaitPluginReady, ShapeBlocked, ResetLeases, ParentReady, BlockAll, Leave
<1>2. CASE NetworkUp
  BY <1>2 DEF NetworkUp, NetworkUpOK, NetworkUpFails, Leave
<1>3. CASE StaticRow \/ AllRun
  BY <1>3 DEF StaticRow, AllRun, Leave
<1>4. CASE NextScenario
  BY <1>4 DEF NextScenario, NeedsIsolation
<1>5. CASE Isolate
  BY <1>5 DEF Isolate, Isolated, NetworkUpOK, NetworkUpFails, Leave
<1>6. CASE IsolateWait
  BY <1>6 DEF IsolateWait, Isolated, Leave
<1>7. CASE InspectPlugin
  BY <1>7 DEF InspectPlugin, GateError
<1>8. CASE PollPlugin
  BY <1>8 DEF PollPlugin, GatePasses, TakeNote, GateError
<1>9. CASE EnablePlugin
  BY <1>9 DEF EnablePlugin, GateError
<1>10. CASE PowerCycle
  BY <1>10 DEF PowerCycle, MayReset, Rebooted
<1>11. CASE ScenarioBlocked
  BY <1>11 DEF ScenarioBlocked, TakeNote
<1>12. CASE EnsureBridge
  <2>0. pc = "bridge" /\ ran' = ran
    BY <1>12 DEF EnsureBridge
  <2>1. net /\ ran > 0
    BY <2>0
  <2>3. pc' \in {"applicable", "write"}
    BY <1>12, Zenon DEF EnsureBridge, Verdict
  <2>2. \/ net' = net
        \/ net' = TRUE
        \/ Bridged /\ pc' = "write"
    BY <1>12, Zenon DEF EnsureBridge, NetworkUpOK, Verdict
  <2> QED
    BY <2>0, <2>1, <2>2, <2>3
<1>13. CASE Applicable
  BY <1>13 DEF Applicable, Verdict
<1>14. CASE SourceReady
  BY <1>14 DEF SourceReady
<1>15. CASE RecoverSource
  BY <1>15 DEF RecoverSource, Verdict
<1>16. CASE PollSource
  BY <1>16 DEF PollSource, Verdict
<1>17. ASSUME NEW v \in Written, Body(v) PROVE NetInv'
  BY <1>17 DEF Body, Verdict
<1>18. CASE WriteVerdict
  BY <1>18 DEF WriteVerdict, Leave
<1>19. CASE NetworkDown
  BY <1>19 DEF NetworkDown
<1>20. CASE Fault
  BY <1>20 DEF Fault
<1>21. CASE Heal
  BY <1>21 DEF Heal
<1>22. CASE UNCHANGED vars
  BY <1>22 DEF vars
<1> QED
  BY <1>1, <1>2, <1>3, <1>4, <1>5, <1>6, <1>7, <1>8, <1>9, <1>10, <1>11, <1>12,
     <1>13, <1>14, <1>15, <1>16, <1>17, <1>18, <1>19, <1>20, <1>21, <1>22
     DEF Next, Labctl, Finished

\* No body of an IPAM shape, nor of a shape without a bridge, starts without its
\* network, whatever failed between it and the body before.
THEOREM BodyHasNetworkHolds == NetworkSeen => (Spec => []BodyHasNetwork)
<1> SUFFICES ASSUME NetworkSeen PROVE Spec => []BodyHasNetwork
  OBVIOUS
<1>1. Init => IInv /\ NetInv
  BY InvInit DEF Init, NetInv, InRunOne
<1>2. IInv /\ NetInv /\ [Next]_vars => (IInv /\ NetInv)'
  BY InvStep, NetStep DEF IInv
<1>3. NetInv => BodyHasNetwork
  BY DEF NetInv, BodyHasNetwork, InRunOne
<1> QED
  BY <1>1, <1>2, <1>3, PTL DEF Spec
=============================================================================
