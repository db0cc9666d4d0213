------------------------- MODULE SegmentNetProofs -------------------------
(* What the parent shapes rely on, for any order of shapes and any number of *)
(* bodies and lost commands: their network is created on a NIC that nothing  *)
(* holds, it is there for every body, and a run begins without a child that  *)
(* can be seen.  And what the bridge shapes leave: no rule stands twice, and *)
(* a NetworkDown that printed no error has removed all of its bridge.        *)
EXTENDS SegmentNet, TLAPS

-----------------------------------------------------------------------------
(* The inductive invariants.  The properties speak of one phase; what makes  *)
(* them true was read some commands before.                                  *)

\* Behind free_parent the NIC has no master, behind create the network exists,
\* and it lives until the next NetworkDown; the gate rebuilds bridges only.
ParentInv ==
    shape \in ParentShapes =>
        /\ phase = "up" => step \in 1..3
        /\ phase = "up" /\ step = 2 => host.master = None
        /\ phase = "up" /\ step = 3 => shape \in host.nets
        /\ phase \in {"between", "gate", "body"} => shape \in host.nets
        /\ phase \in {"updown", "up"} => caller # "gate"

\* No command of NetworkUp leaves a child.
ChildInv ==
    phase \in {"updown", "up"} /\ caller = "start" => child \notin {"host", "namespace"}

LEMMA ParentCommands ==
    ASSUME shape \in ParentShapes
    PROVE  /\ UpCommands(shape) = <<"free_parent", "create">>
           /\ DOMAIN UpCommands(shape) = {1, 2}
           /\ Len(UpCommands(shape)) = 2
BY DEF UpCommands, ParentShapes

\* Nothing but NetworkUp's create adds a network.
LEMMA OnlyCreateAddsNets ==
    ASSUME NEW cmd, NEW b, host \in HostType, Effect(cmd, b), cmd # "create"
    PROVE  host'.nets \subseteq host.nets
BY DEF Effect, HostType, Unlinked, Raised, Reads

LEMMA OneNetAdded ==
    ASSUME NEW b, host \in HostType, Effect("create", b)
    PROVE  host'.nets = host.nets \cup {b}
BY DEF Effect, HostType, Reads

LEMMA DownNeverCreates ==
    \A i \in DOMAIN DownCommands(shape) : DownCommands(shape)[i] # "create"
BY DEF DownCommands

LEMMA RaisedNets ==
    ASSUME NEW h \in HostType, NEW kids, NEW g \in Raised(h, kids)
    PROVE  g.nets = h.nets
BY DEF Raised, HostType

\* The two commands of a parent shape's NetworkUp.
LEMMA ParentStep ==
    ASSUME shape \in ParentShapes, NEW i \in DOMAIN UpCommands(shape),
           Effect(UpCommands(shape)[i], shape), host \in HostType
    PROVE  /\ i = 1 => UNCHANGED host
           /\ i = 2 => shape \in host'.nets
<1>1. i \in {1, 2} /\ UpCommands(shape)[1] = "free_parent" /\ UpCommands(shape)[2] = "create"
  BY ParentCommands
<1>2. CASE i = 1
  BY <1>1, <1>2 DEF Effect, Reads
<1>3. CASE i = 2
  BY <1>1, <1>3 DEF Effect, Reads, HostType
<1> QED
  BY <1>1, <1>2, <1>3

-----------------------------------------------------------------------------
(* Types.                                                                    *)

LEMMA DownIsShort ==
    /\ Len(DownCommands(shape)) <= 10
    /\ DOMAIN DownCommands(shape) \subseteq 1..10
    /\ \A i \in DOMAIN DownCommands(shape) :
         shape \notin BridgeShapes => DownCommands(shape)[i] = "net_rm"
BY DEF DownCommands

LEMMA UpIsShort ==
    /\ DOMAIN UpCommands(shape) \subseteq 1..9
    /\ \A i \in DOMAIN UpCommands(shape) :
         shape \notin BridgeShapes => UpCommands(shape)[i] \in {"free_parent", "create"}
BY DEF UpCommands

LEMMA ShapeIsOne ==
    ASSUME at \in 1..(Len(ShapeOrder) + 1), at <= Len(ShapeOrder)
    PROVE  shape \in Shapes
BY OrderAssumption DEF shape, Shapes

\* One count changed is still a table of counts.
LEMMA CountType ==
    ASSUME NEW R \in [Families -> [BridgeShapes -> Nat]], NEW f \in Families,
           NEW b \in BridgeShapes, NEW n \in Nat
    PROVE  [R EXCEPT ![f] = [R[f] EXCEPT ![b] = n]] \in [Families -> [BridgeShapes -> Nat]]
OBVIOUS

LEMMA RuleType ==
    ASSUME host \in HostType, NEW f \in Families, NEW b \in BridgeShapes,
           host' = [host EXCEPT !.rules[f][b] = @ + 1] \/ host' = [host EXCEPT !.rules[f][b] = Less(@)]
    PROVE  host' \in HostType
<1> DEFINE R(n) == [host.rules EXCEPT ![f] = [host.rules[f] EXCEPT ![b] = n]]
<1>1. host.rules \in [Families -> [BridgeShapes -> Nat]]
  BY DEF HostType
<1>2. host.rules[f][b] \in Nat /\ host.rules[f][b] + 1 \in Nat /\ Less(host.rules[f][b]) \in Nat
  BY <1>1 DEF Less
<1>3. /\ R(host.rules[f][b] + 1) \in [Families -> [BridgeShapes -> Nat]]
      /\ R(Less(host.rules[f][b])) \in [Families -> [BridgeShapes -> Nat]]
  BY <1>1, <1>2, CountType
<1>4. \/ host' = [host EXCEPT !.rules = R(host.rules[f][b] + 1)]
      \/ host' = [host EXCEPT !.rules = R(Less(host.rules[f][b]))]
  OBVIOUS
<1> HIDE DEF R
<1> QED
  BY <1>3, <1>4 DEF HostType

LEMMA RaisedType ==
    ASSUME NEW h \in HostType, NEW kids, NEW g \in Raised(h, kids)
    PROVE  g \in HostType
<1>1. CASE h.config = None
  BY <1>1, Zenon DEF Raised
<1>2. CASE h.config # None
  <2>1. h.links \cup {h.config} \in SUBSET BridgeShapes
    BY <1>2 DEF HostType
  <2>2. \/ g = h
        \/ g = [h EXCEPT !.links = h.links \cup {h.config}]
        \/ g = [[h EXCEPT !.links = h.links \cup {h.config}] EXCEPT !.master = h.config]
    BY <1>2, Zenon DEF Raised
  <2> QED
    BY <2>1, <2>2 DEF HostType
<1> QED
  BY <1>1, <1>2

\* A command of a shape's list leaves the host one of HostType.
LEMMA EffectType ==
    ASSUME NEW b \in Shapes, NEW cmd, host \in HostType, Effect(cmd, b),
           b \in BridgeShapes \/ cmd \in {"net_rm", "free_parent", "create"}
    PROVE  host' \in HostType
<1>1. CASE cmd \in {"net_rm", "create"} \cup Reads
  BY <1>1 DEF Effect, Reads, HostType
<1>2. CASE cmd \in {"rule4_del", "rule4_add", "rule6_del", "rule6_add"} /\ b \in BridgeShapes
  <2>1. \E f \in Families : \/ host' = [host EXCEPT !.rules[f][b] = @ + 1]
                            \/ host' = [host EXCEPT !.rules[f][b] = Less(@)]
    BY <1>2 DEF Effect, Reads, Families
  <2> QED
    BY <2>1, <1>2, RuleType
<1>4. CASE cmd \in {"write_config", "rm_config", "nomaster", "save"} /\ b \in BridgeShapes
  BY <1>4 DEF Effect, Reads, HostType
<1>5. CASE cmd \in {"ifdown", "link_del"} /\ b \in BridgeShapes
  BY <1>5 DEF Effect, Reads, Unlinked, HostType
<1>6. CASE cmd = "apply"
  BY <1>6, RaisedType DEF Effect, Reads
<1>7. cmd \in {"net_rm", "create", "rule4_del", "rule4_add", "rule6_del", "rule6_add", "write_config",
               "rm_config", "nomaster", "save", "ifdown", "link_del", "apply"} \cup Reads
  BY DEF Effect
<1> QED
  BY <1>1, <1>2, <1>4, <1>5, <1>6, <1>7

\* TypeOK without errs, which is a boolean and goes to another prover.
RestOK ==
    /\ host \in HostType
    /\ child \in {"none", "host", "namespace", "hidden"}
    /\ at \in 1..(Len(ShapeOrder) + 1)
    /\ phase \in {"idle", "parent", "updown", "up", "between", "gate", "body", "enddown"}
    /\ phase # "idle" => at <= Len(ShapeOrder)
    /\ caller \in {"start", "gate", "isolate"}
    /\ step \in 1..11
    /\ tries \in 0..MaxTries
    /\ bodies \in 0..MaxBodies
    /\ ended \in {"none", "blocked", "error", "clean", "reported"}

LEMMA TypeIsRest == TypeOK <=> RestOK /\ errs \in BOOLEAN
BY Zenon DEF TypeOK, RestOK

LEMMA TypeInit == Init => RestOK /\ errs \in BOOLEAN
<1> SUFFICES ASSUME Init PROVE RestOK /\ errs \in BOOLEAN
  OBVIOUS
<1>1. host \in HostType
  BY ShapesAssumption DEF Init, HostType, NoRules
<1>2. Len(ShapeOrder) \in Nat \ {0}
  BY OrderAssumption
<1>3. RestOK
  BY <1>1, <1>2, BoundsAssumption DEF Init, RestOK
<1>4. errs \in BOOLEAN
  BY Zenon DEF Init
<1> QED
  BY <1>3, <1>4

LEMMA ErrsStep == errs \in BOOLEAN /\ [Next]_vars => errs' \in BOOLEAN
<1> SUFFICES ASSUME errs \in BOOLEAN, [Next]_vars PROVE errs' \in BOOLEAN
  OBVIOUS
<1>1. CASE DownAnswered
  BY <1>1, Zenon DEF DownAnswered
<1>2. CASE DownDropped
  BY <1>2, Zenon DEF DownDropped, Dropped
<1>3. CASE Next /\ ~DownAnswered /\ ~DownDropped
  BY <1>3, Zenon DEF Next, RunStep, StartRun, ParentReady, UpGoesOn, UpRefuses, UpFailed, EndRun,
     UpAnswered, UpFails, UpDone, NextBody, GatePasses, GateRebuilds, GateBlocks, BodyEnds,
     ScenariosDone, StartUp, Reboot, ChildGoes
<1>4. CASE UNCHANGED vars
  BY <1>4, Zenon DEF vars
<1> QED
  BY <1>1, <1>2, <1>3, <1>4, Zenon

\* Every action keeps the types; at moves at the end of a run only.
LEMMA RestStep == RestOK /\ [Next]_vars => RestOK'
<1> SUFFICES ASSUME RestOK, [Next]_vars PROVE RestOK'
  OBVIOUS
<1>a. Len(ShapeOrder) \in Nat
  BY OrderAssumption
<1> USE <1>a, BoundsAssumption DEF RestOK
<1>b. phase # "idle" => shape \in Shapes
  BY ShapeIsOne
<1>1. CASE StartRun
  BY <1>1 DEF StartRun, command
<1>2. CASE ParentReady
  BY <1>2 DEF ParentReady, Return, command, run
<1>3. CASE DownAnswered
  <2>1. host' \in HostType
    BY <1>3, <1>b, EffectType, DownIsShort DEF DownAnswered, downCommand, downPhase
  <2>2. step' \in 1..11 /\ tries' \in 0..MaxTries
    BY <1>3, DownIsShort DEF DownAnswered
  <2>3. UNCHANGED <<child, at, phase, caller, bodies, ended>>
    BY <1>3 DEF DownAnswered, run
  <2> QED
    BY <2>1, <2>2, <2>3
<1>4. CASE DownDropped
  <2>1. host' \in HostType
    BY <1>4, <1>b, EffectType, DownIsShort DEF DownDropped, downCommand, downPhase
  <2>2. step' \in 1..11 /\ tries' \in 0..MaxTries
    BY <1>4, DownIsShort DEF DownDropped, Dropped
  <2>3. UNCHANGED <<child, at, phase, caller, bodies, ended>>
    BY <1>4 DEF DownDropped, Dropped, run
  <2> QED
    BY <2>1, <2>2, <2>3
<1>5. CASE UpGoesOn
  BY <1>5 DEF UpGoesOn, run
<1>6. CASE UpRefuses
  BY <1>6 DEF UpRefuses, UpFailed, Return, command, run
<1>7. CASE EndRun
  BY <1>7 DEF EndRun, Return, command
<1>8. CASE UpAnswered
  <2>1. host' \in HostType
    BY <1>8, <1>b, EffectType, UpIsShort DEF UpAnswered, upCommand
  <2> QED
    BY <1>8, <2>1, UpIsShort DEF UpAnswered, run
<1>9. CASE UpFails
  <2>1. host' \in HostType
    BY <1>9, <1>b, EffectType, UpIsShort DEF UpFails, upCommand
  <2> QED
    BY <1>9, <2>1 DEF UpFails, UpFailed, Return, command, run
<1>10. CASE UpDone
  BY <1>10 DEF UpDone, command, run
<1>11. CASE NextBody
  BY <1>11 DEF NextBody, StartUp, command
<1>12. CASE GatePasses
  BY <1>12 DEF GatePasses, command, run
<1>13. CASE GateRebuilds
  BY <1>13 DEF GateRebuilds, StartUp, run
<1>14. CASE GateBlocks
  BY <1>14 DEF GateBlocks, command, run
<1>15. CASE BodyEnds
  BY <1>15 DEF BodyEnds, command, run
<1>16. CASE ScenariosDone
  BY <1>16 DEF ScenariosDone, run
<1>17. CASE Reboot
  <2>1. [host EXCEPT !.master = None, !.links = {}, !.rules = host.saved] \in HostType
    BY DEF HostType
  <2>2. host' \in HostType
    BY <1>17, <2>1, RaisedType DEF Reboot
  <2> QED
    BY <1>17, <2>2 DEF Reboot, command
<1>18. CASE ChildGoes
  BY <1>18 DEF ChildGoes, command
<1>19. CASE UNCHANGED vars
  BY <1>19 DEF vars
<1> QED
  BY <1>1, <1>2, <1>3, <1>4, <1>5, <1>6, <1>7, <1>8, <1>9, <1>10, <1>11, <1>12, <1>13, <1>14,
     <1>15, <1>16, <1>17, <1>18, <1>19, Zenon DEF Next, RunStep

\* The host's links, rules, config and networks and the run's position keep their
\* types for every shape order and both network stacks.
THEOREM TypeCorrect == Spec => []TypeOK
<1>1. RestOK /\ errs \in BOOLEAN /\ [Next]_vars => (RestOK /\ errs \in BOOLEAN)'
  BY RestStep, ErrsStep, Zenon
<1>2. RestOK /\ errs \in BOOLEAN => TypeOK
  BY TypeIsRest, Zenon
<1> QED
  BY TypeInit, <1>1, <1>2, PTL DEF Spec

-----------------------------------------------------------------------------
(* The invariants.                                                           *)

LEMMA ParentInvInit == Init => ParentInv
BY DEF Init, ParentInv

LEMMA ChildInvInit == Init => ChildInv
BY DEF Init, ChildInv

LEMMA ChildInvStep == ChildInv /\ [Next]_vars => ChildInv'
<1> SUFFICES ASSUME ChildInv, [Next]_vars PROVE ChildInv'
  OBVIOUS
<1> USE DEF ChildInv
<1>1. CASE StartRun \/ ParentReady
  BY <1>1 DEF StartRun, ParentReady, Return, Visible, command, run
<1>2. CASE DownAnswered \/ DownDropped \/ UpGoesOn \/ EndRun
  BY <1>2 DEF DownAnswered, DownDropped, UpGoesOn, EndRun, Return, command, run
<1>3. CASE UpAnswered \/ UpDone
  BY <1>3 DEF UpAnswered, UpDone, run
<1>4. CASE UpRefuses \/ UpFails
  BY <1>4 DEF UpRefuses, UpFails, UpFailed, Return
<1>5. CASE NextBody \/ GateRebuilds
  BY <1>5 DEF NextBody, GateRebuilds, StartUp
<1>6. CASE GatePasses \/ GateBlocks \/ BodyEnds \/ ScenariosDone
  BY <1>6 DEF GatePasses, GateBlocks, BodyEnds, ScenariosDone
<1>7. CASE Reboot \/ ChildGoes \/ UNCHANGED vars
  BY <1>7 DEF Reboot, ChildGoes, vars
<1> QED
  BY <1>1, <1>2, <1>3, <1>4, <1>5, <1>6, <1>7, Zenon DEF Next, RunStep

\* No run's first NetworkUp meets a child that can be seen, however long the link
\* of the shape before took to go.
THEOREM NoChildAtStartHolds == Spec => []NoChildAtStart
<1>1. ChildInv => NoChildAtStart
  BY DEF ChildInv, NoChildAtStart
<1> QED
  BY <1>1, ChildInvInit, ChildInvStep, PTL DEF Spec

\* RestOK gives host its fields; shape changes only when a run ends.
LEMMA ParentInvStep == RestOK /\ ParentInv /\ [Next]_vars => ParentInv'
<1> SUFFICES ASSUME RestOK, ParentInv, [Next]_vars PROVE ParentInv'
  OBVIOUS
<1>a. host \in HostType
  BY DEF RestOK
<1>b. at' = at => shape' = shape
  BY DEF shape
<1>p. shape \in ParentShapes => shape \notin BridgeShapes
  BY DEF ParentShapes
<1>1. CASE StartRun \/ ParentReady \/ EndRun
  BY <1>1, <1>b DEF ParentInv, StartRun, ParentReady, EndRun, Return, run
<1>2. CASE DownAnswered \/ DownDropped
  BY <1>2, <1>b DEF ParentInv, DownAnswered, DownDropped, downPhase, run
<1>3. CASE UpGoesOn
  BY <1>3, <1>b DEF ParentInv, UpGoesOn, run
<1>4. CASE UpRefuses
  BY <1>4, <1>b DEF ParentInv, UpRefuses, UpFailed, Return, run
<1>5. CASE UpFails
  BY <1>5, <1>b DEF ParentInv, UpFails, UpFailed, Return, run
<1>6. CASE UpAnswered
  <2>1. at' = at /\ phase' = "up" /\ phase = "up" /\ step' = step + 1 /\ caller' = caller
    BY <1>6 DEF UpAnswered, run
  <2>2. CASE shape \notin ParentShapes
    BY <2>1, <2>2, <1>b DEF ParentInv
  <2>3. CASE shape \in ParentShapes
    <3>1. step \in {1, 2}
      BY <1>6, <2>3, ParentCommands DEF UpAnswered
    <3>2. step = 1 => host.master = None
      BY <1>6, <2>3, ParentCommands DEF UpAnswered, upCommand, Answers
    <3>3. /\ step = 1 => UNCHANGED host
          /\ step = 2 => shape \in host'.nets
      BY <1>6, <2>3, <1>a, ParentStep DEF UpAnswered, upCommand
    <3> QED
      BY <2>1, <2>3, <3>1, <3>2, <3>3, <1>b DEF ParentInv
  <2> QED
    BY <2>2, <2>3
<1>7. CASE UpDone
  <2>1. shape \in ParentShapes => step = 3
    BY <1>7, ParentCommands DEF UpDone, ParentInv
  <2> QED
    BY <1>7, <2>1, <1>b DEF ParentInv, UpDone, run
<1>8. CASE NextBody
  BY <1>8, <1>b DEF ParentInv, NextBody, StartUp
<1>9. CASE GateRebuilds
  BY <1>9, <1>b, <1>p DEF ParentInv, GateRebuilds, StartUp, run
<1>10. CASE GatePasses \/ GateBlocks \/ BodyEnds \/ ScenariosDone
  BY <1>10, <1>b DEF ParentInv, GatePasses, GateBlocks, BodyEnds, ScenariosDone, run
<1>11. CASE Reboot
  <2>1. [host EXCEPT !.master = None, !.links = {}, !.rules = host.saved].nets = host.nets
    BY <1>a DEF HostType
  <2>2. [host EXCEPT !.master = None, !.links = {}, !.rules = host.saved] \in HostType
    BY <1>a DEF HostType
  <2>3. host'.nets = host.nets
    BY <1>11, <2>1, <2>2, RaisedNets DEF Reboot
  <2> QED
    BY <1>11, <2>3, <1>b DEF ParentInv, Reboot
<1>12. CASE ChildGoes \/ UNCHANGED vars
  BY <1>12, <1>b DEF ParentInv, ChildGoes, vars, command
<1> QED
  BY <1>1, <1>2, <1>3, <1>4, <1>5, <1>6, <1>7, <1>8, <1>9, <1>10, <1>11, <1>12, Zenon
     DEF Next, RunStep

\* In each step of Next that adds a parent shape's network, the step is that
\* shape's create, behind its free_parent.
LEMMA ParentFreeStep ==
    RestOK /\ ParentInv /\ [Next]_vars =>
        \A s \in ParentShapes : s \in host'.nets \ host.nets => host.master = None
<1> SUFFICES ASSUME RestOK, ParentInv, [Next]_vars, NEW s \in ParentShapes,
                    s \in host'.nets, s \notin host.nets
             PROVE  host.master = None
  OBVIOUS
<1>a. host \in HostType /\ (phase # "idle" => shape \in Shapes)
  BY ShapeIsOne DEF RestOK
<1>1. CASE DownAnswered \/ DownDropped
  <2>1. UNCHANGED host \/ Effect(downCommand, shape)
    BY <1>1 DEF DownAnswered, DownDropped
  <2>2. downCommand # "create"
    BY <1>1, DownNeverCreates DEF DownAnswered, DownDropped, downCommand
  <2> QED
    BY <2>1, <2>2, <1>a, OnlyCreateAddsNets
<1>2. CASE UpAnswered \/ UpFails
  <2>1. phase = "up" /\ step \in DOMAIN UpCommands(shape)
    BY <1>2 DEF UpAnswered, UpFails
  <2>2. UNCHANGED host \/ Effect(upCommand, shape)
    BY <1>2 DEF UpAnswered, UpFails
  <2>3. upCommand = "create" /\ Effect(upCommand, shape)
    BY <2>2, <1>a, OnlyCreateAddsNets
  <2>4. s = shape
    BY <2>3, <1>a, OneNetAdded
  <2>5. step = 2
    BY <2>1, <2>3, <2>4, ParentCommands DEF upCommand
  <2> QED
    BY <2>1, <2>4, <2>5 DEF ParentInv
<1>3. CASE Reboot
  <2>1. [host EXCEPT !.master = None, !.links = {}, !.rules = host.saved].nets = host.nets
    BY <1>a DEF HostType
  <2>2. [host EXCEPT !.master = None, !.links = {}, !.rules = host.saved] \in HostType
    BY <1>a DEF HostType
  <2> QED
    BY <1>3, <2>1, <2>2, RaisedNets DEF Reboot
<1>4. CASE UNCHANGED host
  BY <1>4
<1>5. \/ DownAnswered \/ DownDropped \/ UpAnswered \/ UpFails \/ Reboot \/ UNCHANGED host
  BY Zenon DEF Next, RunStep, StartRun, ParentReady, UpGoesOn, UpRefuses, EndRun, UpDone, NextBody,
     GatePasses, GateRebuilds, GateBlocks, BodyEnds, ScenariosDone, ChildGoes, vars
<1> QED
  BY <1>1, <1>2, <1>3, <1>4, <1>5

LEMMA Invariants == Spec => [](RestOK /\ ParentInv)
<1>1. Init => RestOK /\ ParentInv
  BY TypeInit, ParentInvInit
<1>2. RestOK /\ ParentInv /\ [Next]_vars => (RestOK /\ ParentInv)'
  BY RestStep, ParentInvStep
<1> QED
  BY <1>1, <1>2, PTL DEF Spec

\* Whatever earlier shapes left behind, no macvlan or ipvlan network is created on
\* a NIC that a bridge holds (#137).
THEOREM ParentFreeAtCreateHolds == Spec => ParentFreeAtCreate
<1>1. RestOK /\ ParentInv /\ [Next]_vars =>
         [\A s \in ParentShapes : s \in host'.nets \ host.nets => host.master = None]_vars
  BY ParentFreeStep, Zenon
<1> QED
  BY <1>1, Invariants, PTL DEF Spec, ParentFreeAtCreate

\* No body of a parent shape starts on a network that a failed isolation removed.
THEOREM ParentBodyHasNetworkHolds == Spec => []ParentBodyHasNetwork
<1>1. ParentInv => ParentBodyHasNetwork
  BY DEF ParentInv, ParentBodyHasNetwork
<1> QED
  BY <1>1, Invariants, PTL

-----------------------------------------------------------------------------
(* The bridges' rules, and what a NetworkDown without an error has removed.   *)
(* RuleOnce and CleanAfterDown say nothing of the commands in between;        *)
(* RuleInv says what each command of NetworkDown has removed once it is over  *)
(* and no error was kept, and that NetworkUp adds to a chain without a rule.  *)

\* What the commands of bridge b's NetworkDown in front of the n-th removed from h.
Gone(h, b, n) ==
    /\ n > 2 => h.rules["v4"][b] = 0
    /\ n > 3 => h.rules["v6"][b] = 0
    /\ n > 7 \/ (n > 4 /\ NetStack = "netplan") => h.config = None
    /\ n > 8 => h.saved["v4"][b] = 0 /\ h.saved["v6"][b] = 0
    /\ n > 9 => h.master = None
    /\ n > 10 => b \notin h.links

RuleInv ==
    /\ RuleOnce
    /\ downPhase /\ shape \in BridgeShapes /\ ~errs => Gone(host, shape, step)
    /\ phase = "up" /\ shape \in BridgeShapes =>
          /\ step <= 3 => host.rules["v4"][shape] = 0
          /\ step <= 4 => host.rules["v6"][shape] = 0
    /\ CleanAfterDown

\* A rule command changes one count and nothing else.
OneCount(f, b, n) ==
    /\ host'.saved = host.saved /\ host'.config = host.config
    /\ host'.links = host.links /\ host'.master = host.master
    /\ \A g \in Families : \A c \in BridgeShapes :
          host'.rules[g][c] = IF g = f /\ c = b THEN n ELSE host.rules[g][c]

LEMMA CountChanged ==
    ASSUME host \in HostType, NEW f \in Families, NEW b \in BridgeShapes
    PROVE  /\ host' = [host EXCEPT !.rules[f][b] = @ + 1] => OneCount(f, b, host.rules[f][b] + 1)
           /\ host' = [host EXCEPT !.rules[f][b] = Less(@)] => OneCount(f, b, Less(host.rules[f][b]))
<1> DEFINE R(n) == [host.rules EXCEPT ![f] = [host.rules[f] EXCEPT ![b] = n]]
<1>1. \A n : \A g \in Families : \A c \in BridgeShapes :
         R(n)[g][c] = IF g = f /\ c = b THEN n ELSE host.rules[g][c]
  BY DEF HostType
<1>2. /\ host' = [host EXCEPT !.rules[f][b] = @ + 1]
             => host' = [host EXCEPT !.rules = R(host.rules[f][b] + 1)]
      /\ host' = [host EXCEPT !.rules[f][b] = Less(@)]
             => host' = [host EXCEPT !.rules = R(Less(host.rules[f][b]))]
  OBVIOUS
<1> HIDE DEF R
<1>3. ASSUME NEW n, host' = [host EXCEPT !.rules = R(n)] PROVE OneCount(f, b, n)
  BY <1>1, <1>3 DEF OneCount, HostType
<1> QED
  BY <1>2, <1>3

RuleCommands == {"rule4_del", "rule6_del", "rule4_add", "rule6_add"}

LEMMA RuleEffect ==
    ASSUME host \in HostType, NEW b \in BridgeShapes, NEW cmd, Effect(cmd, b)
    PROVE  /\ cmd = "rule4_del" => OneCount("v4", b, Less(host.rules["v4"][b]))
           /\ cmd = "rule6_del" => OneCount("v6", b, Less(host.rules["v6"][b]))
           /\ cmd = "rule4_add" => OneCount("v4", b, host.rules["v4"][b] + 1)
           /\ cmd = "rule6_add" => OneCount("v6", b, host.rules["v6"][b] + 1)
<1>1. "v4" \in Families /\ "v6" \in Families
  BY DEF Families
<1>2. /\ cmd = "rule4_del" => host' = [host EXCEPT !.rules["v4"][b] = Less(@)]
      /\ cmd = "rule6_del" => host' = [host EXCEPT !.rules["v6"][b] = Less(@)]
      /\ cmd = "rule4_add" => host' = [host EXCEPT !.rules["v4"][b] = @ + 1]
      /\ cmd = "rule6_add" => host' = [host EXCEPT !.rules["v6"][b] = @ + 1]
  BY DEF Effect, Reads
<1> QED
  BY <1>1, <1>2, CountChanged

LEMMA RaisedKeeps ==
    ASSUME NEW h \in HostType, NEW kids, NEW g \in Raised(h, kids)
    PROVE  /\ g.rules = h.rules /\ g.saved = h.saved /\ g.config = h.config
           /\ h.config = None => g = h
BY DEF Raised, HostType

LEMMA OtherEffect ==
    ASSUME host \in HostType, NEW b, NEW cmd, Effect(cmd, b), cmd \notin RuleCommands
    PROVE  /\ host'.rules = host.rules
           /\ cmd # "save" => host'.saved = host.saved
           /\ cmd = "save" => host'.saved = host.rules
           /\ cmd \notin {"write_config", "rm_config"} => host'.config = host.config
           /\ cmd = "rm_config" => host'.config = None
           /\ cmd \in Reads => host' = host
<1>1. CASE cmd = "apply"
  BY <1>1, RaisedKeeps DEF Effect, Reads
<1>2. CASE cmd # "apply"
  BY <1>2 DEF Effect, Reads, RuleCommands, Unlinked, HostType
<1> QED
  BY <1>1, <1>2

\* The command lists of a bridge.
LEMMA BridgeDown ==
    ASSUME NEW b \in BridgeShapes
    PROVE  LET D == DownCommands(b)
           IN  /\ DOMAIN D = 1..10 /\ Len(D) = 10
               /\ D[1] = "net_rm" /\ D[2] = "rule4_del" /\ D[3] = "rule6_del"
               /\ D[4] \in {"ifdown", "rm_config"} /\ D[5] \in {"nomaster", "apply"}
               /\ D[6] \in {"link_del", "nomaster"} /\ D[7] \in {"rm_config", "link_del"}
               /\ D[8] = "save" /\ D[9] = "read_master" /\ D[10] = "read_link"
               /\ NetStack = "netplan" => D[4] = "rm_config" /\ D[7] = "link_del"
               /\ NetStack # "netplan" => D[7] = "rm_config"
BY StackAssumption DEF DownCommands

LEMMA BridgeUp ==
    ASSUME NEW b \in BridgeShapes
    PROVE  LET U == UpCommands(b)
           IN  /\ DOMAIN U = 1..9
               /\ U[1] = "write_config" /\ U[2] = "apply" /\ U[3] = "rule4_add" /\ U[4] = "rule6_add"
               /\ \A i \in 5..9 : U[i] \notin RuleCommands
BY DEF UpCommands, RuleCommands

\* A command of NetworkDown takes back what it is there for, repeated or not,
\* and none brings back what one before it took.
LEMMA DownRemoves ==
    ASSUME host \in HostType, NEW b \in BridgeShapes, NEW n \in 1..10,
           \A f \in Families : host.rules[f][b] <= 1,
           Gone(host, b, n), Effect(DownCommands(b)[n], b)
    PROVE  /\ Gone(host', b, n)
           /\ (n = 9 => host.master = None) /\ (n = 10 => b \notin host.links)
                => Gone(host', b, n + 1)
<1> DEFINE cmd == DownCommands(b)[n]
<1>0. host.rules["v4"][b] \in {0, 1} /\ host.rules["v6"][b] \in {0, 1}
  <2>1. host.rules["v4"][b] \in Nat /\ host.rules["v6"][b] \in Nat
    BY DEF HostType, Families
  <2> QED
    BY <2>1 DEF Families
<1>1. CASE n \in {2, 3}
  <2>1. (n = 2 => OneCount("v4", b, 0)) /\ (n = 3 => OneCount("v6", b, 0))
    BY <1>0, <1>1, RuleEffect, BridgeDown DEF Less
  <2> QED
    BY <1>1, <2>1 DEF Gone, OneCount, Families
<1>2. CASE n \notin {2, 3}
  <2>1. cmd \notin RuleCommands /\ n \in {1} \cup 4..10
    BY <1>2, BridgeDown DEF RuleCommands
  <2>2. /\ host'.rules = host.rules
        /\ cmd # "save" => host'.saved = host.saved
        /\ cmd = "save" => host'.saved = host.rules
        /\ cmd \notin {"write_config", "rm_config"} => host'.config = host.config
        /\ cmd = "rm_config" => host'.config = None
        /\ cmd \in Reads => host' = host
    BY <2>1, OtherEffect
  <2>3. CASE n \in {1, 4, 5, 6, 7}
    BY <2>2, <2>3, BridgeDown DEF Gone
  <2>4. CASE n = 8
    BY <2>2, <2>4, BridgeDown DEF Gone
  <2>5. CASE n \in {9, 10}
    BY <2>2, <2>5, BridgeDown DEF Gone, Reads
  <2> QED
    BY <2>1, <2>3, <2>4, <2>5
<1> QED
  BY <1>1, <1>2

\* No command of NetworkDown adds a copy of a rule.
LEMMA DownKeepsOnce ==
    ASSUME host \in HostType, NEW b \in Shapes, NEW n \in DOMAIN DownCommands(b), RuleOnce,
           Effect(DownCommands(b)[n], b)
    PROVE  RuleOnce'
<1>0. \A f \in Families, c \in BridgeShapes : host.rules[f][c] \in Nat
  BY DEF HostType
<1>1. CASE DownCommands(b)[n] \in RuleCommands
  <2>1. b \in BridgeShapes /\ DownCommands(b)[n] \in {"rule4_del", "rule6_del"}
    BY <1>1 DEF DownCommands, RuleCommands
  <2>2. \E f \in Families : OneCount(f, b, Less(host.rules[f][b]))
    BY <2>1, RuleEffect DEF Families
  <2>3. PICK f \in Families : OneCount(f, b, Less(host.rules[f][b]))
    BY <2>2
  <2>4. Less(host.rules[f][b]) <= 1
    BY <2>1, <1>0 DEF Less, RuleOnce
  <2> QED
    BY <2>3, <2>4 DEF OneCount, RuleOnce
<1>2. CASE DownCommands(b)[n] \notin RuleCommands
  BY <1>2, OtherEffect DEF RuleOnce
<1> QED
  BY <1>1, <1>2

\* NetworkUp adds to a chain that has no copy of the rule.
LEMMA UpKeepsOnce ==
    ASSUME host \in HostType, NEW b \in Shapes, NEW n \in DOMAIN UpCommands(b), RuleOnce,
           b \in BridgeShapes => /\ n <= 3 => host.rules["v4"][b] = 0
                                 /\ n <= 4 => host.rules["v6"][b] = 0,
           Effect(UpCommands(b)[n], b)
    PROVE  /\ RuleOnce'
           /\ b \in BridgeShapes => /\ n + 1 <= 3 => host'.rules["v4"][b] = 0
                                    /\ n + 1 <= 4 => host'.rules["v6"][b] = 0
<1>1. CASE b \in BridgeShapes /\ n \in {3, 4}
  <2>1. /\ n = 3 => OneCount("v4", b, 1)
        /\ n = 4 => OneCount("v6", b, 1)
    BY <1>1, BridgeUp, RuleEffect
  <2> QED
    BY <1>1, <2>1 DEF OneCount, RuleOnce, Families
<1>2. CASE ~(b \in BridgeShapes /\ n \in {3, 4})
  <2>1. UpCommands(b)[n] \notin RuleCommands
    <3>1. CASE b \in BridgeShapes
      BY <1>2, <3>1, BridgeUp DEF RuleCommands
    <3>2. CASE b \notin BridgeShapes
      BY <3>2 DEF UpCommands, RuleCommands
    <3> QED
      BY <3>1, <3>2
  <2>2. host'.rules = host.rules /\ (host'.saved = host.saved \/ host'.saved = host.rules)
    BY <2>1, OtherEffect
  <2>3. n \in Nat
    BY DEF UpCommands
  <2> QED
    BY <2>2, <2>3 DEF RuleOnce
<1> QED
  BY <1>1, <1>2

LEMMA RuleInvInit == Init => RuleInv
<1> SUFFICES ASSUME Init PROVE RuleInv
  OBVIOUS
<1>1. RuleOnce
  BY DEF Init, RuleOnce, NoRules
<1> QED
  BY <1>1 DEF Init, RuleInv, downPhase, CleanAfterDown

\* A NetworkUp that failed goes on with no claim about the host, or with the
\* first command of the deferred NetworkDown.
LEMMA UpFailedPhases ==
    ASSUME UpFailed
    PROVE  /\ phase' \in {"idle", "between", "gate", "enddown"}
           /\ phase' = "enddown" => step' = 1
           /\ phase' = "idle" => ended' = "error"
           /\ phase' # "idle" => UNCHANGED at
BY DEF UpFailed, Return, run

LEMMA RuleInvStep == RestOK /\ errs \in BOOLEAN /\ RuleInv /\ [Next]_vars => RuleInv'
<1> SUFFICES ASSUME RestOK, errs \in BOOLEAN, RuleInv, [Next]_vars PROVE RuleInv'
  OBVIOUS
<1>a. host \in HostType /\ (phase # "idle" => shape \in Shapes)
  BY ShapeIsOne DEF RestOK
<1>b. at' = at => shape' = shape
  BY DEF shape
<1>c. \A b : Gone(host, b, 1)
  BY DEF Gone
<1>d. RuleOnce
  BY DEF RuleInv
\* Steps behind which RuleInv claims no more than it did.
<1>1. ASSUME host' = host, phase' \notin {"idle", "up", "updown", "enddown"} PROVE RuleInv'
  BY <1>1, <1>d DEF RuleInv, RuleOnce, downPhase, CleanAfterDown
\* A NetworkDown begins.
<1>2. ASSUME host' = host, phase' \in {"updown", "enddown"}, step' = 1 PROVE RuleInv'
  BY <1>2, <1>d DEF RuleInv, RuleOnce, downPhase, CleanAfterDown, Gone
\* A run ends some other way than clean.
<1>3. ASSUME RuleOnce', phase' = "idle", ended' # "clean" PROVE RuleInv'
  BY <1>3 DEF RuleInv, downPhase, CleanAfterDown
<1>4. CASE StartRun \/ ParentReady
  <2>1. CASE phase' = "idle"
    BY <1>4, <2>1, <1>3, <1>d DEF StartRun, ParentReady, Return, RuleOnce
  <2>2. CASE phase' # "idle"
    BY <1>4, <2>2, <1>1, <1>2 DEF StartRun, ParentReady, Return
  <2> QED
    BY <2>1, <2>2
<1>5. CASE DownAnswered
  <2>1. /\ downPhase /\ phase' = phase /\ at' = at /\ step' = step + 1
        /\ step \in DOMAIN DownCommands(shape)
        /\ Effect(DownCommands(shape)[step], shape)
    BY <1>5 DEF DownAnswered, downCommand, run
  <2>2. RuleOnce'
    BY <2>1, <1>a, <1>d, DownKeepsOnce DEF downPhase
  <2>3. ~errs' => /\ ~errs
                  /\ downCommand = "read_master" => host.master = None
                  /\ downCommand = "read_link" => shape \notin host.links
    BY <1>5, Zenon DEF DownAnswered
  <2>4. shape \in BridgeShapes /\ ~errs' => Gone(host', shape, step + 1)
    <3> SUFFICES ASSUME shape \in BridgeShapes, ~errs' PROVE Gone(host', shape, step + 1)
      OBVIOUS
    <3>1. step \in 1..10 /\ Gone(host, shape, step)
      BY <2>1, <2>3, BridgeDown DEF RuleInv
    <3>2. (step = 9 => host.master = None) /\ (step = 10 => shape \notin host.links)
      BY <2>3, BridgeDown DEF downCommand
    <3>3. \A f \in Families : host.rules[f][shape] <= 1
      BY <1>d DEF RuleOnce
    <3> HIDE DEF Gone, shape
    <3> QED
      BY <1>a, <2>1, <3>1, <3>2, <3>3, DownRemoves
  <2> HIDE DEF Gone, shape
  <2> QED
    BY <2>1, <2>2, <2>4, <1>b DEF RuleInv, downPhase, CleanAfterDown
<1>6. CASE DownDropped
  <2>1. /\ downPhase /\ phase' = phase /\ at' = at
        /\ step \in DOMAIN DownCommands(shape)
        /\ UNCHANGED host \/ Effect(DownCommands(shape)[step], shape)
    BY <1>6 DEF DownDropped, downCommand, run
  <2>2. RuleOnce'
    <3>1. CASE UNCHANGED host
      BY <3>1, <1>d DEF RuleOnce
    <3>2. CASE Effect(DownCommands(shape)[step], shape)
      BY <2>1, <3>2, <1>a, <1>d, DownKeepsOnce DEF downPhase
    <3> QED
      BY <2>1, <3>1, <3>2
  <2>3. ~errs' => ~errs /\ step' = step
    BY <1>6, Zenon DEF DownDropped, Dropped
  <2>4. shape \in BridgeShapes /\ ~errs' => Gone(host', shape, step)
    <3> SUFFICES ASSUME shape \in BridgeShapes, ~errs' PROVE Gone(host', shape, step)
      OBVIOUS
    <3>1. step \in 1..10 /\ Gone(host, shape, step)
      BY <2>1, <2>3, BridgeDown DEF RuleInv
    <3>2. \A f \in Families : host.rules[f][shape] <= 1
      BY <1>d DEF RuleOnce
    <3>3. CASE UNCHANGED host
      BY <3>1, <3>3 DEF Gone
    <3>4. CASE Effect(DownCommands(shape)[step], shape)
      <4> HIDE DEF Gone, shape
      <4> QED
        BY <1>a, <3>1, <3>2, <3>4, DownRemoves
    <3> QED
      BY <2>1, <3>3, <3>4
  <2> HIDE DEF Gone, shape
  <2> QED
    BY <2>1, <2>2, <2>3, <2>4, <1>b DEF RuleInv, downPhase, CleanAfterDown
<1>7. CASE UpGoesOn
  <2>1. /\ host' = host /\ at' = at /\ phase = "updown" /\ phase' = "up" /\ step' = 1 /\ ~errs
        /\ step > Len(DownCommands(shape))
    BY <1>7 DEF UpGoesOn, downDone, run
  <2>2. shape \in BridgeShapes => host.rules["v4"][shape] = 0 /\ host.rules["v6"][shape] = 0
    <3> SUFFICES ASSUME shape \in BridgeShapes
                 PROVE  host.rules["v4"][shape] = 0 /\ host.rules["v6"][shape] = 0
      OBVIOUS
    <3>1. step \in 1..11 /\ step > 10 /\ Gone(host, shape, step)
      BY <2>1, BridgeDown DEF RuleInv, downPhase, RestOK
    <3> QED
      BY <3>1 DEF Gone
  <2> QED
    BY <2>1, <2>2, <1>b, <1>d DEF RuleInv, downPhase, CleanAfterDown, RuleOnce
<1>8. CASE UpRefuses
  <2>1. host' = host /\ UpFailed
    BY <1>8 DEF UpRefuses
  <2>2. RuleOnce'
    BY <2>1, <1>d DEF RuleOnce
  <2> QED
    BY <2>1, <2>2, <1>1, <1>2, <1>3, UpFailedPhases
<1>9. CASE EndRun
  <2>1. /\ host' = host /\ at' = at + 1 /\ phase = "enddown" /\ phase' = "idle"
        /\ step > Len(DownCommands(shape)) /\ ended' = IF errs THEN "reported" ELSE "clean"
    BY <1>9 DEF EndRun, Return, downDone
  <2>2. RuleOnce'
    BY <2>1, <1>d DEF RuleOnce
  <2>3. CASE errs
    BY <2>1, <2>2, <2>3, <1>3
  <2>4. CASE ~errs
    <3>1. ShapeOrder[at' - 1] = shape
      BY <2>1 DEF shape, RestOK
    <3>2. shape \in BridgeShapes => Gone(host, shape, step) /\ step \in 1..11 /\ step > 10
      BY <2>1, <2>4, BridgeDown DEF RuleInv, downPhase, RestOK
    <3>3. CleanAfterDown'
      BY <2>1, <3>1, <3>2 DEF CleanAfterDown, Gone, Families
    <3> QED
      BY <2>1, <2>2, <3>3 DEF RuleInv, downPhase
  <2> QED
    BY <2>3, <2>4
<1>10. CASE UpAnswered
  <2>1. /\ phase = "up" /\ phase' = "up" /\ at' = at /\ step' = step + 1
        /\ step \in DOMAIN UpCommands(shape)
        /\ Effect(UpCommands(shape)[step], shape)
    BY <1>10 DEF UpAnswered, upCommand, run
  <2>2. shape \in BridgeShapes => /\ step <= 3 => host.rules["v4"][shape] = 0
                                  /\ step <= 4 => host.rules["v6"][shape] = 0
    BY <2>1 DEF RuleInv
  <2> HIDE DEF shape
  <2>3. /\ RuleOnce'
        /\ shape \in BridgeShapes => /\ step + 1 <= 3 => host'.rules["v4"][shape] = 0
                                     /\ step + 1 <= 4 => host'.rules["v6"][shape] = 0
    BY <2>1, <2>2, <1>a, <1>d, UpKeepsOnce
  <2> QED
    BY <2>1, <2>3, <1>b DEF RuleInv, downPhase, CleanAfterDown
<1>11. CASE UpFails
  <2>1. /\ phase = "up" /\ UpFailed /\ step \in DOMAIN UpCommands(shape)
        /\ UNCHANGED host \/ Effect(UpCommands(shape)[step], shape)
    BY <1>11 DEF UpFails, upCommand
  <2>2. shape \in BridgeShapes => /\ step <= 3 => host.rules["v4"][shape] = 0
                                  /\ step <= 4 => host.rules["v6"][shape] = 0
    BY <2>1 DEF RuleInv
  <2> HIDE DEF shape
  <2>3. RuleOnce'
    <3>1. CASE UNCHANGED host
      BY <3>1, <1>d DEF RuleOnce
    <3>2. CASE Effect(UpCommands(shape)[step], shape)
      BY <2>1, <3>2, <2>2, <1>a, <1>d, UpKeepsOnce
    <3> QED
      BY <2>1, <3>1, <3>2
  <2>4. CASE phase' = "idle"
    BY <2>1, <2>3, <2>4, <1>3, UpFailedPhases
  <2>5. CASE phase' = "enddown"
    <3>1. step' = 1
      BY <2>1, <2>5, UpFailedPhases
    <3> QED
      BY <2>3, <2>5, <3>1 DEF RuleInv, downPhase, CleanAfterDown, Gone
  <2>6. CASE phase' \in {"between", "gate"}
    BY <2>3, <2>6 DEF RuleInv, downPhase, CleanAfterDown
  <2> QED
    BY <2>1, <2>4, <2>5, <2>6, UpFailedPhases
<1>12. CASE UpDone \/ GatePasses \/ GateBlocks \/ BodyEnds
  BY <1>12, <1>1 DEF UpDone, GatePasses, GateBlocks, BodyEnds
<1>13. CASE NextBody \/ GateRebuilds \/ ScenariosDone
  <2>1. host' = host /\ (phase' = "gate" \/ (phase' \in {"updown", "enddown"} /\ step' = 1))
    BY <1>13 DEF NextBody, GateRebuilds, ScenariosDone, StartUp
  <2> QED
    BY <2>1, <1>1, <1>2
<1>14. CASE Reboot
  <2> DEFINE back == [host EXCEPT !.master = None, !.links = {}, !.rules = host.saved]
  <2>1. back \in HostType /\ back.rules = host.saved /\ back.saved = host.saved
        /\ back.config = host.config /\ back.master = None /\ back.links = {}
    BY <1>a DEF HostType
  <2>2. host' \in Raised(back, "none") /\ phase' = phase /\ phase \in {"idle", "body", "gate"}
        /\ UNCHANGED <<at, ended>>
    BY <1>14 DEF Reboot
  <2> HIDE DEF back
  <2>3. host'.rules = host.saved /\ host'.saved = host.saved /\ (host.config = None => host' = back)
    BY <2>1, <2>2, RaisedKeeps
  <2>4. RuleOnce'
    BY <2>3, <1>d DEF RuleOnce
  <2>5. CleanAfterDown'
    BY <2>1, <2>2, <2>3 DEF RuleInv, CleanAfterDown
  <2> QED
    BY <2>2, <2>4, <2>5 DEF RuleInv, downPhase
<1>15. CASE ChildGoes \/ UNCHANGED vars
  <2>1. UNCHANGED <<host, at, phase, errs, step, ended>>
    BY <1>15 DEF ChildGoes, vars, command
  <2>2. shape' = shape
    BY <2>1, <1>b
  <2> HIDE DEF shape, Gone
  <2> QED
    BY <2>1, <2>2 DEF RuleInv, RuleOnce, downPhase, CleanAfterDown
<1> QED
  BY <1>4, <1>5, <1>6, <1>7, <1>8, <1>9, <1>10, <1>11, <1>12, <1>13, <1>14, <1>15, Zenon
     DEF Next, RunStep

LEMMA RuleInvariant == Spec => []RuleInv
<1>1. Init => RestOK /\ errs \in BOOLEAN /\ RuleInv
  BY TypeInit, RuleInvInit
<1>2. RestOK /\ errs \in BOOLEAN /\ RuleInv /\ [Next]_vars => (RestOK /\ errs \in BOOLEAN /\ RuleInv)'
  BY RestStep, ErrsStep, RuleInvStep, Zenon
<1> QED
  BY <1>1, <1>2, PTL DEF Spec

\* However often a bridge is rebuilt, with whatever commands lost and whatever
\* reboots between, a chain never holds a second copy of its rule.
THEOREM RuleOnceHolds == Spec => []RuleOnce
<1>1. RuleInv => RuleOnce
  BY DEF RuleInv
<1> QED
  BY <1>1, RuleInvariant, PTL

\* A run whose NetworkDown printed no error left nothing of its bridge, and no
\* reboot behind it brings anything back.
THEOREM CleanAfterDownHolds == Spec => []CleanAfterDown
<1>1. RuleInv => CleanAfterDown
  BY DEF RuleInv
<1> QED
  BY <1>1, RuleInvariant, PTL
=============================================================================
