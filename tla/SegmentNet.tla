----------------------------- MODULE SegmentNet -----------------------------
(* The docker host's segment NIC across the shapes of a cell.  Every labctl  *)
(* run waits for the NIC to lose the children of the shape before, brings    *)
(* its own network up (a host bridge with its config file and its FORWARD    *)
(* rules, or a network with the NIC as parent), gates and runs its bodies    *)
(* and takes the network down again, over an ssh connection that may drop at *)
(* any command, before or behind its effect.                                 *)
(*                                                                           *)
(* Source: internal/scenario/shape.go, teardown.go, parentclean.go and the    *)
(* calls in cmd/labctl/main.go.                                              *)
EXTENDS Integers, Sequences

CONSTANTS
    ShapeOrder,     \* the shapes, in the order run-cell.sh runs them
    BridgeShapes,   \* usesHostBridge
    IPAMShapes,     \* the shapes isolated between two bodies
    NetStack,       \* "netplan" or "ifupdown": what the docker host's image uses
    MaxTries,       \* bound: attempts runRetrying makes behind the first
    MaxBodies,      \* bound: bodies in one labctl run
    None            \* no master, no config, no owner

ASSUME OrderAssumption == ShapeOrder \in Seq(STRING) /\ ShapeOrder # <<>>
ASSUME ShapesAssumption ==
    LET Shapes == {ShapeOrder[i] : i \in DOMAIN ShapeOrder}
    IN  BridgeShapes \subseteq Shapes /\ IPAMShapes \subseteq Shapes /\ None \notin Shapes
ASSUME StackAssumption == NetStack \in {"netplan", "ifupdown"}
ASSUME BoundsAssumption == MaxTries \in Nat /\ MaxBodies \in Nat

Shapes == {ShapeOrder[i] : i \in DOMAIN ShapeOrder}
ParentShapes == Shapes \ BridgeShapes
Families == {"v4", "v6"}

VARIABLES
    host,       \* what is on the docker host, see HostType
    child,      \* where the link a parent shape's container left is visible
    at,         \* index of the shape whose labctl run is next or running
    phase,      \* where that run is
    caller,     \* who called the NetworkUp that is running
    step,       \* index in the command list that is running
    tries,      \* attempts of that command
    errs,       \* NetworkDown has an error to return
    bodies,     \* bodies this run has started
    ended       \* how the labctl run before ended

vars == <<host, child, at, phase, caller, step, tries, errs, bodies, ended>>

command == <<step, tries>>
run == <<at, bodies, ended>>

\* A bridge is named by its shape: hostBridgeName is a hash of the network name.
HostType ==
    [master : BridgeShapes \cup {None},             \* what eth1 is enslaved to
     links  : SUBSET BridgeShapes,                  \* host bridges that exist
     config : BridgeShapes \cup {None},             \* the bridge in the one config file
     rules  : [Families -> [BridgeShapes -> Nat]],  \* copies of a FORWARD rule
     saved  : [Families -> [BridgeShapes -> Nat]],  \* what netfilter-persistent restores
     nets   : SUBSET Shapes]                        \* the docker networks

NoRules == [f \in Families |-> [b \in BridgeShapes |-> 0]]

Init ==
    /\ host = [master |-> None, links |-> {}, config |-> None,
               rules |-> NoRules, saved |-> NoRules, nets |-> {}]
    /\ child = "none"
    /\ at = 1
    /\ phase = "idle"
    /\ caller = "start"
    /\ step = 1
    /\ tries = 0
    /\ errs = FALSE
    /\ bodies = 0
    /\ ended = "none"

shape == ShapeOrder[at]

-----------------------------------------------------------------------------
\* What a command does to the host once it runs.  Commands that change nothing
\* on the segment (package installs, chmod, ifup --force) are left out of the
\* lists: they fail where the command behind them may fail.

\* bridgeReady's four reads.
Ready(b) ==
    /\ b \in host.links
    /\ host.master = b
    /\ \A f \in Families : host.rules[f][b] > 0

\* The configured bridge comes up with its port, without it, or not at all; the
\* kernel takes no NIC with a macvlan or ipvlan child as a port.
Raised(h, kids) ==
    LET up == [h EXCEPT !.links = @ \cup {h.config}]
    IN  IF h.config = None THEN {h}
        ELSE {h, up} \cup (IF kids = "none" THEN {[up EXCEPT !.master = h.config]} ELSE {})

Unlinked(b) ==
    [host EXCEPT !.links = @ \ {b}, !.master = IF @ = b THEN None ELSE @]

Less(count) == IF count > 0 THEN count - 1 ELSE 0

Reads == {"rule4_check", "rule6_check", "ready", "free_parent", "read_master", "read_link"}

Effect(cmd, b) ==
    \/ cmd = "net_rm" /\ \/ host' = [host EXCEPT !.nets = @ \ {b}]
                         \/ UNCHANGED host
    \/ cmd = "rule4_del" /\ host' = [host EXCEPT !.rules["v4"][b] = Less(@)]
    \/ cmd = "rule6_del" /\ host' = [host EXCEPT !.rules["v6"][b] = Less(@)]
    \/ cmd = "rule4_add" /\ host' = [host EXCEPT !.rules["v4"][b] = @ + 1]
    \/ cmd = "rule6_add" /\ host' = [host EXCEPT !.rules["v6"][b] = @ + 1]
    \/ cmd = "write_config" /\ host' = [host EXCEPT !.config = b]
    \/ cmd = "rm_config" /\ host' = [host EXCEPT !.config = None]
    \/ cmd = "apply" /\ host' \in Raised(host, child)
    \/ cmd = "ifdown" /\ host' = IF host.config = b THEN Unlinked(b) ELSE host
    \/ cmd = "nomaster" /\ host' = [host EXCEPT !.master = None]
    \/ cmd = "link_del" /\ \/ host' = Unlinked(b)
                           \/ host.config = b /\ UNCHANGED host
    \/ cmd = "save" /\ host' = [host EXCEPT !.saved = host.rules]
    \/ cmd = "create" /\ host' = [host EXCEPT !.nets = @ \cup {b}]
    \/ cmd \in Reads /\ UNCHANGED host

\* Whether a command of NetworkUp can answer with success at all.
Answers(cmd, b) ==
    CASE cmd = "rule4_check" -> host.rules["v4"][b] > 0
      [] cmd = "rule6_check" -> host.rules["v6"][b] > 0
      [] cmd = "ready"       -> Ready(b)
      [] cmd = "free_parent" -> host.master = None
      [] cmd = "create"      -> b \notin host.nets
      [] OTHER               -> TRUE

\* NetworkDown's commands for a shape.
DownCommands(b) ==
    IF b \notin BridgeShapes THEN <<"net_rm">>
    ELSE IF NetStack = "ifupdown"
      THEN <<"net_rm", "rule4_del", "rule6_del", "ifdown", "nomaster", "link_del",
             "rm_config", "save", "read_master", "read_link">>
      ELSE <<"net_rm", "rule4_del", "rule6_del", "rm_config", "apply", "nomaster",
             "link_del", "save", "read_master", "read_link">>

\* Slip: a parent shape does not read whether its NIC has a master.
SlipUpCommands(b) ==
    IF b \notin BridgeShapes THEN <<"create">>
    ELSE <<"write_config", "apply", "rule4_add", "rule6_add", "rule4_check", "rule6_check",
           "save", "ready", "create">>

\* NetworkUp's commands behind the NetworkDown it begins with.
UpCommands(b) ==
    IF b \notin BridgeShapes THEN <<"free_parent", "create">>
    ELSE <<"write_config", "apply", "rule4_add", "rule6_add", "rule4_check", "rule6_check",
           "save", "ready", "create">>

-----------------------------------------------------------------------------
\* The between-shapes step.

\* Slip: only the host's own listing is read.
SlipVisible(where) == where = "host"

\* What WaitParentClean's poll sees.
Visible(where) == where \in {"host", "namespace"}

\* A labctl run begins: the leftover containers of the cell are removed, and
\* WaitParentClean polls the host's links, and those of every other namespace it
\* can read, until there is no child or the window is over.
StartRun ==
    /\ phase = "idle"
    /\ at <= Len(ShapeOrder)
    /\ phase' = "parent"
    /\ bodies' = 0
    /\ errs' = FALSE
    /\ UNCHANGED <<host, child, at, caller, command, ended>>

Return(how) ==
    /\ phase' = "idle"
    /\ ended' = how
    /\ at' = at + 1

\* Clean, so NetworkUp begins; with a child left the shape is BLOCKED; a read
\* that fails ends the run.
ParentReady ==
    /\ phase = "parent"
    /\ \/ /\ ~Visible(child)
          /\ phase' = "updown"
          /\ caller' = "start"
          /\ step' = 1
          /\ tries' = 0
          /\ errs' = FALSE
          /\ UNCHANGED run
       \/ /\ Visible(child)
          /\ Return("blocked")
          /\ UNCHANGED <<caller, command, errs, bodies>>
       \/ /\ Return("error")
          /\ UNCHANGED <<caller, command, errs, bodies>>
    /\ UNCHANGED <<host, child>>

-----------------------------------------------------------------------------
\* NetworkDown, inside NetworkUp ("updown") and deferred ("enddown").

downPhase == phase \in {"updown", "enddown"}
downCommand == DownCommands(shape)[step]

\* Slip: a failure at the bound is not kept.
SlipDropped ==
    IF tries < MaxTries
      THEN step' = step /\ tries' = tries + 1 /\ errs' = errs
      ELSE step' = step + 1 /\ tries' = 0 /\ errs' = errs

\* Slip: one attempt too many.
SlipBound ==
    IF tries <= MaxTries
      THEN step' = step /\ tries' = tries + 1 /\ errs' = errs
      ELSE step' = step + 1 /\ tries' = 0 /\ errs' = TRUE

\* Slip: the deadline begins anew.
SlipDeadline ==
    step' = step /\ tries' = (IF tries < MaxTries THEN tries + 1 ELSE 0) /\ errs' = errs

\* runRetrying repeats a command whose ssh failed; at its bound the failure is
\* kept and NetworkDown goes on.
Dropped ==
    IF tries < MaxTries
      THEN step' = step /\ tries' = tries + 1 /\ errs' = errs
      ELSE step' = step + 1 /\ tries' = 0 /\ errs' = TRUE

DownAnswered ==
    /\ downPhase
    /\ step \in DOMAIN DownCommands(shape)
    /\ Effect(downCommand, shape)
    /\ step' = step + 1
    /\ tries' = 0
    /\ errs' = \/ errs
               \/ downCommand = "read_master" /\ host.master # None
               \/ downCommand = "read_link" /\ shape \in host.links
    /\ UNCHANGED <<child, phase, caller, run>>

\* The connection drops; the command has run, or not.
DownDropped ==
    /\ downPhase
    /\ step \in DOMAIN DownCommands(shape)
    /\ UNCHANGED host \/ Effect(downCommand, shape)
    /\ Dropped
    /\ UNCHANGED <<child, phase, caller, run>>

downDone == step > Len(DownCommands(shape))

\* Slip: an isolation that failed goes on without looking for the network.
SlipUpFailed ==
    /\ errs' = FALSE
    /\ \/ /\ caller = "start"
          /\ Return("error")
          /\ UNCHANGED <<bodies, command>>
       \/ /\ caller # "start"
          /\ phase' = IF caller = "gate" THEN "between" ELSE "gate"
          /\ UNCHANGED <<run, command>>

\* A NetworkUp that failed: at the start of the run cmdRun returns 1 and has not
\* deferred a NetworkDown yet; the gate BLOCKs its scenario; an isolation ends
\* the loop unless the network is still there.
UpFailed ==
    /\ errs' = FALSE
    /\ \/ /\ caller = "start"
          /\ Return("error")
          /\ UNCHANGED <<bodies, command>>
       \/ /\ caller = "gate"
          /\ phase' = "between"
          /\ UNCHANGED <<run, command>>
       \/ /\ caller = "isolate"
          /\ shape \in host'.nets
          /\ phase' = "gate"
          /\ UNCHANGED <<run, command>>
       \/ /\ caller = "isolate"
          /\ phase' = "enddown"
          /\ step' = 1
          /\ tries' = 0
          /\ UNCHANGED run

\* Slip: NetworkUp does not look at what NetworkDown returned.
SlipUpGoesOn ==
    /\ phase = "updown"
    /\ downDone
    /\ phase' = "up"
    /\ step' = 1
    /\ errs' = FALSE
    /\ UNCHANGED <<host, child, caller, tries, run>>

UpGoesOn ==
    /\ phase = "updown"
    /\ downDone
    /\ ~errs
    /\ phase' = "up"
    /\ step' = 1
    /\ UNCHANGED <<host, child, caller, tries, errs, run>>

UpRefuses ==
    /\ phase = "updown"
    /\ downDone
    /\ errs
    /\ UNCHANGED <<host, child, caller>>
    /\ UpFailed

\* The deferred NetworkDown's error is printed and changes no exit status.
EndRun ==
    /\ phase = "enddown"
    /\ downDone
    /\ Return(IF errs THEN "reported" ELSE "clean")
    /\ errs' = FALSE
    /\ UNCHANGED <<host, child, caller, command, bodies>>

-----------------------------------------------------------------------------
\* NetworkUp behind its NetworkDown.

upCommand == UpCommands(shape)[step]

UpAnswered ==
    /\ phase = "up"
    /\ step \in DOMAIN UpCommands(shape)
    /\ Answers(upCommand, shape)
    /\ Effect(upCommand, shape)
    /\ step' = step + 1
    /\ UNCHANGED <<child, phase, caller, tries, errs, run>>

\* A command fails: its own error, or a connection that dropped before or
\* behind its effect.
UpFails ==
    /\ phase = "up"
    /\ step \in DOMAIN UpCommands(shape)
    /\ \/ UNCHANGED host
       \/ Answers(upCommand, shape) /\ Effect(upCommand, shape)
    /\ UpFailed
    /\ UNCHANGED <<child, caller>>

UpDone ==
    /\ phase = "up"
    /\ step > Len(UpCommands(shape))
    /\ phase' = IF caller = "start" THEN "between" ELSE "gate"
    /\ UNCHANGED <<host, child, caller, command, errs, run>>

-----------------------------------------------------------------------------
\* The scenarios.

StartUp(who) ==
    /\ phase' = "updown"
    /\ caller' = who
    /\ step' = 1
    /\ tries' = 0
    /\ errs' = FALSE

\* The loop isolates a body of an IPAM shape from the one before it.
NextBody ==
    /\ phase = "between"
    /\ bodies < MaxBodies
    /\ bodies' = bodies + 1
    /\ IF shape \in IPAMShapes /\ bodies > 0
         THEN StartUp("isolate")
         ELSE phase' = "gate" /\ caller' = "start" /\ UNCHANGED <<command, errs>>
    /\ UNCHANGED <<host, child, at, ended>>

\* ensureBridgePresent: a bridge that is not ready, or whose read failed, is
\* rebuilt once; a rebuilt one is read once more.
GatePasses ==
    /\ phase = "gate"
    /\ shape \in BridgeShapes => Ready(shape)
    /\ phase' = "body"
    /\ UNCHANGED <<host, child, caller, command, errs, run>>

GateRebuilds ==
    /\ phase = "gate"
    /\ shape \in BridgeShapes
    /\ caller # "gate"
    /\ StartUp("gate")
    /\ UNCHANGED <<host, child, run>>

GateBlocks ==
    /\ phase = "gate"
    /\ shape \in BridgeShapes
    /\ caller = "gate"
    /\ phase' = "between"
    /\ UNCHANGED <<host, child, caller, command, errs, run>>

\* A reboot, by a body or by the power-cycle in front of a run or of the gate,
\* keeps what is on disk.
Reboot ==
    /\ \/ phase \in {"idle", "body"}
       \/ phase = "gate" /\ caller # "gate"
    /\ host' \in Raised([host EXCEPT !.master = None, !.links = {}, !.rules = host.saved], "none")
    /\ child' = "none"
    /\ UNCHANGED <<at, phase, caller, command, errs, bodies, ended>>

\* A body ends; the containers of a parent shape may leave a link behind, in
\* the host's own listing, in a namespace ip netns can enter, or in neither.
BodyEnds ==
    /\ phase = "body"
    /\ phase' = "between"
    /\ caller' = "start"
    /\ child' \in {child} \cup (IF shape \in ParentShapes THEN {"host", "namespace", "hidden"} ELSE {})
    /\ UNCHANGED <<host, command, errs, run>>

\* Docker or the plugin removes it some time later.
ChildGoes ==
    /\ child # "none"
    /\ child' = "none"
    /\ UNCHANGED <<host, at, phase, caller, command, errs, bodies, ended>>

ScenariosDone ==
    /\ phase = "between"
    /\ phase' = "enddown"
    /\ step' = 1
    /\ tries' = 0
    /\ errs' = FALSE
    /\ UNCHANGED <<host, child, caller, run>>

RunStep ==
    \/ StartRun \/ ParentReady
    \/ DownAnswered \/ DownDropped \/ UpGoesOn \/ UpRefuses \/ EndRun
    \/ UpAnswered \/ UpFails \/ UpDone
    \/ NextBody \/ GatePasses \/ GateRebuilds \/ GateBlocks \/ BodyEnds \/ ScenariosDone

Next == RunStep \/ Reboot \/ ChildGoes

Spec == Init /\ [][Next]_vars

\* labctl is one sequential process: its next command is always the one that runs,
\* and every command returns or loses its connection.
FairSpec == Spec /\ WF_vars(RunStep)

-----------------------------------------------------------------------------
\* Properties.

TypeOK ==
    /\ host \in HostType
    /\ child \in {"none", "host", "namespace", "hidden"}
    /\ at \in 1..(Len(ShapeOrder) + 1)
    /\ phase \in {"idle", "parent", "updown", "up", "between", "gate", "body", "enddown"}
    /\ phase # "idle" => at <= Len(ShapeOrder)
    /\ caller \in {"start", "gate", "isolate"}
    /\ step \in 1..11
    /\ tries \in 0..MaxTries
    /\ errs \in BOOLEAN
    /\ bodies \in 0..MaxBodies
    /\ ended \in {"none", "blocked", "error", "clean", "reported"}

\* A rebuild never piles a second copy of a bridge's ACCEPT rule on the first,
\* and no reboot restores one: one -D in NetworkDown takes back all that NetworkUp
\* added, whatever commands were lost (shape.go, forwardRuleDel).
RuleOnce ==
    \A f \in Families, b \in BridgeShapes : host.rules[f][b] <= 1 /\ host.saved[f][b] <= 1

\* A deferred NetworkDown that printed no error left nothing of its bridge, and no
\* power-cycle brings it back: not the link, not the NIC's master, not the config
\* file and no rule, in the kernel or in what a reboot restores.
CleanAfterDown ==
    phase = "idle" /\ ended = "clean" =>
        LET b == ShapeOrder[at - 1]
        IN  b \in BridgeShapes =>
                /\ host.master = None
                /\ b \notin host.links
                /\ host.config = None
                /\ \A f \in Families : host.rules[f][b] = 0 /\ host.saved[f][b] = 0

\* A NIC that an earlier shape's bridge still holds never becomes the parent of
\* a macvlan or ipvlan network, at the start of a run or between two bodies (#137).
ParentFreeAtCreate ==
    [][\A s \in ParentShapes : s \in host'.nets \ host.nets => host.master = None]_vars

\* A body of a parent shape has the network it is to run on, behind an isolation
\* whose recreate failed as well (IsolateIPAMNetwork's networkExists).
ParentBodyHasNetwork ==
    phase = "body" /\ shape \in ParentShapes => shape \in host.nets

\* The NetworkUp a run begins with never meets a child link of an earlier shape
\* that the host or a named namespace shows (#97).
NoChildAtStart ==
    phase \in {"updown", "up"} /\ caller = "start" => child \notin {"host", "namespace"}

\* Every labctl run comes to its end, whatever commands are lost: runRetrying has
\* a bound and the gate rebuilds once per body.
RunsEnd == phase # "idle" ~> phase = "idle"

\* What run-cell.sh's comment says: a labctl run that returned has torn its own
\* network down, unless it said that it could not.
OwnNetworkGone ==
    phase = "idle" /\ ended # "reported" /\ at > 1 =>
        LET b == ShapeOrder[at - 1]
        IN  b \in BridgeShapes => host.master # b
=============================================================================
