----------------------------- MODULE LabctlRun -----------------------------
(***************************************************************************)
(* labctl run (cmdRun in cmd/labctl/main.go): one shape of one cell.  The  *)
(* scenarios `labctl remaining` named are run one after the other against  *)
(* a docker host that may stop answering ssh, a plugin that may die and a  *)
(* source that may be left stopped; in front of each body stand the gates  *)
(* of runOneInner and runGated (internal/scenario/catalog.go), one of      *)
(* which may power-cycle the host (hostrecover.go).                        *)
(*                                                                         *)
(* A scenario body is what it may leave behind: its result, and any damage *)
(* to the host, the plugin, the bridge and the source.  An ssh call is a   *)
(* step that reads whether the host answers; its retries (RetryRunner) are *)
(* inside the step.  Slip... operators are plausible mistakes in the       *)
(* definition after them, to measure the properties against.               *)
(***************************************************************************)
EXTENDS Integers

CONSTANTS
    N,              \* scenarios 1..N are left to run, in catalog order
    StaticNA,       \* those the shape alone answers
    NotApplicable,  \* those Applicable or NAShapeReason answers
    Isolating,      \* TRUE: one of the two IPAM shapes
    Bridged,        \* TRUE: one of the two bridge shapes
    MaxResets,      \* HostRecovery.Max
    ReadyTries,     \* sourceReadyTries
    MaxFaults       \* bound: faults that no scenario body caused

ASSUME RunAssumption ==
    /\ N \in Nat
    /\ StaticNA \subseteq 1..N
    /\ NotApplicable \subseteq 1..N
    /\ Isolating \in BOOLEAN
    /\ Bridged \in BOOLEAN
    /\ MaxResets \in Nat
    /\ ReadyTries \in Nat \ {0}
    /\ MaxFaults \in Nat

VARIABLES
    pc,       \* the step cmdRun is about to take
    i,        \* the scenario the loop is at
    ran,      \* how many went through RunOne
    err,      \* the gate's error: "connect" is one IsConnectError accepts
    enabled,  \* the gate has re-enabled the plugin
    tried,    \* the gate has reset the host
    used,     \* HostRecovery.used
    note,     \* HostRecovery.note is not empty
    hostNote, \* the note runOneInner took for this scenario
    polls,    \* Ready polls after Recover
    result,   \* the verdict about to be written
    rows,     \* verdict of each scenario in the evidence directory
    rc,       \* exit status of labctl run
    host,     \* "up" answers ssh, "hung" does not
    plugin,   \* "ok", "dead" (no process), "gone" (not installed)
    net,      \* the shape's docker network exists
    hold,     \* that network still holds an earlier container's identity
    bridge,   \* the shape's bridge, its port and its rules are there
    source,   \* "ok", "down", or "lost" to Recover as well
    faults,   \* faults so far
    \* History.
    back,     \* resets after which the host answered
    lastUsed, \* resets at the end of the last body
    named,    \* scenarios whose verdict names a reset
    behind    \* scenarios whose body was the first after a power-cycle

gate     == <<err, enabled, tried>>
recovery == <<used, note, back>>
loop     == <<i, ran, hostNote, polls, result>>
report   == <<rows, rc>>
network  == <<net, hold, bridge>>
cell     == <<host, plugin, network, source>>
history  == <<lastUsed, named, behind>>
vars     == <<pc, loop, gate, recovery, report, cell, faults, history>>

Selected == 1..N
NoRow    == "none"
Written  == {"PASS", "FAIL", "NA", "BLOCKED"}
Results  == Written \cup {"ABORT", NoRow}
Running  == "running"

\* The steps, in the order of the code.
Steps == {"ready", "reset-ready", "leases", "parent", "netup", "next",
          "isolate", "isolate-wait", "inspect", "poll", "enable", "reset",
          "bridge", "applicable", "source", "body", "write", "down", "exit"}

Init ==
    /\ pc = "ready"
    /\ i = 1
    /\ ran = 0
    /\ err = "none"
    /\ enabled = FALSE
    /\ tried = FALSE
    /\ used = 0
    /\ note = FALSE
    /\ hostNote = FALSE
    /\ polls = 0
    /\ result = NoRow
    /\ rows \in [Selected -> {NoRow, "ABORT"}]
    /\ rc = Running
    /\ host \in {"up", "hung"}
    /\ plugin \in {"ok", "dead"}
    /\ net = FALSE
    /\ hold = FALSE
    /\ bridge = FALSE
    /\ source \in {"ok", "down"}
    /\ faults = 0
    /\ back = 0
    /\ lastUsed = 0
    /\ named = {}
    /\ behind = {}

-----------------------------------------------------------------------------
\* Leaving cmdRun: with the deferred NetworkDown once NetworkUp has succeeded,
\* without it before.
Leave(code, at) == rc' = code /\ pc' = at

\* Slip: a row that cannot be written ends the loop, not the run.
SlipBlockAll(code) ==
    \E k \in 0..N :
        /\ rows' = [s \in Selected |-> IF s <= k THEN "BLOCKED" ELSE rows[s]]
        /\ Leave(code, "exit")

\* The loops that write one BLOCKED row per scenario stop at the first row
\* that cannot be written.
BlockAll(code) ==
    \E k \in 0..N :
        /\ rows' = [s \in Selected |-> IF s <= k THEN "BLOCKED" ELSE rows[s]]
        /\ Leave(IF k = N THEN code ELSE "1", "exit")

\* Slip: the budget is per gate.
SlipMayReset == err = "connect" /\ ~tried

\* HostRecovery.Try's condition.
MayReset == err = "connect" /\ ~tried /\ used < MaxResets

\* WaitPluginReady, up to its bound; a host that does not answer to the end
\* leaves its ssh error in the chain.
WaitPluginReady ==
    /\ pc = "ready"
    /\ \/ /\ host = "up" /\ plugin = "ok"
          /\ pc' = "leases"
          /\ UNCHANGED <<err, report>>
       \/ /\ host = "hung"
          /\ err' = "connect"
          /\ pc' = "reset-ready"
          /\ UNCHANGED report
       \/ /\ host = "up" /\ plugin # "ok"
          /\ err' = "other"
          /\ pc' = "reset-ready"
          /\ UNCHANGED report
    /\ UNCHANGED <<loop, enabled, tried, recovery, cell, faults, history>>

\* The gate that failed without a reset, or again after one.
ShapeBlocked ==
    /\ pc = "reset-ready"
    /\ ~MayReset
    /\ BlockAll("0")
    /\ UNCHANGED <<loop, gate, recovery, cell, faults, history>>

\* ResetLeases, the lease-reset note and the pool capacity check.
ResetLeases ==
    /\ pc = "leases"
    /\ \/ source = "ok" /\ pc' = "parent" /\ UNCHANGED report
       \/ Leave("1", "exit") /\ UNCHANGED rows
       \/ source = "ok" /\ BlockAll("3")
    /\ UNCHANGED <<loop, gate, recovery, cell, faults, history>>

\* ParentReady: leftover containers go, then a bounded wait for the NIC.
ParentReady ==
    /\ pc = "parent"
    /\ \/ host = "up" /\ pc' = "netup" /\ UNCHANGED report
       \/ Leave("1", "exit") /\ UNCHANGED rows
       \/ host = "up" /\ BlockAll("0")
    /\ UNCHANGED <<loop, gate, recovery, cell, faults, history>>

\* NetworkUp removes the old network before it builds the new one, and may
\* fail before, between and after the two.  An IPAM shape then opens
\* isolation.log, with the network's teardown already deferred.
NetworkUpOK ==
    /\ host = "up"
    /\ net' = TRUE
    /\ hold' = FALSE
    /\ bridge' = Bridged

NetworkUpFails ==
    /\ net' \in BOOLEAN /\ (net' => net)
    /\ hold' = (hold /\ net')
    /\ bridge' \in BOOLEAN /\ (bridge' => bridge \/ Bridged)
    /\ host = "hung" => UNCHANGED <<net, bridge>>

NetworkUp ==
    /\ pc = "netup"
    /\ \/ NetworkUpOK /\ pc' = "next" /\ UNCHANGED report
       \/ NetworkUpOK /\ Isolating /\ Leave("1", "down") /\ UNCHANGED rows
       \/ NetworkUpFails /\ Leave("1", "exit") /\ UNCHANGED rows
    /\ UNCHANGED <<loop, gate, recovery, host, plugin, source, faults,
                   history>>

-----------------------------------------------------------------------------
\* Slip: isolation is for a scenario behind one that ran its body.
SlipNeedsIsolation == ran > 0 /\ rows[i - 1] \in {"PASS", "FAIL"}

\* runScenarios.  A scenario the shape answers is written without RunOne; in
\* an IPAM shape every RunOne but the first has an isolation before it.
NeedsIsolation == ran > 0

StaticRow ==
    /\ pc = "next"
    /\ i \in StaticNA
    /\ \/ /\ rows' = [rows EXCEPT ![i] = "NA"]
          /\ i' = i + 1
          /\ UNCHANGED <<pc, rc>>
       \/ Leave("1", "down") /\ UNCHANGED <<rows, i>>
    /\ UNCHANGED <<ran, hostNote, polls, result, gate, recovery, cell, faults,
                   history>>

NextScenario ==
    /\ pc = "next"
    /\ i \in Selected \ StaticNA
    /\ pc' = IF Isolating /\ NeedsIsolation THEN "isolate" ELSE "inspect"
    /\ ran' = IF Isolating /\ NeedsIsolation THEN ran ELSE ran + 1
    /\ err' = "none" /\ enabled' = FALSE /\ tried' = FALSE
    /\ UNCHANGED <<i, hostNote, polls, result, recovery, report, cell, faults,
                   history>>

AllRun ==
    /\ pc = "next"
    /\ i > N
    /\ Leave("0", "down")
    /\ UNCHANGED <<loop, gate, recovery, rows, cell, faults, history>>

\* IsolateIPAMNetwork: a fresh network, or the old one once its identity
\* hold has run out; either is then noted in isolation.log.
Isolated ==
    \/ pc' = "inspect" /\ ran' = ran + 1 /\ UNCHANGED report
    \/ Leave("1", "down") /\ UNCHANGED <<ran, rows>>

Isolate ==
    /\ pc = "isolate"
    /\ \/ NetworkUpOK /\ Isolated
       \/ NetworkUpFails /\ pc' = "isolate-wait" /\ UNCHANGED <<ran, report>>
    /\ UNCHANGED <<i, hostNote, polls, result, gate, recovery, host, plugin,
                   source, faults, history>>

\* Slip: the wait alone, for a network that is taken to be there.
SlipIsolateWait ==
    /\ pc = "isolate-wait"
    /\ hold' = FALSE
    /\ Isolated
    /\ UNCHANGED <<i, hostNote, polls, result, gate, recovery, host, plugin,
                   net, bridge, source, faults, history>>

\* networkExists: an inspect that could not be made counts as no network.
IsolateWait ==
    /\ pc = "isolate-wait"
    /\ \/ /\ host = "up" /\ net
          /\ hold' = FALSE
          /\ Isolated
       \/ /\ ~(host = "up" /\ net)
          /\ Leave("1", "down")
          /\ UNCHANGED <<ran, hold, rows>>
    /\ UNCHANGED <<i, hostNote, polls, result, gate, recovery, host, plugin,
                   net, bridge, source, faults, history>>

-----------------------------------------------------------------------------
\* ensurePluginKnownState, the gate in front of every RunOne.
GateError(e) == err' = e /\ pc' = "reset"

\* Slip: the note is cleared before it is read.
SlipTakeNote ==
    /\ hostNote' = FALSE
    /\ note' = FALSE

\* runOneInner takes the reset's note once the gate has its answer.
TakeNote ==
    /\ hostNote' = note
    /\ note' = FALSE

GatePasses == TakeNote /\ pc' = "bridge" /\ UNCHANGED err

InspectPlugin ==
    /\ pc = "inspect"
    /\ \/ host = "hung" /\ GateError("connect")
       \/ host = "up" /\ plugin = "gone" /\ GateError("other")
       \/ host = "up" /\ plugin # "gone" /\ pc' = "poll" /\ UNCHANGED err
    /\ UNCHANGED <<loop, enabled, tried, recovery, report, cell, faults,
                   history>>

\* waitPluginBack: the process is there, or is not for a whole bound.
PollPlugin ==
    /\ pc = "poll"
    /\ \/ host = "up" /\ plugin = "ok" /\ GatePasses
       \/ /\ ~(host = "up" /\ plugin = "ok")
          /\ \/ ~enabled /\ pc' = "enable" /\ UNCHANGED err
             \/ enabled /\ GateError("other")
          /\ UNCHANGED <<note, hostNote>>
    /\ UNCHANGED <<i, ran, polls, result, enabled, tried, used, back, report,
                   cell, faults, history>>

EnablePlugin ==
    /\ pc = "enable"
    /\ \/ /\ host = "hung"
          /\ GateError("connect")
          /\ UNCHANGED <<enabled, plugin>>
       \/ /\ host = "up"
          /\ GateError("other")
          /\ UNCHANGED <<enabled, plugin>>
       \/ /\ host = "up" /\ plugin # "gone"
          /\ plugin' \in {"ok", "dead"}
          /\ enabled' = TRUE
          /\ pc' = "poll"
          /\ UNCHANGED err
    /\ UNCHANGED <<loop, tried, recovery, report, host, network, source,
                   faults, history>>

\* HostRecovery.Try: virsh reset, else virsh start, then a bounded wait for
\* ssh and docker; only a host that came back is noted, and its gate run again.
Rebooted == plugin' \in (IF plugin = "gone" THEN {"gone"} ELSE {"ok", "dead"})

PowerCycle ==
    /\ pc \in {"reset", "reset-ready"}
    /\ MayReset
    /\ used' = used + 1
    /\ tried' = TRUE
    /\ enabled' = FALSE
    /\ Rebooted
    /\ bridge' \in BOOLEAN /\ (bridge' => bridge)
    /\ \/ /\ host' = "up"
          /\ note' = TRUE
          /\ back' = back + 1
          /\ err' = "none"
          /\ pc' = IF pc = "reset" THEN "inspect" ELSE "ready"
       \/ /\ host' \in {"up", "hung"}
          /\ UNCHANGED <<note, back, err, pc>>
    /\ UNCHANGED <<loop, report, net, hold, source, faults, history>>

\* The gate's answer is an error: this scenario is BLOCKED.
ScenarioBlocked ==
    /\ pc = "reset"
    /\ ~MayReset
    /\ TakeNote
    /\ named' = IF hostNote' THEN named \cup {i} ELSE named
    /\ result' = "BLOCKED"
    /\ pc' = "write"
    /\ UNCHANGED <<i, ran, polls, gate, used, back, report, cell, faults,
                   lastUsed, behind>>

-----------------------------------------------------------------------------
\* Slip: the note is added to the reason and the result stays.
SlipVerdict(v) ==
    /\ result' = v
    /\ named' = IF hostNote THEN named \cup {i} ELSE named
    /\ pc' = "write"

\* runGated, whose verdict runOneInner then marks with the reset's note: what
\* passed on a power-cycled host is BLOCKED.
Verdict(v) ==
    /\ result' = IF hostNote /\ v = "PASS" THEN "BLOCKED" ELSE v
    /\ named' = IF hostNote THEN named \cup {i} ELSE named
    /\ pc' = "write"

\* Slip: any bridge of that name will do, whatever its port and rules.
SlipEnsureBridge ==
    /\ pc = "bridge"
    /\ pc' = "applicable"
    /\ UNCHANGED <<network, loop, gate, recovery, report, host, plugin,
                   source, faults, history>>

\* ensureBridgePresent: a bridge shape's bridge is rebuilt with NetworkUp,
\* and read once more.
EnsureBridge ==
    /\ pc = "bridge"
    /\ \/ /\ ~Bridged \/ (host = "up" /\ bridge)
          /\ pc' = "applicable"
          /\ UNCHANGED <<network, result, named>>
       \/ /\ Bridged /\ ~(host = "up" /\ bridge)
          /\ \/ NetworkUpOK /\ pc' = "applicable" /\ UNCHANGED <<result, named>>
             \/ (NetworkUpOK \/ NetworkUpFails) /\ Verdict("BLOCKED")
    /\ UNCHANGED <<i, ran, hostNote, polls, gate, recovery, report, host,
                   plugin, source, faults, lastUsed, behind>>

Applicable ==
    /\ pc = "applicable"
    /\ \/ i \in NotApplicable /\ Verdict("NA")
       \/ i \notin NotApplicable /\ pc' = "source" /\ UNCHANGED <<result, named>>
    /\ polls' = 0
    /\ UNCHANGED <<i, ran, hostNote, gate, recovery, report, cell, faults,
                   lastUsed, behind>>

\* ensureSourceReady: Ready, else Recover once, then Ready up to ReadyTries
\* times.
SourceReady ==
    /\ pc = "source"
    /\ source = "ok"
    /\ pc' = "body"
    /\ UNCHANGED <<loop, gate, recovery, report, cell, faults, history>>

RecoverSource ==
    /\ pc = "source"
    /\ source # "ok"
    /\ polls = 0
    /\ \/ /\ source' \in (IF source = "down" THEN {"ok", "down"} ELSE {source})
          /\ polls' = 1
          /\ UNCHANGED <<pc, result, named>>
       \/ Verdict("BLOCKED") /\ UNCHANGED <<source, polls>>
    /\ UNCHANGED <<i, ran, hostNote, gate, recovery, report, host, plugin,
                   network, faults, lastUsed, behind>>

\* Slip: the wait for Ready has no bound.
SlipPollSource ==
    /\ pc = "source"
    /\ source # "ok"
    /\ polls > 0
    /\ polls' = IF polls < ReadyTries THEN polls + 1 ELSE 1
    /\ UNCHANGED <<pc, result, named, i, ran, hostNote, gate, recovery, report,
                   cell, faults, lastUsed, behind>>

PollSource ==
    /\ pc = "source"
    /\ source # "ok"
    /\ polls > 0
    /\ \/ /\ polls < ReadyTries
          /\ polls' = polls + 1
          /\ UNCHANGED <<pc, result, named>>
       \/ /\ polls = ReadyTries
          /\ Verdict("BLOCKED")
          /\ UNCHANGED polls
    /\ UNCHANGED <<i, ran, hostNote, gate, recovery, report, cell, faults,
                   lastUsed, behind>>

\* The scenario body.  It reboots the host, kills, upgrades and removes the
\* plugin, stops the source and starts containers, and may end at any point.
Body(v) ==
    /\ pc = "body"
    /\ v = "PASS" => host = "up" /\ net
    /\ host' \in {host, "hung"}
    /\ plugin' \in {plugin, "dead", "gone"}
    /\ bridge' \in BOOLEAN /\ (bridge' => bridge)
    /\ source' \in {source, "down", "lost"}
    /\ hold' \in BOOLEAN /\ (hold' => hold \/ (net /\ Isolating))
    /\ behind' = IF used > lastUsed THEN behind \cup {i} ELSE behind
    /\ lastUsed' = used
    /\ Verdict(v)
    /\ UNCHANGED <<i, ran, hostNote, polls, gate, recovery, report, net,
                   faults>>

WriteVerdict ==
    /\ pc = "write"
    /\ \/ /\ rows' = [rows EXCEPT ![i] = result]
          /\ i' = i + 1
          /\ pc' = "next"
          /\ UNCHANGED rc
       \/ Leave("1", "down") /\ UNCHANGED <<rows, i>>
    /\ result' = NoRow
    /\ hostNote' = FALSE
    /\ UNCHANGED <<ran, polls, gate, recovery, cell, faults, history>>

\* The deferred NetworkDown; its error is only printed.
NetworkDown ==
    /\ pc = "down"
    /\ net' \in BOOLEAN /\ (net' => net)
    /\ hold' = (hold /\ net')
    /\ bridge' \in BOOLEAN /\ (bridge' => bridge)
    /\ host = "hung" => UNCHANGED <<net, bridge>>
    /\ pc' = "exit"
    /\ UNCHANGED <<loop, gate, recovery, report, host, plugin, source, faults,
                   history>>

-----------------------------------------------------------------------------
\* What happens to the cell by itself.
Fault ==
    /\ pc # "exit"
    /\ faults < MaxFaults
    /\ faults' = faults + 1
    /\ \/ host' = "hung" /\ UNCHANGED <<plugin, source>>
       \/ plugin = "ok" /\ plugin' = "dead" /\ UNCHANGED <<host, source>>
       \/ source = "ok" /\ source' = "down" /\ UNCHANGED <<host, plugin>>
    /\ UNCHANGED <<pc, loop, gate, recovery, report, network, history>>

\* A host that boots late, a plugin dockerd restarts, a source that is back;
\* the plugin forgets an identity after a minute.
Heal ==
    /\ pc # "exit"
    /\ \/ host = "hung" /\ host' = "up" /\ UNCHANGED <<plugin, source, hold>>
       \/ /\ host = "up" /\ plugin = "dead" /\ plugin' = "ok"
          /\ UNCHANGED <<host, source, hold>>
       \/ source = "down" /\ source' = "ok" /\ UNCHANGED <<host, plugin, hold>>
       \/ hold /\ hold' = FALSE /\ UNCHANGED <<host, plugin, source>>
    /\ UNCHANGED <<pc, loop, gate, recovery, report, net, bridge, faults,
                   history>>

Labctl ==
    \/ WaitPluginReady \/ ShapeBlocked \/ ResetLeases \/ ParentReady
    \/ NetworkUp \/ StaticRow \/ NextScenario \/ AllRun
    \/ Isolate \/ IsolateWait
    \/ InspectPlugin \/ PollPlugin \/ EnablePlugin \/ PowerCycle
    \/ ScenarioBlocked
    \/ EnsureBridge \/ Applicable
    \/ SourceReady \/ RecoverSource \/ PollSource
    \/ \E v \in Written : Body(v)
    \/ WriteVerdict \/ NetworkDown

Finished == pc = "exit" /\ UNCHANGED vars

Next == Labctl \/ Fault \/ Heal \/ Finished

Spec == Init /\ [][Next]_vars

\* Every wait inside labctl run has a bound of its own.
FairSpec == Spec /\ WF_vars(Labctl)

-----------------------------------------------------------------------------
FlagsOK ==
    /\ enabled \in BOOLEAN /\ tried \in BOOLEAN
    /\ note \in BOOLEAN /\ hostNote \in BOOLEAN
    /\ net \in BOOLEAN /\ hold \in BOOLEAN /\ bridge \in BOOLEAN

CountsOK ==
    /\ i \in 1..(N + 1)
    /\ ran \in 0..N
    /\ used \in 0..MaxResets
    /\ back \in 0..used
    /\ lastUsed \in 0..used
    /\ polls \in 0..ReadyTries
    /\ faults \in 0..MaxFaults
    /\ named \subseteq Selected
    /\ behind \subseteq Selected

ValuesOK ==
    /\ pc \in Steps
    /\ err \in {"none", "connect", "other"}
    /\ result \in Written \cup {NoRow}
    /\ rows \in [Selected -> Results]
    /\ rc \in {Running, "0", "1", "3"}
    /\ host \in {"up", "hung"}
    /\ plugin \in {"ok", "dead", "gone"}
    /\ source \in {"ok", "down", "lost"}

\* Every variable keeps its type; the counters stay within the scenarios of
\* the list, the reset budget of HostRecovery and the polls of
\* ensureSourceReady.
TypeOK == FlagsOK /\ CountsOK /\ ValuesOK

\* One failure never cascades: whatever the bodies before it left behind, a
\* body starts with the host, the plugin, the bridge and the source in the
\* state the gates establish (a fault of the lab's own apart).
StartsClean ==
    pc = "body" /\ faults = 0 =>
        /\ host = "up"
        /\ plugin = "ok"
        /\ source = "ok"
        /\ Bridged => bridge

\* In an IPAM shape no body starts on a network that still holds an earlier
\* scenario's DHCP identity, however that scenario ended.
NoInheritedIdentity == Isolating /\ pc = "body" => ~hold

\* In the IPAM shapes a body has the shape's network to start its containers
\* on, IsolateIPAMNetwork or a rebuild of the bridge having failed or not.  (In
\* the plain bridge shape a failed rebuild may leave none: shape.go:302.)
BodyHasNetwork == pc = "body" => net

\* Exit status 0 tells run-cell.sh that every scenario has a row, and 3 that
\* every one of them is BLOCKED: it writes abort rows for neither.
StatusAnswers ==
    /\ rc = "0" => \A s \in Selected : rows[s] \in Written
    /\ rc = "3" => \A s \in Selected : rows[s] = "BLOCKED"

\* A reset the host came back from shows in the rows of a finished run: some
\* scenario's verdict names it, and no verdict that names one is PASS.
ResetShows ==
    /\ \A s \in named : rows[s] # "PASS"
    /\ rc = "0" /\ ran > 0 /\ back > 0 => named # {}

\* labctl run ends, whatever the bodies leave and whatever the cell does.
RunEnds == <>(pc = "exit")

\* README.md: a scenario that passes behind a reset is reported BLOCKED,
\* never PASS.
NoPassBehindReset == \A s \in behind : rows[s] # "PASS"

=============================================================================
