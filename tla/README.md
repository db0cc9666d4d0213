# A verification project for docker-net-dhcp-lab

The lab boots *cells* of VMs (a DHCP server, a docker host with the
docker-net-dhcp plugin, an observer that records the segment between them), runs
a catalogue of scenarios in five network shapes on each, and packs one verdict
per scenario and shape into an evidence bundle. These modules model the part of
it whose mistakes are hard to see in a test: a run of several hours over flaky
VMs that is killed, resumed, retried and torn down, and whose output has to be
*trustworthy*: no verdict lost or replaced, none measured on a cell somebody
else had already broken, nothing left on the host.

Paths are relative to the repository (`scripts/run-cells.sh`); `file:line` gives
the code. `PROJECT.json` maps every definition to its lines.

## 1. The system

```
run-cells.sh          the job pool of a host: slots, queue, retry pass, traps
  run-cell.sh         one cell: up, capture, 5 shapes, capture checks, down
    up-cell.sh, down-cell.sh, capture-*.sh
    labctl remaining | run | abort-blocked      (cmd/labctl)
      labctl run      one shape: gates, network, scenario loop, verdict files
        RunOne        one scenario: plugin gate, bridge gate, source gate, body
          docker host (ssh)          internal/scenario
          DHCP server (ssh, API)     internal/sourceadapter
pack.sh, labctl matrix               evidence bundle -> results page
```

| part | state it keeps | operations | hard behaviour | correct means |
|---|---|---|---|---|
| **job pool** `scripts/run-cells.sh` | queue, `RUNNING`, `PID_CELL`, `RC`, `logs/*.rc`, `RETRIED`, image markers | fill, gate, start, reap, tear down, retry pass, judge, trap | concurrent cells; a signal between any two commands; other users of the host; teardown that fails; resumed evidence | never more than `-j` cells; every cell answered once; exit 0 vouches for every verdict; no measured verdict is lost; nothing is started on top of another run's domains |
| **cell run** `scripts/run-cell.sh`, `down-cell.sh`, `capture-*.sh`, `labctl remaining/abort-blocked` | evidence directory: verdict rows, capture-check files, captures; work directory; VMs, observers | up, capture start/stop, relay probe, shape loop, regenerate, down | `set -e` at most commands and `\|\| true` at others; kill at any command; resume over what is there; half-written files | a verdict is written once; a green pass is complete; an aborted one says so; the capture check a verdict names is decided by its own pass's capture |
| **labctl run** `cmd/labctl/main.go`, `catalog.go`, `hostrecover.go`, `static_na.go` | position in the list, reset budget and note, network, rows, exit status | shape gate, lease reset, parent gate, NetworkUp, per-scenario gates, power-cycle, isolation, body, write, NetworkDown | every gate may time out; the host may hang, reboot, come back late; a body leaves the cell in any state | one failure never cascades into the next body; a reset is visible in the rows; the exit status answers for the rows |
| **segment network** `shape.go`, `teardown.go`, `parentclean.go` | on the docker host: bridge, enslaved NIC, config file, FORWARD rules, saved rules, docker network, child links | NetworkUp/Down as command lists, waits for a clean parent, bridge gate, isolation | a command whose connection drops has run or has not; reboots restore what is on disk; nested retries | one shape's network never reaches the next one; rules exist once; a macvlan parent is free when used |
| **ssh connection** `sourceadapter/retry.go`, `ssh.go` | shared `down` flag | Run | concurrent callers, deadlines, a guest that comes and goes | a started command is not run again; a dead guest costs its bound once |
| **source adapters** `adapter.go`, `readiness.go`, one file per server | server-side config, lease store | Ready, Recover, ResetLeases, Leases, Drop/Restore, features | different restart and persistence semantics per server | Ready means it answers; lease reset leaves none; a toggle is taken back |
| **failover pairs, relay** `pair.go`, `ha_*.go`, `relay.go` | two peers, their HA state, the relay's config | start/stop a peer, sample states, relay toggles | peers that change state while a scenario runs | the sample is about the same moment as the exchange |
| **scenario bodies** `scenarios_*.go`, `groupX_host.go` | containers, disturbances (firewall loss, stopped source, rebooted host) | 68 bodies | a failure between a disturbance and its restore | everything a body set is taken back on every path |
| **judges** `*_judge.go`, `ledger.go`, `capture*.go` | none | pure functions over leases and frames | boundaries of windows and lease times | PASS only when lease table and capture agree |
| **results matrix** `internal/matrix` | none | LoadBundle, Render | partial bundles | one cell and one commit per bundle |
| **lab description** `internal/labyaml` | none | Validate | cross-references | an accepted file can be brought up |
| **coverage tables** `internal/coverage` | none | Generate, Check | - | generated = committed |
| **VM bring-up** `up-cell.sh`, `up-source.sh`, `up-relay.sh`, `build-bridge.sh`, ... | domains, disks, bridges | up, down | failure half-way | down removes whatever up made |
| **containment, segment firewall** `containment-*.sh`, `lab-seg-firewall.sh` | nft rules of the lab host | on, off, check | concurrent cells share one rule set | no frame of a cell leaves it |
| image builders, packing, home router run, repository checks, guest files | files | one-off tools | - | - |

How the parts interact: the pool starts `run-cell.sh` in a session of its own
and learns its exit status and nothing else; both read and write
`evidence/<cell>`, the only thing that outlives a run. `run-cell.sh` calls
`labctl` per shape and reads its exit status (0, 1, 3). `labctl run` talks to the
docker host and the server over ssh only. The evidence directory is shared by
*successive* passes, the host by *concurrent* cells and runs, the docker host's
segment NIC by the *successive* shapes of one cell.

## 2. The modules

| module | models | abstract data |
|---|---|---|
| `RunCells` | `run-cells.sh`: pool, retry pass, trap, other users | a cell's script = its domains, rows and exit status; the queue is a set |
| `CellRun` | several passes of `run-cell.sh` over one evidence directory | one `labctl run` = the rows it writes and its exit code |
| `VerdictStore` | *abstract*: what an evidence directory promises | questions and answers |
| `LabctlRun` | one `labctl run` of one shape | the docker host is up/hung, the plugin ok/dead/gone, the source ok/down/lost |
| `SegmentNet` | the segment NIC over all shapes of a pass | commands by their effect on the host |
| `HostAccess` | the retrying ssh runner, and the reboot wait and plugin wait on top of it | a command is "started" or not; a boot is a number |
| `SourceState` | the nine source adapters: what each change, restore, recovery and readiness check does to config files, daemons, addresses and actors | a config file is the set of edits it carries |
| `BodySteps` | the vocabulary a scenario body is written in | one step = one command or judgement |
| `BodiesAB`, `BodiesC`, `BodiesDEF` | every scenario of the catalog as a program of steps | container and network names by their role |
| `ScenarioBodies` | the interpreter: readiness gate, body, cleanup stack, next scenario, next process, kills | what is read and judged is a free answer |
| `BodyRules` | what the bodies have in common: which cleanup is deferred before which step, what is read before a pass | conditions on a program's steps |
| `MC...` | constants for TLC | |
| `...Proofs` | theorems and proofs about the module named; of `ScenarioBodies`, what is left of the source is in `ScenarioSourceProofs` | |

The models meet at named interfaces: `RunCells`' `CellMeasure`, `CellShapeFails`,
`CellDies` are what `CellRun` does step by step; `CellRun`'s `RunBody` /
`WriteVerdict` / `LabctlFails` / `LabctlEnds` are what `LabctlRun` does;
`LabctlRun`'s `NetworkUpOK`, `NetworkUpFails`, `Isolate` and `NetworkDown` are the
command lists of `SegmentNet`; its body step and its source gate are
`ScenarioBodies`, and a gate's answer `connect` or `other` is an answer of
`HostAccess`. Each upper module allows at least what the lower one does (a failing
NetworkUp may leave any part of the old network, a body of `LabctlRun` may leave
the source down or lost). `ScenarioBodies` in turn leaves the gates that look at
the plugin's process, the host and the shape's own network to `LabctlRun` and
`SegmentNet`.

### RunCells
`pc` names the command the main shell is about to run, `cur` the cell it is about.
bash runs a trap between two commands, or behind the foreground command it waits
for, so every action of the main shell is guarded by `At(...)` (no signal
pending) except the end of `down-cell.sh` (`TeardownEnd`), and `TrapEnter` may
come at any other command. `SignalShell` is `kill`; `SignalGroup` is Ctrl-C, which
also kills a `down-cell.sh` in the foreground; cells run under `setsid` and get
neither. `PoolFill`, `ImageGate`, `WaitForDisk`, `CheckHost`, `Spawn`, `Record`
are `start_cell` command by command; `ReapOne`, `TeardownStart/End` are
`reap_one`; `RetryScan`, `RetryStart` are `retry_pass`; `FlagMostlyBlocked` and
`Exit` the end of the script; `TrapStop` ... `TrapExit` are `on_signal`.
`OtherDefines` / `OtherRemoves` are other runs on the same host.

### CellRun and VerdictStore
One behaviour is a sequence of passes. `rows` are the verdict files (a row may be
*torn*: `os.WriteFile` truncates first), `cited` the pass whose capture check a
verdict names, `checks` the capture-check files (which pass's exchange, which pass's
observer last heard its MAC, judged by which pass's capture), `pcaps` the captures per
name suffix, `moved` what `down-cell.sh` saved from a work directory. `Judgements`
looks up the MAC alone, as `capture-check-regenerate.sh` does. Most containers get a
new MAC in every pass; `FixedMac` are the scenarios whose container does not (B1:
`fixedMACForScenario`), and `HeardAgain` is such a scenario run again and ending before
`corroborate`, which puts the MAC of an earlier pass's deferred file in this pass's
capture. `CitedCheckIsOwn` is therefore about the checks verdicts name (section 3). `Kill` may come
at any command. Between passes `MoveAside` is the pool's retry pass. `VerdictStore`
says what that comes to for a reader: answers are only added while a pass runs,
and leave only between two passes; `AnsweredOnce` is the refinement
`Store!Spec`, with `answered` mapped to the measured rows and `running` to "a pass
is under way".

### LabctlRun
`pc` follows `cmdRun`, `runScenarios`, `RunOne`, `runOneInner`, `runGated`. A gate's
answer is `err`: `connect` (which alone entitles to a power-cycle) or `other`.
`used` / `note` / `tried` are `HostRecovery`. A body may leave the host hung, the
plugin dead or gone, the source down or lost (down for good), the bridge gone, an
identity held. `Fault` is what happens to the cell by itself (bounded by
`MaxFaults`), `Heal` is what comes back by itself.
`hold` is the DHCP identity the plugin keeps for a minute, which is why an IPAM
shape rebuilds its network between scenarios.

### SegmentNet
`host` is what is on the docker host: the bridge `eth1` is enslaved to, the links,
the one config file, the FORWARD rules per family and their saved copy, the
docker networks. NetworkUp and NetworkDown are lists of commands
(`UpCommands`, `DownCommands`); each runs, or its connection drops before or
behind its effect and `runRetrying` repeats it. `Reboot` restores what is on
disk. `child` is the macvlan/ipvlan link a container left and where it is
visible: in the host, in a named namespace, or nowhere yet.

### HostAccess
`call[c]` is one caller's `Run`: an attempt dials (`Dial`, `Refused`), has started
its command (`sent`: `Reply`, `Dropped`) or pauses before the next (`Resume`); `Cut`
is `exec.CommandContext` killing ssh at the deadline. `down` is the flag all callers
share. `AttemptFailed` is the order of `RetryRunner.Run`'s tests. The wait is one
more caller: `AskBootID` ... `GotSecondID`, `AskDocker` are `waitHostRebooted`,
`AskPlugin`, `GotPlugin` are `waitPluginReady`. `Tick` waits for whoever has
something due, so a bound is missed only by what may really take longer.

### SourceState and ScenarioBodies
`src` is the source of the cell: its `disk` (per config file the edits it carries),
what each daemon `serves` (the file it last read), the segment addresses, the units
that are `up` and the `actors` on its segment leg. `Homes` says which file an edit
goes to on which adapter, `Withheld` what an adapter refuses (its `Supports...`
answers and early errors), `Bare` which setters do not put the config back when they
fail. `Set` / `SetFailed` / `SetFailedTwice` are a setter that works, one that
answers an error, and one whose own way back fails too; `Restored` / `RestoreLost`
are its restore. Failing operations are *sets* of outcomes: the command did or did
not run, the file was or was not written, the daemon did or did not come up.
`Ready`, `Recovered` and `RecoverFailed` are `readiness.go`. A setter that finds its
edit in the file already `Refuses`; a lease time and an advertisement `MayRefuse`,
since what they look for is the line they edit, which another value may have left.

A body is a sequence of `BodySteps`, read off its Go function top to bottom: a
step that may return lists the verdicts it returns; a `defer` is `Later(...)`, at
the place it stands; a closure with defers of its own is `Inner`; a branch only some
cells take is `Maybe`. `ScenarioBodies` runs it: `BodyStep` has one action per kind
of step, `Unwind` one per kind of cleanup, last in first out, with the two ways the
bodies treat a restore's error (`told`: the verdict becomes BLOCKED, `quiet`: it is
dropped). `fresh` and `judged` say whether something was read since the last
change. `Killed` is labctl's process ending between two steps; `NextBody("new")` is
the next shape's process, which takes its own baseline.

`BodyRules` states the discipline the Go functions follow, as conditions on the
steps of one program and nothing else: `RemovesBoxes` (the removal of a container is
deferred before its start, or it is in a list whose removal is), `RemovesNets` and
`NetsFirst` (the removal of a network is deferred before it is made and before a
cleanup of a container on it), `PutsMainBack`, `Upgrades` (behind an
`install-previous` every way to a pass upgrades), `Measures` (a body judges, or looks
once more behind everything it does), `LiftsFirst` (behind a deferred wait for a
docker run the next thing deferred is the lift of the loss) and `EditsNest` (an edit
on which another one was made is left to its deferred restore, one in force is not
made again, a restore called in the body is of a change its own function has made,
and a reservation comes before any edit). `RulesAssumption` asks
them of every program; TLC evaluates it on the whole catalog whenever it runs
`MCScenarioBodies`, so a body that is changed against a rule stops the run.
`LeavesItsNetwork` names the one body that breaks a rule: A13 defers the removal of
its network *behind* the container's, so Docker refuses it on every way out
(section 3), and `CellAsFound` excepts that network.

## 3. Runs

Bounds are chosen so that each property's mutant is found under them; every
mutant listed in `PROJECT.json` is a plausible mistake in one mapped definition
(the `Slip...` operators stand before the definition they change, no formula
uses them).

| run | bounds | shows |
|---|---|---|
| `pool` | 2 cells, 1 row each, `-j 2` then `--retry-jobs 1`, any earlier evidence, 1 signal, 1 foreign domain, symmetry (0.85 M states) | `PoolBound`, `LeftoverIsReported`, `EveryCellAnswered`, `GreenMeansMeasured`, `MarkerExclusive`, `NeverOnTop`, `VerdictsKept` |
| `ends` | 2 cells, `-j 1`, 2 signals, others do not keep away (0.41 M) | `PoolEnds` |
| `cell_resume` | relay cell, 2 shapes, 1 scenario, 2 passes, a MAC that is the same in both, any kill (1.4 M) | `AnsweredOnce` (refinement), `GreenIsComplete`, `NothingMissing`, `CitedCheckIsOwn`, `DecidedChecksKept`, `CapturesKept`, `PassEnds` |
| `shape` | bridge-ipam, 4 scenarios of which one is answered by the shape and one does not apply, 1 power-cycle, 1 fault (0.81 M) | `StartsClean`, `NoInheritedIdentity`, `BodyHasNetwork`, `StatusAnswers`, `ResetShows`, `RunEnds` |
| `segment` | macvlan, bridge-ipam, macvlan-ipam, 1 retry per command, 2 bodies (0.20 M) | `RuleOnce`, `CleanAfterDown`, `NoChildAtStart`, `ParentFreeAtCreate`, `ParentBodyHasNetwork`, `RunsEnd` |
| `bodies` | 70 programs, 9 kinds of source, 3 scenarios in a row from any place in the catalog, 2 lost commands or kills (1.2 M) | `SourceAsFound`, `CellAsFound`, `PassIsMeasured`, `ToldRestores`, `LiftBeforeWait` |
| `host` | 1 caller beside the wait with 1 call, 2 reboots, outages or drops, a retry bound below the wait's (3.1 M) | `StartedOnce`, `DeadGuestOnce`, `WaitBounded`, `WaitTellsTrue` |

Why these bounds are enough. Two cells give every interleaving of one cell being
started, reaped or torn down with another one running; with `--retry-jobs 1` the
bound of the second pass is below the number of cells, so the pool has to wait.
One row per cell tells apart every result the pool reacts to (a load casualty,
a BLOCKED row, an aborted one, an ordinary one). A second signal can only find the
trap running (`ends`). Two passes over two shapes give a shape before and one
behind the failure, in the pass that fails and in the one that resumes; a third
pass only repeats the second. Four scenarios are a first, two in the middle that
run no body (one for the shape, one for the source), and one behind them, which is
where isolation and notes go wrong; the reset budget of 1 is what the code uses up
first, and a fault of the cell itself may come at any step. The gate of a parent
shape (`Bridged = FALSE`) is exercised by `shape_behind` and, command by command,
by `segment`. Three shapes give a parent
behind nothing, a bridge behind a parent and a parent behind a bridge; `ipvlan`
takes macvlan's path through this code and a plain bridge is `bridge-ipam`
without the isolation. One retry of a command is both the retry and the last
attempt. Three bodies in a row are one that does damage, one that meets it and one
behind that; two faults are a failing command and a failing way back, or a failing
restore and a kill. The catalog's 68 entries are 70 programs: D1b, D2b, D3b,
D4m and E2 do to the cell what D1, D1c, D3a, D4 and E1 do, and seven scenarios have
a program of their own for the shapes in which their function branches. The
tenfold loops run twice, which is one container before and one behind the failing
one. In `host` the retry bound (2) is
below the wait's (3) and above the settle window, so that a runner that goes on
retrying past the wait's end, and a wait that ends inside a pause, both happen. `CHECK_DEADLOCK FALSE` stands where the script comes to its end
(`MaxPasses`, the last shape) and where the clock does (`MaxTime`); the other modules stutter explicitly when finished.

### Runs that end in a counterexample

| run | statement of the repository | what the code does |
|---|---|---|
| `signal` | README: INT or TERM stops every running cell and tears it down | a cell between `setsid` and the note of its pid, or between reaping and its teardown, is in no table when the trap runs |
| `shape_behind` | README: what passes behind a reset is reported BLOCKED | a host that answers after the wait, or fails its gate again, spends the note on another row; the first body behind the power-cycle is written PASS |
| `segment_own` | `run-cell.sh`: each labctl run tears its own network down | NetworkDown is deferred behind a NetworkUp that *succeeded* |
| `lost` | `readiness.go:37-39`: a lost restore fails the next scenario's Ready and not its verdict | Ready compares files and unit activity; a restore that wrote the file back and lost the restart leaves a daemon that serves the feature behind a gate that passes |
| `cell_cut` | README: a re-run overwrites its own prior file | a cut verdict file makes `labctl remaining` fail for every shape of every later pass |

Met while modelling and left without a run of their own, since they lose less:

- A deferred capture check is judged by its MAC, not by whose exchange it is about
  (`capture-check-regenerate.sh:39-57`). B1's MAC is the same in every pass
  (`scenarios_group_b.go:78`): a pass that is killed leaves B1's check deferred, the
  next one runs B1 again, answers FAIL ahead of `corroborate` (lines 86-104), and the
  old file is decided, "clean" or "capture disagreement", by a capture that did not
  run during its exchange, which the comment at lines 8-11 of the script rules out.
  `CellRun` reaches this (`Judgements` behind `HeardAgain`). The file then stands beside
  a verdict that does not name it; that no verdict names such a file is
  `CitedCheckIsOwn`.
- `on_signal` marks every cell still in `PID_CELL` as terminated, one that had
  ended by itself and waited to be reaped included (`run-cells.sh:512`).
- `reap_one` tears a failed cell down *by name*; a domain that another run has
  defined since goes with it (`run-cells.sh:436`).
- `ensureBridgePresent` reads the bridge, not the docker network: behind a rebuild
  that removed the network and failed to create it, the next body of a plain
  bridge shape runs without one (`shape.go:302`). `BodyHasNetwork` is therefore
  run for an IPAM shape, whose isolation does look.
- `networkExists` answers false when it cannot read (`shape.go:680`), so the shape
  ends with status 1 for a network that is there.
- Both captures of a relay cell's pass take the suffix found beside the *cell*
  capture; a pass whose cell capture could not be copied has its server capture
  overwritten by the next (`run-cell.sh:139`).
- `waitPluginReady` is "bounded at 60s total" but polls under the caller's context:
  one poll of a dead guest goes on for `RetryRunner`'s own bound (5 minutes as
  `cmd/labctl` sets it). `WaitBounded` is therefore about the reboot wait, whose
  polls end with it. Its last step, `docker info`, runs under the caller's context
  as well, and another boot than the one seen twice may answer it.
- A `Run` whose deadline is up answers the connect error of the attempt *before* the
  one the deadline cut, and that one may have started its command, where the comment
  of `IsConnectError` says it could not run. `StartedOnce` says it of the others.
- A `Run` that succeeds and one that gives up at the same moment may store `down` in
  either order; a wrong `true` costs the next caller its retries, a wrong `false` one
  more bound.
- `ShortenLeaseTime` and `SetDNSOption` that fail behind their write leave the edit;
  the gate of the next scenario takes it back. A process that is *killed* forgets
  its baseline: the next one takes whatever edit is left as its own, and no gate
  sees it any more. On Windows and RouterOS it goes the other way: Recover imports
  the image's config, Ready compares with the process's first copy, so a process
  that began on a leftover edit and recovers can never be ready again.
- A13 defers its network's removal behind its container's: cleanups run last in
  first out, docker refuses, and the network stays (`CellAsFound` names it).
- A6 that fails between installing the previous plugin and upgrading it leaves the
  previous tag; the plugin gate of the next body does not read the tag.
- `fanOut` and `enableFeatureViaSubstitution` take a failed change back under the
  caller's context: when that context is why it failed, so does the way back.

## 4. Fairness

- `RunCells`: `WF(Main)` and `WF(Cell(c))`. The main shell is one sequential
  process that only waits for children (`wait -n`); each wait in `run-cell.sh` is
  a loop with a bound. Signals, other users and image builds are not fair: they
  may never happen.
- `CellRun`: `WF(PassStep)`: the script runs on. `Kill`, `FindPoolShort` and
  `MoveAside` are not part of it.
- `LabctlRun`: `WF(Labctl)`; `Fault` and `Heal` are not fair, so the run also ends
  on a cell that never recovers.
- `SegmentNet`: `WF` of the run's own steps; drops and reboots are not fair.

- `ScenarioBodies` and `HostAccess` state safety only: a body's waits are free
  answers, and the runner's bounds are times, stated as invariants of the clock
  (`WaitBounded`, `DeadGuestOnce`).

All of them assume that an ssh command, once connected, returns: `SSHRunner` sets
`ConnectTimeout` and no `ServerAliveInterval`, so a session whose peer vanishes
without a reset is bounded by the caller's context only.

## 5. Proofs

TLAPS proves these for *every* value of the constants (any number of cells,
passes, shapes, scenarios, resets, retries), from the named assumptions on the
constants alone.

| theorem | statement | inductive invariant |
|---|---|---|
| `RunCellsProofs!PoolTypeCorrect`, `PoolBoundHolds` | `Spec => []TypeOK`, `Spec => []PoolBound` | `PoolInv`: every session the shell answers for is in `PID_CELL` or is the one just spawned; queue, start and table are disjoint. `PoolBound` alone does not say where the cells in hand are, so a reap could hide one |
| `RunCellsProofs!EveryCellAnsweredHolds`, `GreenMeansMeasuredHolds`, `LeftoverIsReportedHolds`, `MarkerExclusiveHolds`, `VerdictsKeptHolds`, `NeverOnTopHolds` | what the pool answers and leaves behind; the last one under `OthersKeepAway` | `AnswerInv`: every cell nobody waits for has its answer, in the table and on disk; `ImageInv`: a cell that was started had its image and keeps it; `GreenInv`: rc 0 means complete until the retry pass moves a row aside, and then the cell is in the second queue; `QuietInv`: without a signal there is no trap; `ClearInv`: where a start is under way the domains are gone; `MarkerInv`: a cell with the marker neither runs nor is being started, and has no row |
| `CellRunProofs!GreenIsCompleteHolds` | exit 0 is complete | `LoopInv /\ GreenInv`: while a pass has not failed, every shape before the one it is at is measured and `todo` is exactly what the current shape lacks |
| `CellRunProofs!AnsweredOnceHolds` | `Spec => Store!Spec` | `LoopInv`: what `labctl run` is about to write has no verdict yet |
| `CellRunProofs!CellTypeCorrect`, `NothingMissingHolds`, `CitedCheckIsOwnHolds`, `DecidedChecksKeptHolds`, `CapturesKeptHolds` | what a cell's evidence says of its captures, over all its passes | `CaptureInv`, on top of the invariant behind `GreenIsComplete`. `SlotInv`: no capture stands beyond the passes there were, so the chosen name is free until `CopyCell`; `WorkInv`: where in a pass a capture may lie in the work directory; `ChecksInv`: no file was heard before it was deferred, and one that a verdict names was last heard in that verdict's pass and decided clean or broken in no other, because a measured scenario is not run again; `FilledInv`: shapes the loop has left are answered for |
| `LabctlRunProofs!RunTypeCorrect`, `StatusAnswersHolds`, `NoInheritedIdentityHolds`, `StartsCleanHolds`, `ResetShowsHolds` | the safety properties of a shape's run | `IInv`: position (`LoopInv`), rows before it written (`StatusInv`), what a held identity implies (`IdentityInv`), what each gate has established when control is behind it (`GatesInv`), where the reset's note is (`NoteInv`, `NamedInv`) |
| `SegmentNetProofs!TypeCorrect`, `NoChildAtStartHolds`, `ParentFreeAtCreateHolds`, `ParentBodyHasNetworkHolds` | the parent shapes' network | `ParentInv`: where the run of a parent shape is, the NIC is free and, in a body, the network exists; `ChildInv`: behind the clean-parent wait no visible child |
| `LabctlRunProofs!BodyHasNetworkHolds` | a body has its shape's network, in every shape that isolates its bodies or has no bridge (`NetworkSeen`) | `NetInv`: only an isolation to come, or a failed rebuild with one to come, is without |
| `SegmentNetProofs!RuleOnceHolds`, `CleanAfterDownHolds` | no rule stands twice; a NetworkDown without error leaves nothing for this boot or the next | `RuleInv`: which bridge may have a rule, a link, a master, a config file at each command of NetworkUp and NetworkDown; its `Gone` says what the commands of a NetworkDown without error have removed so far |
| `ScenarioBodiesProofs!ToldRestoresHolds` | no scenario of any catalog passes once a restore whose error it tells has failed | `AnswerGivenUp`: while a body still runs no such failure is noted (what a step may note is of another kind, `NotedElsewhere`), and behind its answer one implies the verdict is not PASS. `ToldRestores` alone says nothing before the body is over |
| `ScenarioBodiesProofs!TypeHolds`, `PassIsMeasuredHolds` | the variables keep their shape; a body passes on something it read after the last thing done | `TypeInv` (with it what may stand on the cleanup stack); `Measured`: a kept judgement is fresh, every docker run still on its way was begun and not awaited at this place of the program, and behind the last look of a program that `Measures` what was read is fresh |
| `ScenarioBodiesProofs!LiftBeforeWaitHolds` | nothing waits for a docker run under an impairment whose lift has not been tried | `Lifting`: a pending wait on the stack has a pending lift above it, or the impairment is off, or about it a step answered an error; in the body the same is read off the program's steps so far |
| `ScenarioBodiesProofs!CellAsFoundHolds` | what a body leaves in docker is accounted for by a step that answered an error | `CellHeld`. `BoxHeld`, `MainHeld`, `NetHeld`: whatever exists has its cleanup still pending or a noted failure; `DeferLive`: what the program has deferred on every way to here is on the stack; `Joined`: a docker run on its way has its wait and its removal there; `Sorted`: containers' removals are above their networks', without which a `docker network rm` on the way out would be refused |
| `ScenarioSourceProofs!SourceAsFoundHolds` | what a body leaves of the source is what it found, in every part no command about which answered an error; a body without an error leaves a source the next gate accepts at once | `SourceHeld`. `Nested`: the restores of edits lie on the stack in the order the edits were made, none of one edit between two of another, so whichever is called has no other edit on top. `DiskHeld`: of the edits of a file in force the bottom one's captured bytes are the bytes found (`Grounded`), and with no edit in force the disk itself has them; the same of the process's copy while nothing has gone wrong. `ListHeld` for the appliances, which remove by name: what is on them beyond what was found is in force. `ServesHeld`, `AddrHeld`, `ActorsHeld`, `UpHeld`: the same of what the daemons serve, moved addresses, actors and stopped units. `SourceAsFound` speaks of the end only and says nothing of a restore still to come |
| `SourceStateProofs!RestoreIsExact` | on every file-based adapter, whatever the files held, a setter and its restore leave every file and address as they were and the daemons serving them | lemmas about `Homes`, `Unit`, `Started`, `Former` |
| `SourceStateProofs!RecoverHeals` | whatever a body left on a file-based source, Recover's commands, all run, end in a state Ready accepts | the same lemmas |
| `HostAccessProofs!StartedOnceHolds`, `DeadGuestOnceHolds` | one call starts its command at most once, an answer "refused" before the deadline means it was not started; a call that begins on a dead guest is one attempt | `IInv = Shaped /\ Once /\ Lone` per call: a call that dials or pauses has started nothing and `known` implies `down` until somebody succeeds, which is why no retry is taken |
| `HostAccessProofs!AccessTypeCorrect`, `WaitBoundedHolds`, `WaitTellsTrueHolds` | the answers of the reboot wait and the plugin wait | `WaitInv`. `TimeInv`: a poll begins behind its pause, before the bound, and is cut there; `TellInv`: what the wait remembers agrees with its last finished attempt, except inside a poll that was refused and is tried again; `SeenInv`: every boot id read so far is the old one or the one the window is about, or is the reading not yet looked at |

Each proof is Init, one step per action, and a `PTL` step. The only facts assumed
are the modules' named `ASSUME`s, which TLC evaluates in the runs.

Only model-checked:

- the liveness properties (`PoolEnds`, `PassEnds`, `RunEnds`, `RunsEnd`): liveness
  under fairness, and `ENABLED`, are out of the prover's reach;
- `BodyHasNetwork` in the plain bridge shape, of which it is not claimed;
- the five statements the code does not keep (the `violation` runs of section 3).

Induction over data is out of the prover's reach too, and so is any module with a
`RECURSIVE` operator; the project declares none: a body is walked by its program
counter.

## 6. Limits

- `RunCells` does not model argument parsing, the claim lock, `order_cells`, the
  durations file, nor an image that disappears during a run.
- `CellRun` takes the bring-up as one step that succeeds or fails, and `down-cell.sh`
  as done or refused.
- `LabctlRun` leaves out the pool arithmetic (the check may find the pool short at
  any time) and the wording of reasons.
- `dNetwork` (`scenarios_group_d.go:411-437`) removes the shape's network and makes
  it again inside a body, in the IPAM shapes, and may leave it gone. `LabctlRun`'s
  `Body` and `SegmentNet`'s `BodyEnds` leave the network alone. A network that is gone
  behind a body is what an isolation that failed leaves as well, and that one both
  modules have. `ScenarioBodies` has the rebuild, as a step of the body.
- In `SegmentNet` the commands of a teardown that *can* succeed do not fail by
  themselves (only `docker network rm` may); the code ignores such failures. A
  config file left by a half-failed NetworkUp brings its bridge back at a reboot in
  a later parent shape's body; nothing promises otherwise.
- One host, one lab tree: two checkouts with the same cell names are "other users".

- In `HostAccess` the caller's context is a deadline that only time ends; nobody
  cancels it. `StdinRunner` is not modelled (it is not retried).
- In `ScenarioBodies` a scenario that a source does not support is the adapter's
  refusal inside the body: `Applicable` asks the same question in front of it.
  Scenarios follow each other in catalog order. A container an earlier scenario left
  on the shape's network is kept as `old`; on other networks it has nothing to meet.
  C5's stopped peer is the first one; an ISC failover pair is the Kea pair's paths.
  The relay's toggles are `CellRun`'s relay probe and not steps of a body. The config
  scripts of Windows and RouterOS apply as a whole or in the parts `RestartLost`
  names.

### Not modelled

- **Judges, ledger, lease readers, `coverage`, `labyaml`, `matrix`.** Pure functions
  of one file, table or capture: no state outlives a call and nothing interleaves.
  What would be checked is their arithmetic and formats, which their own table tests
  enumerate; the bodies take each answer as free.
- **The peers' failover state machine and its samples** (`ha_*.go`). It is the
  servers' own; the lab polls it. What the lab changes on the peers is modelled.
- **VM bring-up, image builders, guest configuration.** One-shot command sequences
  whose outcome is "up" or "not up"; `CellRun` has that outcome, and the removal by
  name.
- **Containment and the lab host's firewall.** One rule set, written at bring-up.
- **Packing, the home router run, repository checks.** Filters over finished files,
  or programs beside the lab.

## 7. Plan

In this order; each with its runs and, where it is marked, theorems.

1. `FailoverPair`: the two peers' state machine as the scenarios drive it, and the
   sampling around an exchange.
2. `CellLife`: `up-cell.sh` / `down-cell.sh` / `build-bridge.sh` and the segment
   firewall: what a bring-up that fails half-way leaves and what a teardown removes,
   with other cells on the same host; refined by `CellRun`'s one-step view.
3. `Judges`: the renewal timeline, address ledger, prefix and relay checks as
   operators against reference definitions over bounded inputs; with them `Matrix`
   and `LabYaml`.
4. Proofs: the interface of `CellRun` and `LabctlRun` as a refinement of `RunCells`'
   one-step view of a cell.
