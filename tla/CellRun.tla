------------------------------ MODULE CellRun ------------------------------
(* One cell over several passes of scripts/run-cell.sh that share one       *)
(* evidence directory: the first run, the resumed runs and the retry pass   *)
(* of run-cells.sh.  A pass may end, fail at a command under set -e, or be   *)
(* killed between two commands; what it leaves in the evidence directory is  *)
(* what the next pass starts from.                                           *)
(*                                                                           *)
(* The module covers run-cell.sh, the verdict rows as cmd/labctl keeps them  *)
(* (remaining, run, abort-blocked), the capture scripts and down-cell.sh.    *)
(* One labctl run is the sequence of rows it writes and its exit code; its   *)
(* inside is module LabctlRun.                                               *)
EXTENDS Integers, FiniteSets, Sequences, FiniteSetsExt

CONSTANTS
    ShapeOrder,     \* the shapes in the order of run-cell.sh's loop
    NScenarios,     \* size of scenario.Catalog; scenarios are 1..NScenarios in catalog order
    Corroborated,   \* the scenarios that call corroborate()
    FixedMac,       \* those of them whose container has the same MAC in every pass
    Relay,          \* TRUE in a relay cell: a second observer on the server segment
    MaxPasses       \* bound: passes of run-cell.sh over one evidence directory

ASSUME ShapeOrderAssumption == ShapeOrder \in Seq(STRING) /\ ShapeOrder # <<>>
ASSUME CountsAssumption == NScenarios \in Nat \ {0} /\ MaxPasses \in Nat \ {0}
ASSUME CorroboratedAssumption == Corroborated \subseteq 1..NScenarios
ASSUME FixedMacAssumption == FixedMac \subseteq Corroborated
ASSUME RelayAssumption == Relay \in BOOLEAN

Shapes == {ShapeOrder[i] : i \in DOMAIN ShapeOrder}
Scenarios == 1..NScenarios
Passes == 1..MaxPasses
Legs == IF Relay THEN {"cell", "server"} ELSE {"cell"}

VARIABLES
    pc,         \* the command run-cell.sh is at; "idle" between two passes
    pass,       \* passes started so far
    at,         \* index of the shape the loop is at
    todo,       \* the scenarios labctl run still has to answer in this shape
    short,      \* TRUE: this labctl run found the pool too small (exit code 3)
    failed,     \* RUNNER_FAILED, or a failure path that ends in exit 1
    probeFailed,\* the relay probe of this pass failed
    told,       \* shapes whose BLOCKED rows this pass reports it could not write
    rows,       \* the verdict file of each shape and scenario
    cited,      \* the pass whose capture check a verdict names as evidence, 0 none
    checks,     \* the capture-check file of each shape and scenario
    slot,       \* the suffix of this pass's captures: 1 none, 2 .retry, 3 .retry3 ...
    pcaps,      \* which pass's capture stands in each slot, 0 none
    moved,      \* captures down-cell.sh moved out of the work directory
    observing,  \* the observer container of each leg exists
    work,       \* observer.pcap exists in the work directory of each leg
    vms         \* the cell's VMs are defined

vars == <<pc, pass, at, todo, short, failed, probeFailed, told, rows, cited, checks,
          slot, pcaps, moved, observing, work, vms>>

evidence == <<rows, cited, checks, pcaps, moved>>
lab == <<observing, work, vms>>
loop == <<at, todo, short>>
ends == <<failed, probeFailed, told>>

RowStates == {"none", "abort", "measured", "torn"}
\* A capture-check file: what it says, which pass's exchange it is about, the
\* last pass whose observer heard its MAC, and which pass's capture it was
\* judged against (0 while it is deferred).
NoCheck == [says |-> "none", by |-> 0, heard |-> 0, judged |-> 0]
CheckStates == [says : {"none", "deferred", "clean", "disagreement", "postdates", "unreadable"},
                by : 0..MaxPasses, heard : 0..MaxPasses, judged : 0..MaxPasses]

PCs == {"idle", "up", "abort_all", "config", "start_cell", "start_server", "probe",
        "remaining", "run", "write", "abort", "stop_cell", "cp_cell", "stop_server",
        "cp_server", "regenerate", "down", "ended", "dead"}

shape == ShapeOrder[at]

Init ==
    /\ pc = "idle"
    /\ pass = 0
    /\ at = 1
    /\ todo = {}
    /\ short = FALSE
    /\ failed = FALSE
    /\ probeFailed = FALSE
    /\ told = {}
    /\ rows = [sh \in Shapes |-> [sc \in Scenarios |-> "none"]]
    /\ cited = [sh \in Shapes |-> [sc \in Scenarios |-> 0]]
    /\ checks = [sh \in Shapes |-> [sc \in Scenarios |-> NoCheck]]
    /\ slot = 1
    /\ pcaps = [leg \in Legs |-> [k \in Passes |-> 0]]
    /\ moved = {}
    /\ observing = [leg \in Legs |-> FALSE]
    /\ work = [leg \in Legs |-> FALSE]
    /\ vms = FALSE

-----------------------------------------------------------------------------
\* labctl's reading of the verdict files.

\* ReadVerdict refuses a file that was cut while it was written, and the whole
\* directory is read for every question.
Unreadable == \E sh \in Shapes : \E sc \in Scenarios : rows[sh][sc] = "torn"

\* scenariosWithVerdict: an abort row does not count.
Done(sh) == {sc \in Scenarios : rows[sh][sc] = "measured"}

\* Slip: a list that does not leave out what has a verdict.
SlipRemainingOf(sh) == Scenarios

\* remainingScenarioNames.
RemainingOf(sh) == Scenarios \ Done(sh)

\* What labctl remaining prints: nothing at all behind a file it cannot read.
Listed(sh) == IF Unreadable THEN {} ELSE RemainingOf(sh)

\* A row of the shape with the scenarios in S written as aborted.
Aborted(sh, S) == [sc \in Scenarios |-> IF sc \in S THEN "abort" ELSE rows[sh][sc]]

\* writeAbortRows: a row for every scenario without a verdict, in catalog order.
\* Write may fail at any of them, before or after it has emptied that file, and
\* nothing is written when the verdicts cannot be read; the script reports both.
AbortRows(sh) ==
    \/ /\ ~Unreadable
       /\ rows' = [rows EXCEPT ![sh] = Aborted(sh, RemainingOf(sh))]
       /\ told' = told
    \/ /\ ~Unreadable
       /\ \E bad \in RemainingOf(sh) :
             LET row == Aborted(sh, {sc \in RemainingOf(sh) : sc < bad})
             IN  rows' \in {[rows EXCEPT ![sh] = row],
                           [rows EXCEPT ![sh] = [row EXCEPT ![bad] = "torn"]]}
       /\ told' = told \cup {sh}
    \/ /\ Unreadable
       /\ rows' = rows
       /\ told' = told \cup {sh}

-----------------------------------------------------------------------------
\* run-cell.sh up to the shape loop.

\* run-cells.sh starts a cell only while none of its VMs, nor its cell observer, exists.
Start ==
    /\ pc = "idle"
    /\ pass < MaxPasses
    /\ ~vms
    /\ ~observing["cell"]
    /\ pass' = pass + 1
    /\ pc' = "up"
    /\ at' = 1
    /\ todo' = {}
    /\ short' = FALSE
    /\ failed' = FALSE
    /\ probeFailed' = FALSE
    /\ told' = {}
    /\ UNCHANGED <<evidence, lab, slot>>

UpCell ==
    /\ pc = "up"
    /\ vms' = TRUE
    /\ pc' = "config"
    /\ UNCHANGED <<pass, loop, ends, evidence, slot, observing, work>>

\* up-cell.sh may have defined VMs before it failed.
UpCellFails ==
    /\ pc = "up"
    /\ vms' \in BOOLEAN
    /\ failed' = TRUE
    /\ pc' = "abort_all"
    /\ UNCHANGED <<pass, loop, probeFailed, told, evidence, slot, observing, work>>

\* One abort-blocked per shape, a failing one is only reported.
AbortAllShapes ==
    /\ pc = "abort_all"
    /\ AbortRows(shape)
    /\ IF at < Len(ShapeOrder)
         THEN at' = at + 1 /\ pc' = pc
         ELSE at' = at /\ pc' = "ended"
    /\ UNCHANGED <<pass, todo, short, failed, probeFailed, cited, checks, pcaps, moved, slot,
                   lab>>

\* The pass looks for a free name beside the CELL capture only, and both
\* captures of the pass use what it finds.
FreeSlot(k) == pcaps["cell"][k] = 0

ChooseSlot ==
    /\ pc = "config"
    /\ slot' = Min({k \in Passes : FreeSlot(k)})
    /\ pc' = "start_cell"
    /\ UNCHANGED <<pass, loop, ends, evidence, lab>>

\* capture-start.sh removes the leg's earlier observer.pcap and container.
StartCapture(leg, here, next) ==
    /\ pc = here
    /\ observing' = [observing EXCEPT ![leg] = TRUE]
    /\ work' = [work EXCEPT ![leg] = FALSE]
    /\ pc' = next
    /\ UNCHANGED <<pass, loop, ends, evidence, slot, vms>>

StartCell == StartCapture("cell", "start_cell", IF Relay THEN "start_server" ELSE "remaining")
StartServer == Relay /\ StartCapture("server", "start_server", "probe")

ProbeRelay ==
    /\ pc = "probe"
    /\ \/ pc' = "remaining" /\ UNCHANGED ends
       \/ pc' = "stop_cell" /\ probeFailed' = TRUE /\ failed' = TRUE /\ told' = told
    /\ UNCHANGED <<pass, loop, evidence, slot, lab>>

-----------------------------------------------------------------------------
\* The shape loop.

\* Slip: the loop runs once more than there are shapes.
SlipNextShape ==
    IF at <= Len(ShapeOrder)
      THEN at' = at + 1 /\ pc' = "remaining"
      ELSE at' = at /\ pc' = "stop_cell"

NextShape ==
    IF at < Len(ShapeOrder)
      THEN at' = at + 1 /\ pc' = "remaining"
      ELSE at' = at /\ pc' = "stop_cell"

\* labctl remaining; a shape with nothing left is skipped.
AskRemaining ==
    /\ pc = "remaining"
    /\ ~Unreadable
    /\ todo' = Listed(shape)
    /\ short' = FALSE
    /\ IF todo' = {} THEN NextShape ELSE pc' = "run" /\ at' = at
    /\ UNCHANGED <<pass, ends, evidence, slot, lab>>

\* corroborate: the observer heard the exchange, and the file waits for its capture.
Corroborate(sc) ==
    /\ sc \in Corroborated
    /\ checks' = [checks EXCEPT ![shape][sc] =
                     [says |-> "deferred", by |-> pass, heard |-> pass, judged |-> 0]]

\* A body that ends before corroborate leaves the file an earlier pass deferred,
\* but a container with a fixed MAC is heard by this pass's observer too.
HeardAgain(sc) ==
    /\ sc \in FixedMac
    /\ checks[shape][sc].says = "deferred"
    /\ checks' = [checks EXCEPT ![shape][sc].heard = pass]

\* labctl run: the body of the next scenario.  A run whose gate, pool or parent
\* check failed writes its BLOCKED rows with no body.
RunBody ==
    /\ pc = "run"
    /\ todo # {}
    /\ pc' = "write"
    /\ \/ UNCHANGED checks
       \/ ~short /\ Corroborate(Min(todo))
       \/ ~short /\ HeardAgain(Min(todo))
    /\ UNCHANGED <<pass, loop, ends, rows, cited, pcaps, moved, slot, lab>>

\* The pre-shape pool check, made before any body runs.
FindPoolShort ==
    /\ pc = "run"
    /\ todo = RemainingOf(shape)
    /\ ~short
    /\ short' = TRUE
    /\ UNCHANGED <<pc, pass, at, todo, ends, evidence, slot, lab>>

\* The pass whose check the verdict of a body names: its own, or none.
CitedBy(sc) == IF checks[shape][sc].by = pass THEN pass ELSE 0

\* scenario.Write replaces the scenario's file.
WriteVerdict ==
    /\ pc = "write"
    /\ rows' = [rows EXCEPT ![shape][Min(todo)] = "measured"]
    /\ cited' = [cited EXCEPT ![shape][Min(todo)] = CitedBy(Min(todo))]
    /\ todo' = todo \ {Min(todo)}
    /\ pc' = "run"
    /\ UNCHANGED <<pass, at, short, ends, checks, pcaps, moved, slot, lab>>

\* os.WriteFile empties the file first: a failure, or a kill, behind that
\* leaves a file ReadVerdict refuses.  labctl run then ends with exit code 1.
WriteCut ==
    /\ pc = "write"
    /\ rows' = [rows EXCEPT ![shape][Min(todo)] = "torn"]
    /\ cited' = [cited EXCEPT ![shape][Min(todo)] = 0]
    /\ pc' \in {"abort", "dead"}
    /\ failed' = TRUE
    /\ UNCHANGED <<pass, loop, probeFailed, told, checks, pcaps, moved, slot, lab>>

\* Slip: the loop goes on to the next shape without abort-blocked.
SlipLabctlFails ==
    /\ pc \in {"run", "write"}
    /\ todo # {}
    /\ failed' = TRUE
    /\ NextShape
    /\ UNCHANGED <<pass, todo, short, probeFailed, told, evidence, slot, lab>>

\* An infrastructure error ends labctl run before or between two rows.
LabctlFails ==
    /\ pc \in {"run", "write"}
    /\ todo # {}
    /\ failed' = TRUE
    /\ pc' = "abort"
    /\ UNCHANGED <<pass, loop, probeFailed, told, evidence, slot, lab>>

\* Slip: exit code 3 breaks out of the loop without RUNNER_FAILED.
SlipLabctlEnds ==
    /\ pc = "run"
    /\ todo = {}
    /\ IF short THEN at' = at /\ pc' = "stop_cell" ELSE NextShape
    /\ UNCHANGED <<pass, todo, short, ends, evidence, slot, lab>>

LabctlEnds ==
    /\ pc = "run"
    /\ todo = {}
    /\ failed' = (failed \/ short)
    /\ IF short THEN at' = at /\ pc' = "stop_cell" ELSE NextShape
    /\ UNCHANGED <<pass, todo, short, probeFailed, told, evidence, slot, lab>>

AbortShape ==
    /\ pc = "abort"
    /\ AbortRows(shape)
    /\ NextShape
    /\ UNCHANGED <<pass, todo, short, failed, probeFailed, cited, checks, pcaps, moved, slot,
                   lab>>

-----------------------------------------------------------------------------
\* The end of a pass.

\* capture-stop.sh: docker cp may fail, and the container goes either way.
StopCapture(leg, here, next) ==
    /\ pc = here
    /\ observing' = [observing EXCEPT ![leg] = FALSE]
    /\ \E copied \in BOOLEAN : work' = [work EXCEPT ![leg] = copied]
    /\ pc' = next
    /\ UNCHANGED <<pass, loop, ends, evidence, slot, vms>>

\* cp ... || true
CopyOut(leg, here, next) ==
    /\ pc = here
    /\ \/ UNCHANGED pcaps
       \/ work[leg] /\ pcaps' = [pcaps EXCEPT ![leg][slot] = pass]
    /\ pc' = next
    /\ UNCHANGED <<pass, loop, ends, rows, cited, checks, moved, slot, lab>>

AfterCaptures == IF probeFailed THEN "down" ELSE "regenerate"

StopCell == StopCapture("cell", "stop_cell", "cp_cell")
CopyCell == CopyOut("cell", "cp_cell", IF Relay THEN "stop_server" ELSE AfterCaptures)
StopServer == Relay /\ StopCapture("server", "stop_server", "cp_server")
CopyServer == Relay /\ CopyOut("server", "cp_server", AfterCaptures)

\* Slip: a mac with no frames in the capture reads as a broken exchange.
SlipJudgements(check) ==
    IF pcaps["cell"][slot] # pass THEN {"unreadable"}
    ELSE IF check.heard = pass THEN {"clean", "disagreement"}
    ELSE {"disagreement"}

\* capture-check-regenerate.sh: what a file says after its mac was looked up in
\* this pass's capture.  The mac alone is looked for, whichever pass's exchange
\* the file is about.
Judgements(check) ==
    IF pcaps["cell"][slot] # pass THEN {"unreadable"}
    ELSE IF check.heard = pass THEN {"clean", "disagreement"}
    ELSE {"postdates"}

\* Slip: no look at the deferred marker.
SlipDeferred == {q \in Shapes \X Scenarios : checks[q[1]][q[2]].says # "none"}

Deferred == {q \in Shapes \X Scenarios : checks[q[1]][q[2]].says = "deferred"}

\* A file that is already decided is left alone.  A failing write (set -e)
\* leaves the files behind it deferred.
Regenerate ==
    /\ pc = "regenerate"
    /\ \E files \in SUBSET Deferred :
          /\ pc' = IF files = Deferred THEN "down" ELSE "dead"
          /\ \E says \in [files -> UNION {Judgements(checks[q[1]][q[2]]) : q \in files}] :
                /\ \A q \in files : says[q] \in Judgements(checks[q[1]][q[2]])
                /\ checks' = [sh \in Shapes |-> [sc \in Scenarios |->
                       IF <<sh, sc>> \in files
                         THEN [checks[sh][sc] EXCEPT !.says = says[<<sh, sc>>], !.judged = pass]
                         ELSE checks[sh][sc]]]
    /\ UNCHANGED <<pass, loop, ends, rows, cited, pcaps, moved, slot, lab>>

\* Slip: the work directory goes before its captures are moved.
SlipDownCell(after) ==
    /\ observing' = [leg \in Legs |-> FALSE]
    /\ vms' = FALSE
    /\ moved' = moved
    /\ work' = [leg \in Legs |-> FALSE]
    /\ pc' = after

\* down-cell.sh: the observers go first; then the VMs, and it refuses, leaving
\* the work directory, if one is still there; then every capture in the work
\* directory is moved to the evidence before the directory is removed.
DownCell(after) ==
    /\ observing' = [leg \in Legs |-> FALSE]
    /\ vms' = FALSE
    /\ moved' = moved \cup {<<leg, pass>> : leg \in {l \in Legs : work[l]}}
    /\ work' = [leg \in Legs |-> FALSE]
    /\ pc' = after

DownCellRefuses(after) ==
    /\ vms
    /\ observing' = [leg \in Legs |-> FALSE]
    /\ UNCHANGED <<vms, moved, work>>
    /\ pc' = after

TearDown ==
    /\ pc = "down"
    /\ \/ DownCell("ended")
       \/ DownCellRefuses(IF probeFailed THEN "ended" ELSE "dead")
    /\ UNCHANGED <<pass, loop, ends, rows, cited, checks, pcaps, slot>>

\* set -e: these commands have no "|| true" behind them.
DiesUnderSetE ==
    /\ pc \in {"config", "start_cell", "start_server"}
    /\ pc' = "dead"
    /\ UNCHANGED <<pass, loop, ends, evidence, slot, lab>>

\* remaining=$(labctl remaining ...) ends the script when labctl cannot read
\* one of the verdict files.
DiesAtRemaining ==
    /\ pc = "remaining"
    /\ Unreadable
    /\ pc' = "dead"
    /\ UNCHANGED <<pass, loop, ends, evidence, slot, lab>>

\* TERM from run-cells.sh, or a reboot of the lab host, at any command.
Kill ==
    /\ pc \notin {"idle", "ended", "dead"}
    /\ pc' = "dead"
    /\ UNCHANGED <<pass, loop, ends, evidence, slot, lab>>

\* Slip: only a cell that was cut short is torn down.
SlipReap ==
    /\ pc = "dead"
    /\ DownCell("idle") \/ DownCellRefuses("idle")
    /\ UNCHANGED <<pass, loop, ends, rows, cited, checks, pcaps, slot>>

\* run-cells.sh tears down a cell that did not exit 0.
Reap ==
    /\ \/ pc = "dead"
       \/ pc = "ended" /\ failed
    /\ DownCell("idle") \/ DownCellRefuses("idle")
    /\ UNCHANGED <<pass, loop, ends, rows, cited, checks, pcaps, slot>>

ReapGreen ==
    /\ pc = "ended"
    /\ ~failed
    /\ pc' = "idle"
    /\ UNCHANGED <<pass, loop, ends, evidence, slot, lab>>

\* run-cells.sh moves the load casualties' verdicts aside, one file at a time,
\* before the retry pass.
MoveAside ==
    /\ pc = "idle"
    /\ pass \in 1..(MaxPasses - 1)
    /\ \E sh \in Shapes : \E sc \in Done(sh) :
          /\ rows' = [rows EXCEPT ![sh][sc] = "none"]
          /\ cited' = [cited EXCEPT ![sh][sc] = 0]
    /\ UNCHANGED <<pc, pass, loop, ends, checks, pcaps, moved, slot, lab>>

Next ==
    \/ Start \/ UpCell \/ UpCellFails \/ AbortAllShapes \/ ChooseSlot
    \/ StartCell \/ StartServer \/ ProbeRelay
    \/ AskRemaining \/ RunBody \/ FindPoolShort \/ WriteVerdict \/ WriteCut
    \/ LabctlFails \/ LabctlEnds \/ AbortShape
    \/ StopCell \/ CopyCell \/ StopServer \/ CopyServer \/ Regenerate \/ TearDown
    \/ DiesUnderSetE \/ DiesAtRemaining \/ Kill \/ Reap \/ ReapGreen \/ MoveAside

\* Every command of a pass is bounded (waits, retries and, by LabctlRun, labctl
\* run), and run-cells.sh reaps what ended.
PassStep ==
    \/ UpCell \/ UpCellFails \/ AbortAllShapes \/ ChooseSlot
    \/ StartCell \/ StartServer \/ ProbeRelay
    \/ AskRemaining \/ RunBody \/ WriteVerdict \/ WriteCut
    \/ LabctlFails \/ LabctlEnds \/ AbortShape
    \/ StopCell \/ CopyCell \/ StopServer \/ CopyServer \/ Regenerate \/ TearDown
    \/ DiesUnderSetE \/ DiesAtRemaining \/ Reap \/ ReapGreen

Spec == Init /\ [][Next]_vars
FairSpec == Spec /\ WF_vars(PassStep)

-----------------------------------------------------------------------------
\* The variables have their types.
TypeOK ==
    /\ pc \in PCs
    /\ pass \in 0..MaxPasses
    /\ at \in DOMAIN ShapeOrder
    /\ todo \subseteq Scenarios
    /\ {short, failed, probeFailed, vms} \subseteq BOOLEAN
    /\ rows \in [Shapes -> [Scenarios -> RowStates]]
    /\ cited \in [Shapes -> [Scenarios -> 0..MaxPasses]]
    /\ checks \in [Shapes -> [Scenarios -> CheckStates]]
    /\ told \subseteq Shapes
    /\ slot \in Passes
    /\ pcaps \in [Legs -> [Passes -> 0..MaxPasses]]
    /\ moved \subseteq Legs \X Passes
    /\ observing \in [Legs -> BOOLEAN]
    /\ work \in [Legs -> BOOLEAN]

Questions == Shapes \X Scenarios
Answered == {q \in Questions : rows[q[1]][q[2]] = "measured"}
Store == INSTANCE VerdictStore WITH answered <- Answered, running <- pc # "idle"

\* However often a cell is resumed, aborted or killed, a scenario that has a
\* verdict keeps it: no resumed pass, no abort row and no cut write replaces it.
AnsweredOnce == Store!Spec

\* A pass that exits 0 leaves a measured verdict for every scenario of every
\* shape, whatever the passes before it left.
GreenIsComplete ==
    pc = "ended" /\ ~failed => Answered = Questions

\* A pass that comes to its end answers for every scenario, with a verdict or
\* with a BLOCKED row that says why, except in a shape it reported that it could
\* not write, and unless the relay probe or the pool check cut the loop short.
NothingMissing ==
    pc = "ended" /\ ~short /\ ~probeFailed =>
        \A sh \in Shapes \ told : \A sc \in Scenarios : rows[sh][sc] \in {"abort", "measured"}

\* However often the cell is resumed behind it, the capture check a verdict
\* names is still the one its own body left, and calls the exchange clean or
\* broken only by the capture of the pass that measured it.
CitedCheckIsOwn ==
    \A sh \in Shapes : \A sc \in Scenarios :
        LET check == checks[sh][sc]
            own == cited[sh][sc]
        IN  own # 0 => /\ check.by = own
                       /\ check.says \in {"clean", "disagreement"} => check.judged = own

\* The decided check of a scenario that has its verdict is never judged again.
DecidedChecksKept ==
    [][\A sh \in Shapes : \A sc \in Scenarios :
        rows[sh][sc] = "measured" /\ checks[sh][sc].says \notin {"none", "deferred"}
            => checks'[sh][sc] = checks[sh][sc]]_vars

\* Wherever a pass is killed: a capture that was copied out of its observer is in
\* the evidence before the work directory that held it goes, and a later pass
\* writes its cell capture beside the one that is there, never over it.
CapturesKept ==
    [][/\ \A leg \in Legs : work[leg] /\ ~work'[leg] =>
            <<leg, pass>> \in moved' \/ \E k \in Passes : pcaps'[leg][k] = pass
       /\ \A k \in Passes : pcaps["cell"][k] # 0 => pcaps'["cell"][k] = pcaps["cell"][k]]_vars

\* A resumed pass that comes to a shape with a verdict file that was cut lists
\* its scenario, so that the run overwrites the file.
CutFileIsRewritten ==
    pc = "remaining" => \A sc \in Scenarios : rows[shape][sc] = "torn" => sc \in Listed(shape)

\* Every pass comes to its end.
PassEnds == pc = "up" ~> pc = "idle"
=============================================================================
