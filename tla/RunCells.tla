------------------------------ MODULE RunCells ------------------------------
(***************************************************************************)
(* scripts/run-cells.sh: the job pool that runs several cells of the lab   *)
(* on one host.  One main shell fills and reaps the pool, INT, TERM or HUP *)
(* may reach it between any two of its commands, each started cell is a    *)
(* run-cell.sh in a session of its own, and other users of the host define *)
(* and remove domains of the same names.                                   *)
(*                                                                         *)
(* The order of the queue (order_cells) is abstracted to a set: whichever  *)
(* cell is next, the pool treats it the same way.  A cell's run-cell.sh is *)
(* kept to what the pool can see of it: its domains, its verdict files and *)
(* its exit status; CellRun models the script itself.                      *)
(*                                                                         *)
(* An operator named Slip... is the definition after it with one plausible *)
(* mistake in it, to measure the properties against; no formula uses it.   *)
(***************************************************************************)
EXTENDS Integers, FiniteSets

CONSTANTS
    Cells,          \* the cells named on the command line
    Scenarios,      \* the rows one cell's evidence holds (shape x scenario)
    Jobs,           \* -j: cells at once in the first pass
    RetryJobs,      \* --retry-jobs: cells at once in the retry pass
    Retry,          \* FALSE: --no-retry
    BlockedMaxPct,  \* LAB_BLOCKED_MAX_PCT
    Earlier,        \* what an earlier run may have left as a cell's rows
    Outcomes,       \* what measuring a scenario may give
    MaxSignals,     \* bound: signals sent to the pool
    MaxForeign,     \* bound: domains other runs define on the host
    OthersKeepAway  \* TRUE: nobody else starts a cell this run is bringing up

ASSUME PoolAssumption ==
    /\ IsFiniteSet(Cells)
    /\ Jobs \in Nat \ {0}
    /\ RetryJobs \in Nat \ {0}
    /\ BlockedMaxPct \in Nat
    /\ Earlier \subseteq {"none", "OTHER", "LOAD"}
    /\ Outcomes \subseteq {"OTHER", "LOAD", "BLOCKED"}
    /\ MaxSignals \in Nat
    /\ MaxForeign \in Nat
    /\ Retry \in BOOLEAN
    /\ OthersKeepAway \in BOOLEAN

VARIABLES
    pc,       \* the command the main shell is about to run
    cur,      \* the cell that command is about
    pass,     \* 1: every cell; 2: the retry pass
    todo,     \* cells of this pass's queue not yet handed to start_cell
    work,     \* cells the loop of retry_pass or on_signal has yet to visit
    running,  \* RUNNING
    pids,     \* cells in PID_CELL
    rc,       \* RC
    rcfile,   \* logs/<cell>.rc
    retried,  \* RETRIED: the retry pass's queue
    pending,  \* a signal waits for the end of the current command
    signals,  \* signals sent so far
    status,   \* exit status of run-cells.sh
    refused,  \* cells the log says down-cell.sh failed for
    proc,     \* each cell's run-cell.sh
    dom,      \* whose domains lab-<cell>-* are on the host
    verd,     \* the *.verdict files at the top of evidence/<cell>
    aside,    \* how many first attempts evidence/<cell>/retried keeps
    marker,   \* evidence/<cell>/image-not-built.json exists
    built,    \* the cell's built base images are in the image cache
    foreign   \* domains other runs have defined so far

pool     == <<pass, todo, running, pids, retried>>
books    == <<rc, rcfile>>
sent     == <<pending, signals>>
ends     == <<status, refused>>
shell    == <<pc, cur, work, pool, books, sent, ends>>
evidence == <<verd, aside, marker>>
host     == <<dom, built, foreign>>
vars     == <<shell, proc, evidence, host>>

-----------------------------------------------------------------------------
Codes    == {"0", "1", "skipped-image", "skipped-disk", "skipped-exists",
             "terminated", "mostly-blocked"}
NoCode   == "unset"

\* A verdict is told apart only as far as the pool does: LOAD is a FAIL that
\* carries the load signature, ABORT a BLOCKED row of an aborted shape.
Results  == {"OTHER", "LOAD", "BLOCKED", "ABORT"}
NoRow    == "none"
Real(r)  == r \in {"OTHER", "LOAD", "BLOCKED"}

Active   == {"starting", "measuring", "closing", "closing-failed"}
Ended    == {"ok", "failed"}
Procs    == {"none", "killed"} \cup Active \cup Ended

Commands == {"pool", "gate", "disk", "check", "spawn", "record", "down",
             "downing", "scan", "judge", "report", "trap-stop", "trap-down",
             "trap-downing", "exit"}
Starting == {"gate", "disk", "check", "spawn", "record"}
InTrap   == pc \in {"trap-stop", "trap-down", "trap-downing"}

Bound    == IF pass = 1 THEN Jobs ELSE RetryJobs

-----------------------------------------------------------------------------
\* blocked_counts: BLOCKED rows and all rows of the cell's evidence.
BlockedRows(c) == {s \in Scenarios : verd[c][s] \in {"BLOCKED", "ABORT"}}
Rows(c)        == {s \in Scenarios : verd[c][s] # NoRow}

MostlyBlocked(c) ==
    Cardinality(BlockedRows(c)) * 100 > BlockedMaxPct * Cardinality(Rows(c))

\* load_signature: the rows of a cell the retry pass reruns.
LoadCasualties(c) == {s \in Scenarios : verd[c][s] = "LOAD"}

\* Slip: host_conflict knows only the domains this run defined.
SlipHostConflict(c) == dom[c] = "ours"

\* host_conflict: any domain or observer of the cell is on the host.
HostConflict(c) == dom[c] # "none"

\* down-cell.sh destroys every domain of the cell's names, whoever defined
\* them, or refuses while one of them survives.  teardown_cell says so on a
\* line of its own, which a trap that is due comes before.
DownCell(c, trapDue) ==
    \/ dom' = [dom EXCEPT ![c] = "none"] /\ UNCHANGED refused
    \/ dom' = dom /\ refused' = IF trapDue THEN refused ELSE refused \cup {c}

Init ==
    /\ pc = "pool"
    /\ cur \in Cells
    /\ pass = 1
    /\ todo = Cells
    /\ work = {}
    /\ running = 0
    /\ pids = {}
    /\ rc = [c \in Cells |-> NoCode]
    /\ rcfile = [c \in Cells |-> NoCode]
    /\ retried = {}
    /\ pending = FALSE
    /\ signals = 0
    /\ status = NoCode
    /\ refused = {}
    /\ proc = [c \in Cells |-> "none"]
    /\ dom = [c \in Cells |-> "none"]
    /\ verd \in [Cells -> {[s \in Scenarios |-> r] : r \in Earlier}]
    /\ aside = [c \in Cells |-> [s \in Scenarios |->
                    IF verd[c][s] = "LOAD" THEN 1 ELSE 0]]
    /\ built \in [Cells -> BOOLEAN]
    /\ marker \in [Cells -> BOOLEAN]
    /\ \A c \in Cells : marker[c] => Rows(c) = {}
    /\ foreign = 0

-----------------------------------------------------------------------------
\* The main shell.  bash runs the trap between two commands, so a pending
\* signal goes before the next of them.
At(command) == pc = command /\ ~pending

\* A result that ends start_cell without a run-cell.sh.
Skip(code) ==
    /\ rc' = [rc EXCEPT ![cur] = code]
    /\ rcfile' = [rcfile EXCEPT ![cur] = code]
    /\ pc' = "pool"

\* Slip: one cell more than -j.
SlipPoolFill(c) ==
    /\ At("pool")
    /\ c \in todo
    /\ running <= Bound
    /\ todo' = todo \ {c}
    /\ cur' = c
    /\ rcfile' = [rcfile EXCEPT ![c] = NoCode]
    /\ pc' = "gate"
    /\ UNCHANGED <<work, pass, running, pids, retried, rc, sent, ends, proc,
                   evidence, host>>

PoolFill(c) ==
    /\ At("pool")
    /\ c \in todo
    /\ running < Bound
    /\ todo' = todo \ {c}
    /\ cur' = c
    /\ rcfile' = [rcfile EXCEPT ![c] = NoCode]
    /\ pc' = "gate"
    /\ UNCHANGED <<work, pass, running, pids, retried, rc, sent, ends, proc,
                   evidence, host>>

\* Slip: a cell whose image is there now keeps the marker of an earlier run.
SlipImageGate ==
    /\ At("gate")
    /\ \/ /\ ~built[cur]
          /\ Skip("skipped-image")
          /\ marker' = [marker EXCEPT ![cur] = @ \/ Rows(cur) = {}]
       \/ /\ built[cur]
          /\ pc' = "disk"
          /\ UNCHANGED <<books, marker>>
    /\ UNCHANGED <<cur, work, pool, sent, ends, proc, verd, aside, host>>

ImageGate ==
    /\ At("gate")
    /\ \/ /\ ~built[cur]
          /\ Skip("skipped-image")
          /\ marker' = [marker EXCEPT ![cur] = @ \/ Rows(cur) = {}]
       \/ /\ built[cur]
          /\ marker' = [marker EXCEPT ![cur] = FALSE]
          /\ pc' = "disk"
          /\ UNCHANGED <<books>>
    /\ UNCHANGED <<cur, work, pool, sent, ends, proc, verd, aside, host>>

WaitForDisk ==
    /\ At("disk")
    /\ \/ Skip("skipped-disk")
       \/ pc' = "check" /\ UNCHANGED <<books>>
    /\ UNCHANGED <<cur, work, pool, sent, ends, proc, evidence, host>>

CheckHost ==
    /\ At("check")
    /\ \/ HostConflict(cur) /\ Skip("skipped-exists")
       \/ ~HostConflict(cur) /\ pc' = "spawn" /\ UNCHANGED <<books>>
    /\ UNCHANGED <<cur, work, pool, sent, ends, proc, evidence, host>>

\* setsid run-cell.sh &: the session exists before the shell has noted it.
Spawn ==
    /\ At("spawn")
    /\ proc' = [proc EXCEPT ![cur] = "starting"]
    /\ pc' = "record"
    /\ UNCHANGED <<cur, work, pool, books, sent, ends, evidence, host>>

Record ==
    /\ At("record")
    /\ pids' = pids \cup {cur}
    /\ running' = running + 1
    /\ pc' = "pool"
    /\ UNCHANGED <<cur, work, pass, todo, retried, books, sent, ends, proc,
                   evidence, host>>

PoolFull == todo = {} \/ running >= Bound

\* Slip: a failed cell is left to tear itself down.
SlipReapOne(c) ==
    /\ At("pool")
    /\ PoolFull
    /\ running > 0
    /\ c \in pids
    /\ proc[c] \in Ended
    /\ pids' = pids \ {c}
    /\ running' = running - 1
    /\ rc' = [rc EXCEPT ![c] = IF proc[c] = "ok" THEN "0" ELSE "1"]
    /\ rcfile' = [rcfile EXCEPT ![c] = IF proc[c] = "ok" THEN "0" ELSE "1"]
    /\ proc' = [proc EXCEPT ![c] = "none"]
    /\ cur' = c
    /\ UNCHANGED <<pc, work, pass, todo, retried, sent, ends, evidence, host>>

\* wait -n returns an ended child; everything up to the teardown line.
ReapOne(c) ==
    /\ At("pool")
    /\ PoolFull
    /\ running > 0
    /\ c \in pids
    /\ proc[c] \in Ended
    /\ pids' = pids \ {c}
    /\ running' = running - 1
    /\ rc' = [rc EXCEPT ![c] = IF proc[c] = "ok" THEN "0" ELSE "1"]
    /\ rcfile' = [rcfile EXCEPT ![c] = IF proc[c] = "ok" THEN "0" ELSE "1"]
    /\ proc' = [proc EXCEPT ![c] = "none"]
    /\ cur' = c
    /\ pc' = IF proc[c] = "ok" THEN "pool" ELSE "down"
    /\ UNCHANGED <<work, pass, todo, retried, sent, ends, evidence, host>>

\* teardown_cell runs down-cell.sh in the foreground: the shell's own trap
\* waits for it.
TeardownStart ==
    /\ At("down")
    /\ pc' = "downing"
    /\ UNCHANGED <<cur, work, pool, books, sent, ends, proc, evidence, host>>

TeardownEnd ==
    /\ pc = "downing"
    /\ DownCell(cur, pending)
    /\ pc' = "pool"
    /\ UNCHANGED <<cur, work, pool, books, sent, status, proc, evidence,
                   built, foreign>>

\* Slip: run_pool returns with the last start.
SlipPoolDoneEarly ==
    /\ At("pool")
    /\ todo = {}
    /\ \/ pass = 1 /\ Retry /\ pc' = "scan" /\ work' = Cells
       \/ (pass = 2 \/ ~Retry) /\ pc' = "judge" /\ UNCHANGED work
    /\ UNCHANGED <<cur, pool, books, sent, ends, proc, evidence, host>>

\* The end of run_pool: after the first pass, retry_pass looks at each cell.
PoolDone ==
    /\ At("pool")
    /\ todo = {}
    /\ running = 0
    /\ \/ pass = 1 /\ Retry /\ pc' = "scan" /\ work' = Cells
       \/ (pass = 2 \/ ~Retry) /\ pc' = "judge" /\ UNCHANGED work
    /\ UNCHANGED <<cur, pool, books, sent, ends, proc, evidence, host>>

\* Slip: an attempt moved aside replaces the one already there.
SlipRetryScan(c) ==
    LET moved == IF rc[c] \in {"0", "1"} THEN LoadCasualties(c) ELSE {}
    IN  /\ At("scan")
        /\ c \in work
        /\ work' = work \ {c}
        /\ verd' = [verd EXCEPT ![c] = [s \in Scenarios |->
                        IF s \in moved THEN NoRow ELSE @[s]]]
        /\ aside' = [aside EXCEPT ![c] = [s \in Scenarios |->
                        IF s \in moved THEN 1 ELSE @[s]]]
        /\ retried' = IF moved = {} THEN retried ELSE retried \cup {c}
        /\ UNCHANGED <<pc, cur, pass, todo, running, pids, books, sent, ends,
                       proc, marker, host>>

\* Only a cell whose run-cell.sh ran has a numeric RC; its load casualties
\* are moved to retried/ under a free name, never over an earlier file.
RetryScan(c) ==
    LET moved == IF rc[c] \in {"0", "1"} THEN LoadCasualties(c) ELSE {}
    IN  /\ At("scan")
        /\ c \in work
        /\ work' = work \ {c}
        /\ verd' = [verd EXCEPT ![c] = [s \in Scenarios |->
                        IF s \in moved THEN NoRow ELSE @[s]]]
        /\ aside' = [aside EXCEPT ![c] = [s \in Scenarios |->
                        IF s \in moved THEN @[s] + 1 ELSE @[s]]]
        /\ retried' = IF moved = {} THEN retried ELSE retried \cup {c}
        /\ UNCHANGED <<pc, cur, pass, todo, running, pids, books, sent, ends,
                       proc, marker, host>>

RetryStart ==
    /\ At("scan")
    /\ work = {}
    /\ \/ retried = {} /\ pc' = "judge" /\ UNCHANGED <<pass, todo>>
       \/ retried # {} /\ pc' = "pool" /\ pass' = 2 /\ todo' = retried
    /\ UNCHANGED <<cur, work, running, pids, retried, books, sent, ends, proc,
                   evidence, host>>

FlagMostlyBlocked ==
    LET flagged == {c \in Cells :
                      rc[c] = "0" /\ Rows(c) # {} /\ MostlyBlocked(c)}
    IN  /\ At("judge")
        /\ rc' = [c \in Cells |->
                    IF c \in flagged THEN "mostly-blocked" ELSE rc[c]]
        /\ rcfile' = [c \in Cells |->
                    IF c \in flagged THEN "mostly-blocked" ELSE rcfile[c]]
        /\ pc' = "report"
        /\ UNCHANGED <<cur, work, pool, sent, ends, proc, evidence, host>>

\* Slip: mostly-blocked is a note in the table and no failure.
SlipExitBlocked ==
    /\ At("report")
    /\ status' = IF \A c \in Cells :
                       rc[c] \in {"0", "skipped-image", "mostly-blocked"}
                 THEN "0" ELSE "1"
    /\ pc' = "exit"
    /\ UNCHANGED <<cur, work, pool, books, sent, refused, proc, evidence,
                   host>>

\* Slip: the exit status counts the failures.
SlipExitCounts ==
    /\ At("report")
    /\ status' = LET n == Cardinality({c \in Cells :
                             rc[c] \notin {"0", "skipped-image"}})
                 IN  IF n = 0 THEN "0" ELSE IF n = 1 THEN "1" ELSE "more"
    /\ pc' = "exit"
    /\ UNCHANGED <<cur, work, pool, books, sent, refused, proc, evidence,
                   host>>

Exit ==
    /\ At("report")
    /\ status' = IF \A c \in Cells : rc[c] \in {"0", "skipped-image"}
                 THEN "0" ELSE "1"
    /\ pc' = "exit"
    /\ UNCHANGED <<cur, work, pool, books, sent, refused, proc, evidence,
                   host>>

-----------------------------------------------------------------------------
\* on_signal.
TrapEnter ==
    /\ pending
    /\ pc \notin {"downing", "exit"} /\ ~InTrap
    /\ pending' = FALSE
    /\ pc' = "trap-stop"
    /\ UNCHANGED <<cur, work, pool, books, signals, ends, proc, evidence,
                   host>>

\* TERM to every session in PID_CELL, wait, then KILL what is left of it.
TrapStop ==
    /\ pc = "trap-stop"
    /\ proc' = [c \in Cells |-> IF c \in pids /\ proc[c] \in Active
                                THEN "killed" ELSE proc[c]]
    /\ work' = pids
    /\ pc' = "trap-down"
    /\ UNCHANGED <<cur, pool, books, sent, ends, evidence, host>>

TrapTeardownStart(c) ==
    /\ pc = "trap-down"
    /\ c \in work
    /\ cur' = c
    /\ pc' = "trap-downing"
    /\ UNCHANGED <<work, pool, books, sent, ends, proc, evidence, host>>

\* Slip: the trap comes back to a cell whose domains were there.
SlipMarkTerminated ==
    /\ work' = IF dom[cur] = "none" THEN work \ {cur} ELSE work
    /\ rc' = [rc EXCEPT ![cur] = "terminated"]
    /\ rcfile' = [rcfile EXCEPT ![cur] = "terminated"]
    /\ pc' = "trap-down"

MarkTerminated ==
    /\ work' = work \ {cur}
    /\ rc' = [rc EXCEPT ![cur] = "terminated"]
    /\ rcfile' = [rcfile EXCEPT ![cur] = "terminated"]
    /\ pc' = "trap-down"

TrapTeardownEnd ==
    /\ pc = "trap-downing"
    /\ DownCell(cur, FALSE)
    /\ MarkTerminated
    /\ UNCHANGED <<cur, pool, sent, status, proc, evidence, built, foreign>>

TrapExit ==
    /\ pc = "trap-down"
    /\ work = {}
    /\ status' = "130"
    /\ pc' = "exit"
    /\ UNCHANGED <<cur, work, pool, books, sent, refused, proc, evidence,
                   host>>

\* A signal for the shell alone (kill -TERM): the trap runs at the end of the
\* current command.  A second one finds TERMINATING set.
SignalShell ==
    /\ pc # "exit" /\ ~InTrap /\ ~pending
    /\ signals < MaxSignals
    /\ signals' = signals + 1
    /\ pending' = TRUE
    /\ UNCHANGED <<pc, cur, work, pool, books, ends, proc, evidence, host>>

\* A signal for the foreground process group (Ctrl-C, a hang-up) also ends a
\* down-cell.sh the shell is waiting for; cells have sessions of their own.
SignalGroup ==
    /\ pc \in {"downing", "trap-downing"}
    /\ signals < MaxSignals
    /\ signals' = signals + 1
    /\ \/ pc = "downing" /\ pending' = TRUE /\ pc' = "pool"
          /\ UNCHANGED <<work, books, refused>>
       \/ pc = "trap-downing" /\ MarkTerminated
          /\ refused' = refused \cup {cur} /\ UNCHANGED pending
    /\ UNCHANGED <<cur, pool, status, proc, evidence, host>>

-----------------------------------------------------------------------------
\* A cell's run-cell.sh, as far as the pool sees it.
Step(c, from, to) == proc[c] = from /\ proc' = [proc EXCEPT ![c] = to]

Unmeasured(c) == {s \in Scenarios : ~Real(verd[c][s])}

\* abort-blocked: a BLOCKED row for every scenario without a verdict.
AbortRows(c) ==
    verd' = [verd EXCEPT ![c] = [s \in Scenarios |->
                IF s \in Unmeasured(c) THEN "ABORT" ELSE @[s]]]

\* up-cell.sh defines the cell's domains, or starts those that exist.
DefineDomains(c) ==
    dom' = [dom EXCEPT ![c] = IF @ = "none" THEN "ours" ELSE @]

CellUp(c) ==
    /\ Step(c, "starting", "measuring")
    /\ DefineDomains(c)
    /\ UNCHANGED <<shell, evidence, built, foreign>>

CellUpFails(c) ==
    /\ Step(c, "starting", "failed")
    /\ DefineDomains(c) \/ UNCHANGED dom
    /\ AbortRows(c)
    /\ UNCHANGED <<shell, aside, marker, built, foreign>>

CellMeasure(c, s, r) ==
    /\ Step(c, "measuring", "measuring")
    /\ s \in Unmeasured(c)
    /\ verd' = [verd EXCEPT ![c][s] = r]
    /\ UNCHANGED <<shell, aside, marker, host>>

CellMeasured(c) ==
    /\ Unmeasured(c) = {}
    /\ Step(c, "measuring", "closing")
    /\ UNCHANGED <<shell, evidence, host>>

\* labctl run failed for a shape; the later shapes may be left out (rc 3).
CellShapeFails(c) ==
    /\ Step(c, "measuring", "closing-failed")
    /\ AbortRows(c) \/ UNCHANGED verd
    /\ UNCHANGED <<shell, aside, marker, host>>

\* set -e ends the script wherever a command failed; nothing is torn down.
CellDies(c) ==
    /\ proc[c] \in Active
    /\ proc' = [proc EXCEPT ![c] = "failed"]
    /\ UNCHANGED <<shell, evidence, host>>

CellDown(c) ==
    /\ dom' = [dom EXCEPT ![c] = "none"]
    /\ \/ Step(c, "closing", "ok")
       \/ Step(c, "closing-failed", "failed")
    /\ UNCHANGED <<shell, evidence, built, foreign>>

-----------------------------------------------------------------------------
\* Everyone else on the host.
BringingUp(c) == \/ proc[c] = "starting"
                 \/ cur = c /\ pc \in {"spawn", "record"}

OtherDefines(c) ==
    /\ dom[c] = "none"
    /\ foreign < MaxForeign
    /\ OthersKeepAway => ~BringingUp(c)
    /\ dom' = [dom EXCEPT ![c] = "other"]
    /\ foreign' = foreign + 1
    /\ UNCHANGED <<shell, proc, evidence, built>>

OtherRemoves(c) ==
    /\ dom[c] = "other"
    /\ dom' = [dom EXCEPT ![c] = "none"]
    /\ UNCHANGED <<shell, proc, evidence, built, foreign>>

ImageBuilt(c) ==
    /\ ~built[c]
    /\ built' = [built EXCEPT ![c] = TRUE]
    /\ UNCHANGED <<shell, proc, evidence, dom, foreign>>

-----------------------------------------------------------------------------
Main ==
    \/ \E c \in Cells : PoolFill(c) \/ ReapOne(c) \/ RetryScan(c)
    \/ ImageGate \/ WaitForDisk \/ CheckHost \/ Spawn \/ Record
    \/ TeardownStart \/ TeardownEnd
    \/ PoolDone \/ RetryStart \/ FlagMostlyBlocked \/ Exit
    \/ TrapEnter \/ TrapStop \/ TrapTeardownEnd \/ TrapExit
    \/ \E c \in Cells : TrapTeardownStart(c)

CellEnds(c) ==
    \/ CellUp(c) \/ CellUpFails(c) \/ CellMeasured(c)
    \/ CellShapeFails(c) \/ CellDies(c) \/ CellDown(c)

Cell(c) ==
    \/ CellEnds(c)
    \/ \E s \in Scenarios, r \in Outcomes : CellMeasure(c, s, r)

Others(c) == OtherDefines(c) \/ OtherRemoves(c) \/ ImageBuilt(c)

Finished == pc = "exit" /\ UNCHANGED vars

Next ==
    \/ Main
    \/ SignalShell \/ SignalGroup
    \/ \E c \in Cells : Cell(c) \/ Others(c)
    \/ Finished

Spec == Init /\ [][Next]_vars

\* The shell runs on, and every wait inside run-cell.sh is bounded.
FairSpec == Spec /\ WF_vars(Main) /\ \A c \in Cells : WF_vars(Cell(c))

-----------------------------------------------------------------------------
TypeOK ==
    /\ pc \in Commands
    /\ cur \in Cells
    /\ pass \in {1, 2}
    /\ todo \subseteq Cells
    /\ work \subseteq Cells
    /\ running \in Nat
    /\ pids \subseteq Cells
    /\ rc \in [Cells -> Codes \cup {NoCode}]
    /\ rcfile \in [Cells -> Codes \cup {NoCode}]
    /\ retried \subseteq Cells
    /\ pending \in BOOLEAN
    /\ signals \in Nat
    /\ status \in {NoCode, "0", "1", "130"}
    /\ refused \subseteq Cells
    /\ proc \in [Cells -> Procs]
    /\ dom \in [Cells -> {"none", "ours", "other"}]
    /\ verd \in [Cells -> [Scenarios -> Results \cup {NoRow}]]
    /\ aside \in [Cells -> [Scenarios -> Nat]]
    /\ marker \in [Cells -> BOOLEAN]
    /\ built \in [Cells -> BOOLEAN]
    /\ foreign \in Nat

\* Sessions that run, or have ended and wait to be reaped.
InHand == {c \in Cells : proc[c] \in Active \cup Ended}

\* The pool never has more than -j cells in hand, and RUNNING, which is all
\* it fills and ends by, is the number of pids it would have to reap.
PoolBound ==
    /\ running = Cardinality(pids)
    /\ running <= Bound
    /\ ~InTrap /\ pc # "exit" =>
          Cardinality(InHand) <= Bound

\* Without a signal, domains a cell of this run left behind are a cell still
\* in hand, the one being torn down, or one the log names as not torn down.
LeftoverIsReported ==
    signals = 0 =>
        \A c \in Cells : dom[c] = "ours" =>
            c \in pids \cup refused \/ (cur = c /\ pc \in {"record", "down", "downing"})

\* Exit 0 vouches for every cell: it has a verdict of its own for every row,
\* few enough BLOCKED ones, and is off the host, or it never ran here at all
\* for want of an image.
GreenMeansMeasured ==
    status = "0" => \A c \in Cells :
        \/ rc[c] = "skipped-image" /\ c \notin retried
        \/ Unmeasured(c) = {} /\ ~MostlyBlocked(c) /\ dom[c] # "ours"

\* A finished run has an answer for every cell, the same one in the table
\* and in logs/<cell>.rc, and nothing of it is left running.
EveryCellAnswered ==
    status \in {"0", "1"} => \A c \in Cells :
        rc[c] # NoCode /\ rcfile[c] = rc[c] /\ proc[c] = "none"

\* The image-not-built marker and a verdict never stand side by side: the
\* results page refuses such a bundle (internal/matrix).
MarkerExclusive == \A c \in Cells : marker[c] => Rows(c) = {}

\* A measured verdict never changes and never disappears: the only way out
\* of the bundle is into retried/, beside the attempts already there, once:
\* there is one retry pass, and what the rerun measured is final.
VerdictsKept ==
    [][/\ \A c \in Cells, s \in Scenarios :
            Real(verd[c][s]) /\ verd'[c][s] # verd[c][s] =>
                /\ pass = 1
                /\ verd'[c][s] = NoRow
                /\ aside'[c][s] = aside[c][s] + 1
       /\ pass = 2 => pass' = 2 /\ retried' = retried]_vars

\* A cell is never started on top of domains that are already there, however
\* long it waited in the queue (needs OthersKeepAway).
NeverOnTop ==
    [][\A c \in Cells :
          proc[c] # "starting" /\ proc'[c] = "starting" =>
              dom[c] = "none" /\ proc[c] = "none"]_vars

\* Whatever the cells do, the pool comes to an end.
PoolEnds == <>(pc = "exit")

-----------------------------------------------------------------------------
\* The inductive invariants behind PoolBound and MarkerExclusive.

\* Every session the shell answers for is in PID_CELL, or the one it has just
\* started; a cell is queued, being started or in PID_CELL, never two of them.
PoolInv ==
    /\ running = Cardinality(pids)
    /\ running <= Bound
    /\ todo \cap pids = {}
    /\ pc \in Starting => cur \notin pids \cup todo /\ running < Bound
    /\ pc \in {"scan", "judge", "report"} => pids = {}
    /\ ~InTrap /\ pc # "exit" =>
          InHand \subseteq pids \cup (IF pc = "record" THEN {cur} ELSE {})

\* The marker is gone before the cell's own run-cell.sh exists, and stays
\* gone for as long as it runs.
MarkerInv ==
    \A c \in Cells :
        marker[c] => /\ Rows(c) = {}
                     /\ proc[c] \notin Active
                     /\ cur = c => pc \notin Starting \ {"gate"}

-----------------------------------------------------------------------------
\* What the repository says of the program and the code does not do.

\* README.md: "INT or TERM stops every running cell and tears it down with
\* `down-cell.sh`."
SignalStopsEveryCell ==
    status = "130" => \A c \in Cells :
        proc[c] \notin Active /\ (dom[c] = "ours" => c \in refused)

=============================================================================
