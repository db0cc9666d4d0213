---- MODULE ScenarioBodies ----
(***************************************************************************)
(* The scenario bodies of one cell, one after the other: each is a program *)
(* (a sequence of steps of BodySteps) that runs behind the readiness gate  *)
(* of the source, pushes its cleanups on a stack, and unwinds the stack    *)
(* when it answers.  A command may fail at any step, a failing command may *)
(* have run, and labctl may be killed between any two steps.               *)
(*                                                                         *)
(* What a body may leave to the next one is the source's state             *)
(* (SourceState) and the docker host's: containers, networks, the plugin's *)
(* tag.  The gates in front of it that look at the plugin's process, the   *)
(* host and the shape's own network are LabctlRun's and SegmentNet's.      *)
(***************************************************************************)
EXTENDS SourceState, BodyRules

CONSTANTS
    Programs,   \* the steps of each scenario
    Order,      \* the scenarios as the catalog lists them
    CellKinds,  \* the sources of the cells
    MaxBodies,  \* bound: scenarios run one after the other
    MaxFaults   \* bound: lost commands and kills

ASSUME CellKindsAssumption == CellKinds \subseteq Kinds

(* Names of containers and of the host's own links, and of extra networks. *)
(* "old" stands for what an earlier scenario left on the shape's network.  *)
Boxes == {"c", "c1", "c2", "c3", "c4", "ctl", "bind", "vlan", "dummy", "old"}
Nets == {"n", "n1", "n2", "internal", "r1", "r2"}

(* The steps of a body, by what each names.                                *)
Of(ops, xs, ys) == [op : ops, x : xs, y : ys, ends : SUBSET {"FAIL", "BLOCKED", "N/A"}, skip : Nat]
Disturbances == {"container", "docker", "host", "source", "renewal", "remove-plugin", "install-previous",
                 "disable-plugin", "upgrade-plugin", "enable-plugin", "kill-plugin"}
Steps ==
  Of({"ask", "look", "judge", "settle", "only", "enter", "return", "maybe"}, {""}, {""})
    \cup Of({"start", "try", "attach", "go"}, Boxes, Nets \cup {Main})
    \cup Of({"await", "link", "remove", "list", "unlist"}, Boxes, {""})
    \cup Of({"create", "trynet", "drop"}, Nets, {""}) \cup Of({"swap"}, {Main}, {""})
    \cup Of({"change"}, Changes, {"quiet", "told"}) \cup Of({"undo"}, Changes, {"", "once"})
    \cup Of({"do"}, Disturbances, {""}) \cup Of({"reserve"}, {"mac", "id"}, {""})
    \cup Of({"later"}, Boxes, {"rm", "join"}) \cup Of({"later"}, Nets, {"down"})
    \cup Of({"later"}, {""}, {"listed", "ready"}) \cup Of({"later"}, Actors, {"quiet"})
    \cup Of({"later"}, {Main}, {"told"})

ASSUME ProgramsAssumption ==
  /\ \A b \in DOMAIN Programs : Programs[b] \in Seq(Steps)
  /\ Order \in Seq(DOMAIN Programs)

(* A13 defers the removal of its network behind the container's, so Docker *)
(* refuses it in every run.                                                *)
LeavesItsNetwork == {"A13"}

(* What the bodies have in common, on which everything the next scenario   *)
(* finds rests.                                                            *)
ASSUME RulesAssumption ==
  \A b \in DOMAIN Programs :
    LET p == Programs[b] IN
    /\ Measures(p) /\ LiftsFirst(p) /\ Upgrades(p)
    /\ RemovesBoxes(p) /\ RemovesNets(p) /\ PutsMainBack(p) /\ EditsNest(p, Edits)
    /\ b \in LeavesItsNetwork \/ NetsFirst(p, Nets)

VARIABLES
    body, pc,       \* the scenario and the place in it, 0 once it answered
    phase,          \* gate, ready, body, return (inner function), unwind, over
    verdict,        \* the answer, "none" before there is one
    judged,         \* a verdict kept for the end of the body
    fresh,          \* what is looked at has been read since the last change;
                    \* both are the body's own until it answers
    defers,         \* the cleanup stack
    failed,         \* steps of this body that answered an error
    found,          \* source and plugin as the body found them
    src, was, done, \* the source; config before an edit; changes undone
    base,           \* the copy the first readiness check of the process took
    on,             \* networks each container is on, {} when there is none
    starting,       \* docker runs in a goroutine
    listed,         \* containers the body keeps in a list
    nets, main,     \* extra networks; the shape's own: up, gone, other
    plugin,         \* the installed tag: configured, previous
    bodies, faults

progress == <<body, pc, phase, verdict, judged, fresh, defers>>
source == <<src, was, done, base>>
docker == <<on, starting, listed, nets, main, plugin>>
vars == <<progress, failed, found, source, docker, bodies, faults>>

-----------------------------------------------------------------------------
(* How a step goes on, ends the body, or fails.                            *)

Prog == Programs[body]
At(op) == phase = "body" /\ pc \in DOMAIN Prog /\ Prog[pc].op = op
Cur == Prog[pc]

Proceed == pc' = pc + 1 /\ UNCHANGED <<body, phase, verdict>>

End == /\ \E v \in Cur.ends : verdict' = v
       /\ phase' = "unwind" /\ pc' = 0
       /\ UNCHANGED body

(* A judged step goes on; the others end the body where they can.          *)
EndOrProceed == IF Cur.ends = {} THEN Proceed ELSE End

Push(d) == defers' = Append(defers, d)

(* What was read before a change says nothing of the time after it, unless *)
(* it has been judged; an answer ends both.                                *)
Answered == judged' = "none" /\ fresh' = FALSE

Stale == IF phase' = "unwind" THEN Answered ELSE fresh' = (fresh /\ judged # "none") /\ UNCHANGED judged
Kept == IF phase' = "unwind" THEN Answered ELSE UNCHANGED <<judged, fresh>>

Note(op, x) == failed' = failed \cup {<<op, x>>}

(* A command of the lab is lost: it may have run.                          *)
Lost(op, x) == faults < MaxFaults /\ faults' = faults + 1 /\ Note(op, x)

Well == UNCHANGED <<failed, faults>>

Alone == UNCHANGED <<found, bodies>>

-----------------------------------------------------------------------------
(* Reads and control.                                                      *)

Asked == /\ At("ask")
         /\ Proceed \/ End
         /\ Kept /\ Well /\ Alone /\ UNCHANGED <<defers, source, docker>>

(* Mutant: a poll that has run out of tries goes on as if it had read.     *)
SlipLooked == /\ At("look")
              /\ Proceed \/ End
              /\ Kept /\ Well /\ Alone /\ UNCHANGED <<defers, source, docker>>

Looked == /\ At("look")
          /\ \/ Proceed /\ fresh' = TRUE /\ UNCHANGED judged
             \/ End /\ Kept
          /\ Well /\ Alone /\ UNCHANGED <<defers, source, docker>>

Judged == /\ At("judge")
          /\ Proceed
          /\ fresh' = TRUE
          /\ IF judged \in {"none", "PASS"} THEN judged' \in {"PASS"} \cup Cur.ends ELSE UNCHANGED judged
          /\ Well /\ Alone /\ UNCHANGED <<defers, source, docker>>

Settled == /\ At("settle")
           /\ IF judged \in {"none", "PASS"} THEN Proceed
              ELSE verdict' = judged /\ phase' = "unwind" /\ pc' = 0 /\ UNCHANGED body
           /\ Kept /\ Well /\ Alone /\ UNCHANGED <<defers, source, docker>>

OnlyEnds == /\ At("only")
            /\ End
            /\ Kept /\ Well /\ Alone /\ UNCHANGED <<defers, source, docker>>

InSomeCells == /\ At("maybe")
               /\ pc' \in {pc + 1, pc + 1 + Cur.skip}
               /\ Well /\ Alone
               /\ UNCHANGED <<body, phase, verdict, judged, fresh, defers, source, docker>>

(* Mutant: a restore that is deferred already is not deferred once more.   *)
SlipDeferred == /\ At("later")
                /\ Proceed
                /\ LET d == [op |-> Cur.y, x |-> Cur.x] IN
                   IF \E k \in DOMAIN defers : defers[k] = d THEN UNCHANGED defers ELSE Push(d)
                /\ Well /\ Alone /\ UNCHANGED <<judged, fresh, source, docker>>

Deferred == /\ At("later")
            /\ Proceed
            /\ Push([op |-> Cur.y, x |-> Cur.x])
            /\ Well /\ Alone /\ UNCHANGED <<judged, fresh, source, docker>>

Enter == /\ At("enter")
         /\ Proceed
         /\ Push([op |-> "mark", x |-> ""])
         /\ Well /\ Alone /\ UNCHANGED <<judged, fresh, source, docker>>

Return == /\ At("return")
          /\ phase' = "return"
          /\ Well /\ Alone /\ UNCHANGED <<body, pc, verdict, judged, fresh, defers, source, docker>>

(* The body's last return.                                                 *)
Answer == /\ phase = "body" /\ pc \notin DOMAIN Prog
          /\ verdict' = IF judged = "none" THEN "PASS" ELSE judged
          /\ phase' = "unwind" /\ pc' = 0
          /\ Kept /\ Well /\ Alone /\ UNCHANGED <<body, defers, source, docker>>

-----------------------------------------------------------------------------
(* Containers and networks.                                                *)

There(n) == IF n = Main THEN main # "gone" ELSE n \in nets
Free(n) == \A c \in Boxes : n \notin on[c]

(* A docker run that answers an error may leave nothing, a container that  *)
(* never got on the network, or a running one.                             *)
HalfRun(c, n) == on' \in {[on EXCEPT ![c] = s] : s \in {{}, {"none"}, {n}}}

StartBox == /\ At("start")
            /\ \/ /\ There(Cur.y) /\ on' = [on EXCEPT ![Cur.x] = {Cur.y}]
                  /\ Proceed /\ UNCHANGED failed
               \/ HalfRun(Cur.x, Cur.y) /\ EndOrProceed /\ Note("start", Cur.x)
            /\ Stale /\ Alone
            /\ UNCHANGED <<defers, source, starting, listed, nets, main, plugin, faults>>

(* The exit status is judged later; only an unread one ends the body.      *)
TryBox == /\ At("try")
          /\ \/ There(Cur.y) /\ on' = [on EXCEPT ![Cur.x] = {Cur.y}] /\ Proceed
             \/ HalfRun(Cur.x, Cur.y) /\ (Proceed \/ End)
          /\ Stale /\ Well /\ Alone
          /\ UNCHANGED <<defers, source, starting, listed, nets, main, plugin>>

GoBox == /\ At("go")
         /\ starting' = starting \cup {Cur.x}
         /\ Proceed
         /\ Stale /\ Well /\ Alone
         /\ UNCHANGED <<defers, source, on, listed, nets, main, plugin>>

Landed(c) == /\ c \in starting
             /\ starting' = starting \ {c}
             /\ HalfRun(c, Main)
             /\ UNCHANGED <<body, pc, phase, verdict, defers, source, listed, nets, main, plugin>>
             /\ Stale /\ Well /\ Alone

AwaitBox == /\ At("await") /\ Cur.x \notin starting
            /\ Proceed \/ End
            /\ Kept /\ Well /\ Alone /\ UNCHANGED <<defers, source, docker>>

(* ip link add answers an error whether or not the link is there.          *)
AddLink == /\ At("link")
           /\ \/ on' = [on EXCEPT ![Cur.x] = {"none"}] /\ Proceed /\ UNCHANGED failed
              \/ on' \in {on, [on EXCEPT ![Cur.x] = {"none"}]} /\ End /\ Note("start", Cur.x)
           /\ Stale /\ Alone
           /\ UNCHANGED <<defers, source, starting, listed, nets, main, plugin, faults>>

AttachBox == /\ At("attach")
             /\ \/ on' = [on EXCEPT ![Cur.x] = @ \cup {Cur.y}] /\ Proceed
                \/ on' \in {on, [on EXCEPT ![Cur.x] = @ \cup {Cur.y}]} /\ End
             /\ Stale /\ Well /\ Alone
             /\ UNCHANGED <<defers, source, starting, listed, nets, main, plugin>>

Gone(c) == on' = [on EXCEPT ![c] = {}]

RemoveBox == /\ At("remove")
             /\ \/ Gone(Cur.x) /\ Proceed /\ Well
                \/ Lost("rm", Cur.x) /\ (Gone(Cur.x) \/ UNCHANGED on) /\ EndOrProceed
             /\ Stale /\ Alone
             /\ UNCHANGED <<defers, source, starting, listed, nets, main, plugin>>

ListBox == /\ At("list") \/ At("unlist")
           /\ listed' = IF At("list") THEN listed \cup {Cur.x} ELSE listed \ {Cur.x}
           /\ Proceed
           /\ Well /\ Alone
           /\ UNCHANGED <<judged, fresh, defers, source, on, starting, nets, main, plugin>>

CreateNet == /\ At("create")
             /\ \/ nets' = nets \cup {Cur.x} /\ Proceed
                \/ nets' \in {nets, nets \cup {Cur.x}} /\ End
             /\ Stale /\ Well /\ Alone
             /\ UNCHANGED <<defers, source, on, starting, listed, main, plugin>>

TryCreateNet == /\ At("trynet")
                /\ nets' \in {nets, nets \cup {Cur.x}} /\ Proceed
                /\ Stale /\ Well /\ Alone
                /\ UNCHANGED <<defers, source, on, starting, listed, main, plugin>>

(* docker network rm refuses while a container is on the network; nobody   *)
(* reads its answer.                                                       *)
NetRemoved(n) == \/ Free(n) /\ nets' = nets \ {n} /\ Well
                 \/ ~Free(n) /\ UNCHANGED nets /\ Well
                 \/ Lost("down", n) /\ UNCHANGED nets

DropNet == /\ At("drop")
           /\ NetRemoved(Cur.x) /\ Proceed
           /\ Stale /\ Alone
           /\ UNCHANGED <<defers, source, on, starting, listed, main, plugin>>

SwapMain == /\ At("swap")
            /\ \/ Free(Main) /\ main' = "other" /\ Proceed /\ Well
               \/ Free(Main) /\ main' \in {"gone", "other"} /\ End /\ Well
               \/ ~Free(Main) /\ UNCHANGED main /\ End /\ Well
            /\ Stale /\ Alone
            /\ UNCHANGED <<defers, source, on, starting, listed, nets, plugin>>

-----------------------------------------------------------------------------
(* The source, the plugin and the host changed.                            *)

(* A stop defers its start first; the other restores exist once the setter *)
(* has answered.                                                           *)
DeferredFirst == {"service", "peer"}

ChangeMade ==
  /\ At("change") /\ ~Refuses(src, Cur.x)
  /\ src' = Set(src, Cur.x)
  /\ was' = IF IsEdit(src.kind, Cur.x) THEN [was EXCEPT ![Cur.x] = Captured(src, Cur.x)] ELSE was
  /\ done' = done \ {Cur.x}
  /\ Push([op |-> Cur.y, x |-> Cur.x])
  /\ Proceed
  /\ Stale /\ Well /\ Alone /\ UNCHANGED <<base, docker>>

ChangeFailed ==
  /\ At("change")
  /\ \/ ~Refuses(src, Cur.x) /\ Lost("set", Cur.x) /\ src' \in SetFailed(src, Cur.x)
     \/ /\ ~Refuses(src, Cur.x)
        /\ faults + 1 < MaxFaults /\ faults' = faults + 2 /\ Note("set", Cur.x)
        /\ src' \in SetFailedTwice(src, Cur.x)
     \/ MayRefuse(src, Cur.x) /\ UNCHANGED <<src, faults>> /\ Note("set", Cur.x)
  /\ End
  /\ done' = done \ {Cur.x}
  /\ IF Cur.x \in DeferredFirst /\ ~Refuses(src, Cur.x) THEN Push([op |-> Cur.y, x |-> Cur.x]) ELSE UNCHANGED defers
  /\ Stale /\ Alone /\ UNCHANGED <<was, base, docker>>

Nothing == [conf |-> [f \in Files |-> {}], addr |-> {}]
Was(x) == IF x \in Edits THEN was[x] ELSE Nothing

UndoNow ==
  /\ At("undo")
  /\ \/ /\ src' = Restored(src, Cur.x, Was(Cur.x)) /\ Proceed /\ Well
        /\ done' = done \cup {Cur.x}
     \/ /\ Lost("undo", Cur.x) /\ src' \in RestoreLost(src, Cur.x, Was(Cur.x)) /\ End
        /\ done' = IF Cur.y = "once" THEN done \cup {Cur.x} ELSE done
  /\ Stale /\ Alone /\ UNCHANGED <<defers, was, base, docker>>

(* What the plugin's tag is after docker plugin rm, install and upgrade.   *)
Tag(what) == CASE what = "install-previous" -> "previous"
               [] what = "upgrade-plugin" -> "configured"
               [] OTHER -> plugin

Disturb ==
  /\ At("do")
  /\ \/ Proceed /\ plugin' = Tag(Cur.x) /\ Well
        /\ src' = IF Cur.x = "source" THEN LeasesReset(src) ELSE src
     \/ End /\ plugin' \in {plugin, Tag(Cur.x)} /\ Note("do", Cur.x) /\ UNCHANGED faults
        /\ src' \in IF Cur.x = "source" THEN ResetFailed(src) ELSE {src}
  /\ Stale /\ Alone
  /\ UNCHANGED <<defers, was, done, base, on, starting, listed, nets, main>>

(* An address reserved by MAC or by client id, for good.  A lost answer may *)
(* be that of the command or of the copy's renewal behind it.              *)
Reserve ==
  /\ At("reserve")
  /\ \/ /\ Reserves(src.kind, Cur.x)
        /\ src' = Reserved(src, Cur.x) /\ base' = Reread(src, base, Cur.x)
        /\ Proceed /\ Well
     \/ /\ Reserves(src.kind, Cur.x) /\ Lost("reserve", "source")
        /\ src' \in ReserveFailed(src, Cur.x) /\ UNCHANGED base /\ End
     \/ ~Reserves(src.kind, Cur.x) /\ End /\ Note("reserve", "source") /\ UNCHANGED <<src, base, faults>>
  /\ Stale /\ Alone /\ UNCHANGED <<defers, was, done, docker>>

-----------------------------------------------------------------------------
(* The cleanup stack, last in first out.                                   *)

Unwinding == phase \in {"return", "unwind"} /\ defers # <<>>
Top == defers[Len(defers)]
Next1(op) == Unwinding /\ Top.op = op
Pop == defers' = SubSeq(defers, 1, Len(defers) - 1)

Popped == Pop /\ UNCHANGED <<body, pc, phase>> /\ Stale /\ Alone

PopBox == /\ Next1("rm")
          /\ \/ Gone(Top.x) /\ Well
             \/ Lost("rm", Top.x) /\ (Gone(Top.x) \/ UNCHANGED on)
          /\ Popped /\ UNCHANGED <<verdict, source, starting, listed, nets, main, plugin>>

PopNet == /\ Next1("down")
          /\ NetRemoved(Top.x)
          /\ Popped /\ UNCHANGED <<verdict, source, on, starting, listed, main, plugin>>

(* Mutant: the first removal that answers an error ends the loop.          *)
SlipPopListed == /\ Next1("listed")
                 /\ \/ on' = [c \in Boxes |-> IF c \in listed THEN {} ELSE on[c]] /\ Well
                    \/ \E k \in listed : Lost("rm", k) /\ UNCHANGED on
                 /\ Popped /\ UNCHANGED <<verdict, source, starting, listed, nets, main, plugin>>

(* Every name in the list; a lost removal keeps its container.             *)
PopListed == /\ Next1("listed")
             /\ \/ on' = [c \in Boxes |-> IF c \in listed THEN {} ELSE on[c]] /\ Well
                \/ \E k \in listed :
                     /\ Lost("rm", k)
                     /\ on' = [c \in Boxes |-> IF c \in listed \ {k} THEN {} ELSE on[c]]
             /\ Popped /\ UNCHANGED <<verdict, source, starting, listed, nets, main, plugin>>

(* The main network removed and made again as the shape has it.            *)
PopMain == /\ phase = "unwind" /\ Next1("told") /\ Top.x = Main
           /\ \/ Free(Main) /\ main' = "up" /\ Well /\ UNCHANGED verdict
              \/ ~Free(Main) /\ UNCHANGED <<main, faults>> /\ Note("told", Main) /\ verdict' = "BLOCKED"
              \/ Lost("told", Main) /\ main' \in {main, "gone", "up"} /\ verdict' = "BLOCKED"
           /\ Popped /\ UNCHANGED <<source, on, starting, listed, nets, plugin>>

(* Mutant: the error of a told restore is thrown away like the others'.    *)
SlipPopRestore(op) ==
  /\ Next1(op) /\ Top.x \in Changes
  /\ \/ src' = Restored(src, Top.x, Was(Top.x)) /\ Well
     \/ Lost(op, Top.x) /\ src' \in RestoreLost(src, Top.x, Was(Top.x))
  /\ done' = done \cup {Top.x}
  /\ Popped /\ UNCHANGED <<verdict, was, base, docker>>

(* A restore already called is skipped.                                    *)
PopRestore(op) ==
  /\ Next1(op) /\ Top.x \in Changes
  /\ \/ Top.x \in done /\ UNCHANGED <<src, verdict>> /\ Well
     \/ Top.x \notin done /\ src' = Restored(src, Top.x, Was(Top.x)) /\ UNCHANGED verdict /\ Well
     \/ /\ Top.x \notin done /\ Lost(op, Top.x)
        /\ src' \in RestoreLost(src, Top.x, Was(Top.x))
        /\ verdict' = IF op = "told" THEN "BLOCKED" ELSE verdict
  /\ done' = done \cup {Top.x}
  /\ Popped /\ UNCHANGED <<was, base, docker>>

PopQuiet == PopRestore("quiet")
PopTold == phase = "unwind" /\ PopRestore("told")

PopJoin == /\ Next1("join") /\ Top.x \notin starting
           /\ Well /\ Popped /\ UNCHANGED <<verdict, source, docker>>

PopReady == /\ phase = "unwind" /\ Next1("ready")
            /\ \/ Ready(src, base) /\ UNCHANGED verdict /\ Well
               \/ ~Ready(src, base) /\ verdict' = "BLOCKED" /\ Well
               \/ Lost("ready", "") /\ verdict' = "BLOCKED"
            /\ Popped /\ UNCHANGED <<source, docker>>

PopMark == /\ Next1("mark")
           /\ Pop
           /\ IF phase = "return" THEN phase' = "body" /\ pc' = pc + 1 ELSE UNCHANGED <<phase, pc>>
           /\ Well /\ Alone /\ UNCHANGED <<body, verdict, judged, fresh, source, docker>>

Over == /\ phase = "unwind" /\ defers = <<>>
        /\ phase' = "over"
        /\ Well /\ Alone
        /\ UNCHANGED <<body, pc, verdict, judged, fresh, defers, source, docker>>

-----------------------------------------------------------------------------
(* The gate, the next scenario, the next process.                          *)

BlockedAtGate == verdict' = "BLOCKED" /\ phase' = "over" /\ UNCHANGED body

Begin == /\ phase' = "body"
         /\ base' = Baseline(src, base)
         /\ found' = [src |-> src, plugin |-> plugin]
         /\ failed' = {}
         /\ UNCHANGED <<body, verdict, src>>

FirstReady == /\ phase = "gate"
              /\ Ready(src, base) /\ Begin
              /\ UNCHANGED <<pc, judged, fresh, defers, was, done, docker, bodies, faults>>

(* A read that is lost counts as not ready.                                *)
Recover == /\ phase = "gate"
           /\ \/ ~Ready(src, base) /\ src' = Recovered(src, base) /\ phase' = "ready"
                 /\ Well /\ UNCHANGED <<body, verdict>>
              \/ Lost("gate", "") /\ src' = Recovered(src, base) /\ phase' = "ready"
                 /\ UNCHANGED <<body, verdict>>
              \/ ~Ready(src, base) /\ Lost("gate", "") /\ src' \in RecoverFailed(src, base) /\ BlockedAtGate
           /\ UNCHANGED <<pc, judged, fresh, defers, found, was, done, base, docker, bodies>>

(* Asked several times; all of them may be lost.  A process that took its  *)
(* copy of an appliance with an edit on it is not ready with the image's.  *)
SecondReady == /\ phase = "ready"
               /\ \/ Ready(src, base) /\ Begin /\ UNCHANGED faults
                  \/ /\ ~Ready(src, base) /\ Note("gate", "") /\ UNCHANGED faults
                     /\ BlockedAtGate /\ UNCHANGED <<src, base, found>>
                  \/ Lost("gate", "") /\ BlockedAtGate /\ UNCHANGED <<src, base, found>>
               /\ UNCHANGED <<pc, judged, fresh, defers, was, done, docker, bodies>>

(* labctl dies: nothing more is unwound, and the baseline is forgotten.    *)
Killed == /\ phase \in {"body", "return", "unwind"}
          /\ Lost("kill", "")
          /\ phase' = "over" /\ pc' = 0 /\ verdict' = "none" /\ defers' = <<>>
          /\ base' = NoBaseline
          /\ Alone /\ UNCHANGED <<body, judged, fresh, src, was, done, docker>>

MoreBodies == phase = "over" /\ bodies < MaxBodies /\ body # Order[Len(Order)]

(* Each shape is a process of its own, which begins with no container of   *)
(* the cell; within one, names of another scenario matter on main only.    *)
NextBody(p) ==
  /\ MoreBodies
  /\ \E i \in DOMAIN Order : Order[i] = body /\ body' = Order[i + 1]
  /\ bodies' = bodies + 1
  /\ phase' = "gate" /\ pc' = 1 /\ verdict' = "none" /\ judged' = "none" /\ fresh' = FALSE
  /\ defers' = <<>> /\ failed' = {} /\ done' = {} /\ listed' = {} /\ starting' = {} /\ nets' = {}
  /\ was' = [x \in Edits |-> Nothing]
  /\ base' = IF p = "new" THEN NoBaseline ELSE base
  /\ on' = [c \in Boxes |-> IF c = "old" /\ p = "same" /\ ~Free(Main) THEN {Main} ELSE {}]
  /\ main' = "up"
  /\ UNCHANGED <<found, src, plugin, faults>>

(* The catalog, or the bound on it, is at its end.                         *)
NoMore == phase = "over" /\ ~MoreBodies /\ UNCHANGED vars

Init ==
  /\ \E k \in CellKinds : src = Stock(k)
  /\ body \in {Order[i] : i \in DOMAIN Order}
  /\ pc = 1 /\ phase = "gate" /\ verdict = "none" /\ judged = "none" /\ fresh = FALSE
  /\ defers = <<>> /\ failed = {} /\ found = [src |-> src, plugin |-> "configured"]
  /\ was = [x \in Edits |-> Nothing] /\ done = {} /\ base = NoBaseline
  /\ on = [c \in Boxes |-> {}] /\ starting = {} /\ listed = {} /\ nets = {} /\ main = "up"
  /\ plugin = "configured"
  /\ bodies = 1 /\ faults = 0

BodyStep == \/ Asked \/ Looked \/ Judged \/ Settled \/ OnlyEnds \/ InSomeCells \/ Deferred \/ Enter \/ Return \/ Answer
            \/ StartBox \/ TryBox \/ GoBox \/ AwaitBox \/ AddLink \/ AttachBox \/ RemoveBox \/ ListBox
            \/ CreateNet \/ TryCreateNet \/ DropNet \/ SwapMain
            \/ ChangeMade \/ ChangeFailed \/ UndoNow \/ Disturb \/ Reserve

Unwind == \/ PopBox \/ PopNet \/ PopListed \/ PopMain \/ PopQuiet \/ PopTold \/ PopJoin \/ PopReady
          \/ PopMark \/ Over

Gate == FirstReady \/ Recover \/ SecondReady

Next == Gate \/ BodyStep \/ Unwind \/ (\E c \in Boxes : Landed(c)) \/ Killed \/ NoMore \/ \E p \in {"same", "new"} : NextBody(p)

Spec == Init /\ [][Next]_vars

-----------------------------------------------------------------------------
Verdicts == {"PASS", "FAIL", "BLOCKED", "N/A"}
Cleanups == [op : {"rm", "down", "listed", "told", "quiet", "join", "ready", "mark"},
             x : Boxes \cup Nets \cup Changes \cup {Main, ""}]

(* Every variable keeps its shape.                                         *)
TypeOK ==
  /\ body \in DOMAIN Programs /\ pc \in Nat
  /\ phase \in {"gate", "ready", "body", "return", "unwind", "over"}
  /\ verdict \in Verdicts \cup {"none"} /\ judged \in Verdicts \cup {"none"} /\ fresh \in BOOLEAN
  /\ defers \in Seq(Cleanups)
  /\ src \in Sources /\ was \in [Edits -> Captures] /\ done \subseteq Changes
  /\ found \in [src : Sources, plugin : {"configured", "previous"}] /\ found.src.kind = src.kind
  /\ base \in [taken : BOOLEAN, disk : [Files -> Contents], addr : SUBSET Moving]
  /\ on \in [Boxes -> SUBSET (Nets \cup {Main, "none"})]
  /\ starting \subseteq Boxes /\ listed \subseteq Boxes /\ nets \subseteq Nets
  /\ main \in {"up", "gone", "other"} /\ plugin \in {"configured", "previous"}
  /\ bodies \in Nat /\ faults \in Nat

WasKilled == <<"kill", "">> \in failed
Ended == phase = "over" /\ ~WasKilled /\ <<"gate", "">> \notin failed

(* Some step about one of these answered an error.                         *)
Troubled(xs) == \E f \in failed : f[2] \in xs

(* The changes that restart or stop the unit of a file.                    *)
Touching(f) == {x \in Changes : \E g \in Stopped(src.kind, x) : f \in Unit(src.kind, g)}
  \cup {x \in Edits : IsEdit(src.kind, x) /\ \E g \in HomeFiles(src.kind, x) : f \in Unit(src.kind, g)}

EditsOf(f) == {x \in Edits : IsEdit(src.kind, x) /\ f \in HomeFiles(src.kind, x)}

(* An appliance that was found with an edit of an earlier process: its     *)
(* features are removed by name, its imports are the image's.              *)
FoundEdited == Appliance(src.kind) /\ \E f \in Files : found.src.disk[f] # {}

Plain(c) == c \ {Reservation}

AsFound(f) ==
  /\ IF FoundEdited THEN src.disk[f] \subseteq found.src.disk[f]
     ELSE Plain(src.disk[f]) = Plain(found.src.disk[f])
  /\ Plain(src.serves[f]) \in {Plain(found.src.serves[f]), Plain(src.disk[f])}

(* Whatever way a body ends, the source is as the body found it, in every  *)
(* part no command about which answered an error: the edits of a file are  *)
(* put back in the order that ends on the first bytes, an actor is gone, a *)
(* stopped unit runs again, a moved address is back.  A body in which      *)
(* nothing answered an error leaves a source the next one's gate accepts   *)
(* at once, reservations in a compared file included.                      *)
SourceAsFound ==
  Ended =>
    /\ \A f \in Files : AsFound(f) \/ Troubled(EditsOf(f) \cup {"source"})
    /\ src.addr # found.src.addr => Troubled(Moving)
    /\ \A a \in Actors : a \in src.actors => a \in found.src.actors \/ Troubled({a})
    /\ \A f \in found.src.up \ src.up : Troubled(Touching(f) \cup {"source"})
    /\ failed = {} /\ ~FoundEdited => Ready(src, base)

(* The body names the container for its cleanup after it starts it.        *)
ListedLate(c) == \E i, j \in DOMAIN Prog :
  i < j /\ Prog[i].op \in {"start", "link"} /\ Prog[i].x = c /\ Prog[j].op = "list" /\ Prog[j].x = c

(* Whatever way a body ends, a container it leaves is one whose removal or *)
(* whose late-listed start answered an error; a network it leaves is one   *)
(* that such a container holds or whose removal was lost; the shape's own  *)
(* network is as it was, a body that passes leaves the tag it found, and   *)
(* no docker run is still on its way.                                      *)
CellAsFound ==
  Ended =>
    /\ \A c \in Boxes \ {"old"} : on[c] # {} =>
         <<"rm", c>> \in failed \/ (<<"start", c>> \in failed /\ ListedLate(c))
    /\ \A n \in nets : <<"down", n>> \in failed \/ ~Free(n) \/ body \in LeavesItsNetwork
    /\ main # "up" => <<"told", Main>> \in failed
    /\ plugin = "previous" => found.plugin = "previous" \/ verdict # "PASS"
    /\ starting = {}

(* A body passes on something it read after the last thing that was done   *)
(* to its containers, the source, the plugin or the host.                  *)
PassIsMeasured ==
  phase = "body" /\ pc \notin DOMAIN Prog /\ judged \in {"none", "PASS"} => fresh

(* A body of groups D and F never passes once its restore has failed.      *)
ToldRestores ==
  phase = "over" /\ verdict = "PASS" => \A f \in failed : f[1] \notin {"told", "ready"}

(* docker run under a loss of every reply answers once the loss is lifted; *)
(* whatever way the body ends, nothing waits for it before the lift has    *)
(* been tried.                                                             *)
LiftBeforeWait ==
  (Next1("join") \/ At("await")) /\ starting # {} => "netem" \notin src.actors \/ Troubled({"netem"})

(* readiness.go: Ready holds the files to the baseline, "so a lost SetRA   *)
(* or feature restore fails the next scenario's Ready and not its          *)
(* verdict".  A scenario that begins in the same process finds daemons     *)
(* that serve what Ready compared.                                         *)
Begins == phase \in {"gate", "ready"} /\ phase' = "body"

LostRestoreFailsReady ==
  [][Begins /\ base.taken =>
       \A f \in Files : \A x \in {"ra", "ra-second"} \cup Features :
         x \in src.serves[f] <=> x \in src.disk[f]]_vars
=============================================================================
