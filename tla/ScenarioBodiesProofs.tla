---- MODULE ScenarioBodiesProofs ----
(***************************************************************************)
(* Proofs about ScenarioBodies, for any programs, catalog, sources and     *)
(* bounds: the shape of its variables, what passing a place of a body      *)
(* means, what a pass rests on, and what a body leaves on the docker host. *)
(***************************************************************************)
EXTENDS ScenarioBodies, SourceStateProofs

ToldOps == {"told", "ready"}

(* A restore whose error counts has failed in this body.                   *)
RestoreFailed == \E f \in failed : f[1] \in ToldOps

(* Such a failure is noted only while the stack unwinds behind an answer,  *)
(* and it has taken the answer's place; ToldRestores alone says nothing of *)
(* the cleanups that are still to run.                                     *)
AnswerGivenUp == RestoreFailed => phase \in {"unwind", "over"} /\ verdict # "PASS"

(* A step that notes no restore keeps what has been noted.                 *)
LEMMA NotedElsewhere ==
  ASSUME NEW op, NEW x, op \notin ToldOps, ~RestoreFailed,
         failed' = failed \/ failed' = failed \cup {<<op, x>>}
  PROVE  ~RestoreFailed'
<1>1. <<op, x>>[1] = op
  OBVIOUS
<1> QED
  BY <1>1 DEF RestoreFailed

(* In a body and in front of it nothing of the kind has been noted.        *)
LEMMA BodyKeeps ==
  ASSUME AnswerGivenUp, BodyStep
  PROVE  AnswerGivenUp'
<1>1. phase = "body"
  BY DEF BodyStep, At, Asked, Looked, Judged, Settled, OnlyEnds, InSomeCells, Deferred, Enter, Return, Answer,
         StartBox, TryBox, GoBox, AwaitBox, AddLink, AttachBox, RemoveBox, ListBox,
         CreateNet, TryCreateNet, DropNet, SwapMain, ChangeMade, ChangeFailed, UndoNow, Disturb, Reserve
<1>2. ~RestoreFailed
  BY <1>1 DEF AnswerGivenUp
<1>3. CASE UNCHANGED failed
  BY <1>2, <1>3 DEF AnswerGivenUp, RestoreFailed
<1>4. CASE \E op \in {"start", "rm", "down", "set", "undo", "do", "reserve"} : \E x : failed' = failed \cup {<<op, x>>}
  <2>0. PICK op \in {"start", "rm", "down", "set", "undo", "do", "reserve"} : \E x : failed' = failed \cup {<<op, x>>}
    BY <1>4
  <2>1. PICK x : failed' = failed \cup {<<op, x>>}
    BY <2>0
  <2>2. op \notin ToldOps
    BY DEF ToldOps
  <2> QED
    BY <1>2, <2>1, <2>2, NotedElsewhere DEF AnswerGivenUp
<1>5. CASE Asked \/ Looked \/ Judged \/ Settled \/ OnlyEnds \/ InSomeCells \/ Deferred \/ Enter \/ Return \/ Answer
           \/ TryBox \/ GoBox \/ AwaitBox \/ AttachBox \/ ListBox \/ CreateNet \/ TryCreateNet \/ ChangeMade
  BY <1>3, <1>5 DEF Asked, Looked, Judged, Settled, OnlyEnds, InSomeCells, Deferred, Enter, Return, Answer,
         TryBox, GoBox, AwaitBox, AttachBox, ListBox, CreateNet, TryCreateNet, ChangeMade, Well
<1>6. CASE StartBox \/ AddLink
  BY <1>3, <1>4, <1>6 DEF StartBox, AddLink, Note
<1>7. CASE RemoveBox \/ DropNet \/ SwapMain
  BY <1>3, <1>4, <1>7 DEF RemoveBox, DropNet, NetRemoved, SwapMain, Lost, Note, Well
<1>8. CASE ChangeFailed \/ UndoNow \/ Disturb \/ Reserve
  BY <1>3, <1>4, <1>8 DEF ChangeFailed, UndoNow, Disturb, Reserve, Lost, Note, Well
<1> QED
  BY <1>5, <1>6, <1>7, <1>8 DEF BodyStep

(* A cleanup that notes a lost restore answers BLOCKED; the others leave   *)
(* the answer as it is.                                                    *)
LEMMA UnwindKeeps ==
  ASSUME AnswerGivenUp, Unwind
  PROVE  AnswerGivenUp'
<1>1. CASE PopBox \/ PopNet \/ PopListed
  <2>1. phase' = phase /\ verdict' = verdict
    BY <1>1 DEF PopBox, PopNet, PopListed, Popped
  <2>2. failed' = failed \/ \E op \in {"rm", "down"} : \E x : failed' = failed \cup {<<op, x>>}
    BY <1>1 DEF PopBox, PopNet, PopListed, NetRemoved, Lost, Note, Well
  <2>3. ASSUME ~RestoreFailed PROVE ~RestoreFailed'
    <3>1. CASE failed' = failed
      BY <2>3, <3>1 DEF RestoreFailed
    <3>2. CASE \E op \in {"rm", "down"} : \E x : failed' = failed \cup {<<op, x>>}
      <4>0. PICK op \in {"rm", "down"} : \E x : failed' = failed \cup {<<op, x>>}
        BY <3>2
      <4>1. PICK x : failed' = failed \cup {<<op, x>>}
        BY <4>0
      <4>2. op \notin ToldOps
        BY DEF ToldOps
      <4> QED
        BY <2>3, <4>1, <4>2, NotedElsewhere
    <3> QED
      BY <2>2, <3>1, <3>2
  <2> QED
    BY <2>1, <2>3 DEF AnswerGivenUp
<1>2. CASE PopMain \/ PopTold \/ PopReady
  <2>1. phase = "unwind" /\ phase' = "unwind"
    BY <1>2 DEF PopMain, PopTold, PopReady, PopRestore, Popped
  <2>2. \/ UNCHANGED failed /\ (UNCHANGED verdict \/ verdict' = "BLOCKED")
        \/ verdict' = "BLOCKED"
    BY <1>2 DEF PopMain, PopTold, PopReady, PopRestore, Lost, Note, Well
  <2> QED
    BY <2>1, <2>2 DEF AnswerGivenUp, RestoreFailed
<1>3. CASE PopQuiet
  <2>1. phase' = phase /\ verdict' = verdict
    BY <1>3 DEF PopQuiet, PopRestore, Popped
  <2>2. failed' = failed \/ \E x : failed' = failed \cup {<<"quiet", x>>}
    BY <1>3 DEF PopQuiet, PopRestore, Lost, Note, Well
  <2>3. ASSUME ~RestoreFailed PROVE ~RestoreFailed'
    <3>1. CASE failed' = failed
      BY <2>3, <3>1 DEF RestoreFailed
    <3>2. CASE \E x : failed' = failed \cup {<<"quiet", x>>}
      <4>1. PICK x : failed' = failed \cup {<<"quiet", x>>}
        BY <3>2
      <4>2. "quiet" \notin ToldOps
        BY DEF ToldOps
      <4> QED
        BY <2>3, <4>1, <4>2, NotedElsewhere
    <3> QED
      BY <2>2, <3>1, <3>2
  <2> QED
    BY <2>1, <2>3 DEF AnswerGivenUp
<1>4. CASE PopJoin \/ PopMark \/ Over
  <2>1. UNCHANGED <<failed, verdict>> /\ (phase = "unwind" => phase' \in {"unwind", "over"})
    BY <1>4 DEF PopJoin, PopMark, Over, Popped, Well
  <2>2. phase # "over"
    BY <1>4 DEF PopJoin, PopMark, Over, Next1, Unwinding
  <2> QED
    BY <2>1, <2>2 DEF AnswerGivenUp, RestoreFailed
<1> QED
  BY <1>1, <1>2, <1>3, <1>4 DEF Unwind

(* The gate notes its own failures, a kill its own, and a scenario starts  *)
(* with nothing noted.                                                     *)
LEMMA OutsideKeeps ==
  ASSUME AnswerGivenUp,
         Gate \/ (\E c \in Boxes : Landed(c)) \/ Killed \/ NoMore \/ \E p \in {"same", "new"} : NextBody(p)
  PROVE  AnswerGivenUp'
<1>1. CASE FirstReady
  BY <1>1 DEF FirstReady, Begin, AnswerGivenUp, RestoreFailed
<1>2. CASE Recover \/ SecondReady
  <2>1. ~RestoreFailed
    BY <1>2 DEF Recover, SecondReady, AnswerGivenUp
  <2>2. failed' = failed \/ failed' = {} \/ failed' = failed \cup {<<"gate", "">>}
    BY <1>2 DEF Recover, SecondReady, Begin, Lost, Note, Well
  <2>3. "gate" \notin ToldOps
    BY DEF ToldOps
  <2>4. CASE failed' = failed \/ failed' = {}
    BY <2>1, <2>4 DEF RestoreFailed, AnswerGivenUp
  <2>5. CASE failed' = failed \cup {<<"gate", "">>}
    BY <2>1, <2>3, <2>5, NotedElsewhere DEF AnswerGivenUp
  <2> QED
    BY <2>2, <2>4, <2>5
<1>3. CASE \E c \in Boxes : Landed(c)
  BY <1>3 DEF Landed, Well, AnswerGivenUp, RestoreFailed
<1>4. CASE Killed
  BY <1>4 DEF Killed, AnswerGivenUp
<1>5. CASE NoMore
  BY <1>5 DEF NoMore, vars, progress, AnswerGivenUp, RestoreFailed
<1>6. CASE \E p \in {"same", "new"} : NextBody(p)
  BY <1>6 DEF NextBody, AnswerGivenUp, RestoreFailed
<1> QED
  BY <1>1, <1>2, <1>3, <1>4, <1>5, <1>6 DEF Gate

(* A body of groups D and F never passes once its restore has failed       *)
(* (fRestoreInto, fReadyInto), whatever the bodies are.                    *)
THEOREM ToldRestoresHolds == Spec => []ToldRestores
<1>1. Init => AnswerGivenUp
  BY DEF Init, AnswerGivenUp, RestoreFailed
<1>2. AnswerGivenUp /\ [Next]_vars => AnswerGivenUp'
  <2> SUFFICES ASSUME AnswerGivenUp, [Next]_vars PROVE AnswerGivenUp'
    OBVIOUS
  <2>1. CASE UNCHANGED vars
    BY <2>1 DEF vars, progress, AnswerGivenUp, RestoreFailed
  <2> QED
    BY <2>1, BodyKeeps, UnwindKeeps, OutsideKeeps DEF Next
<1>3. AnswerGivenUp => ToldRestores
  BY DEF AnswerGivenUp, ToldRestores, RestoreFailed, ToldOps
<1> QED
  BY <1>1, <1>2, <1>3, PTL DEF Spec


-----------------------------------------------------------------------------
(* The shape of every variable.                                            *)

(* What a step names, by its operation.                                    *)
LEMMA StepTypes ==
  ASSUME NEW s \in Steps
  PROVE  /\ s.ends \subseteq {"FAIL", "BLOCKED", "N/A"} /\ s.skip \in Nat
         /\ s.op \in {"start", "try", "attach"} => s.x \in Boxes /\ s.y \in Nets \cup {Main}
         /\ s.op \in {"go", "await", "link", "remove", "list", "unlist"} => s.x \in Boxes
         /\ s.op \in {"create", "trynet", "drop"} => s.x \in Nets
         /\ s.op = "change" => s.x \in Changes /\ s.y \in {"quiet", "told"}
         /\ s.op = "undo" => s.x \in Changes
         /\ s.op = "reserve" => s.x \in {"mac", "id"}
         /\ s.op = "later" => [op |-> s.y, x |-> s.x] \in Cleanups /\ (s.x \in Changes => s.x \in Actors)
<1>1. s.ends \subseteq {"FAIL", "BLOCKED", "N/A"} /\ s.skip \in Nat
  BY DEF Steps, Of
<1>2. s.op \in {"start", "try", "attach"} => s.x \in Boxes /\ s.y \in Nets \cup {Main}
  BY DEF Steps, Of
<1>3. s.op \in {"go", "await", "link", "remove", "list", "unlist"} => s.x \in Boxes
  BY DEF Steps, Of
<1>4. s.op \in {"create", "trynet", "drop"} => s.x \in Nets
  BY DEF Steps, Of
<1>5. s.op = "change" => s.x \in Changes /\ s.y \in {"quiet", "told"}
  BY DEF Steps, Of
<1>6. s.op = "undo" => s.x \in Changes
  BY DEF Steps, Of
<1>7. s.op = "reserve" => s.x \in {"mac", "id"}
  BY DEF Steps, Of
<1>8. s.op = "later" => [op |-> s.y, x |-> s.x] \in Cleanups
  BY DEF Steps, Of, Cleanups, Changes
<1>9. s.op = "later" => \/ s.x \in Boxes \/ s.x \in Nets \/ s.x = "" \/ s.x \in Actors \/ s.x = Main
  BY DEF Steps, Of
<1>10. \A x : x \in Boxes \/ x \in Nets \/ x = "" \/ x = Main => x \notin Changes
  BY DEF Boxes, Nets, Main, Changes, Edits, Features, Features4, Features6, Adverts, Actors, Stops
<1> QED
  BY <1>1, <1>2, <1>3, <1>4, <1>5, <1>6, <1>7, <1>8, <1>9, <1>10

Failing == {"FAIL", "BLOCKED", "N/A"}

LEMMA CurIs ==
  ASSUME TypeOK, phase = "body", pc \in DOMAIN Prog
  PROVE  Cur \in Steps
BY ProgramsAssumption DEF TypeOK, Prog, Cur

(* Where a step of a body leads: on, past what only some cells do, out of  *)
(* an inner function, or to an answer.                                     *)
Onward == pc \in DOMAIN Prog /\ phase' = "body" /\ verdict' = verdict
          /\ (pc' = pc + 1 \/ (Cur.op = "maybe" /\ pc' = pc + 1 + Cur.skip))
Out == pc \in DOMAIN Prog /\ Cur.op = "return" /\ phase' = "return" /\ UNCHANGED <<pc, verdict>>
Ending == phase' = "unwind" /\ pc' = 0 /\ (verdict' \in Failing \/ Answer)

LEMMA ProceedOrEnd ==
  ASSUME TypeOK, phase = "body", pc \in DOMAIN Prog
  PROVE  /\ Proceed => Onward /\ body' = body
         /\ End => Ending /\ body' = body
         /\ EndOrProceed => (Onward \/ Ending) /\ body' = body
<1>1. Cur.ends \subseteq Failing
  BY CurIs, StepTypes DEF Failing
<1>2. Proceed => Onward /\ body' = body
  BY DEF Proceed, Onward
<1>3. End => Ending /\ body' = body
  BY <1>1 DEF End, Ending
<1> QED
  BY <1>2, <1>3 DEF EndOrProceed

LEMMA BodyMoves ==
  ASSUME TypeOK, BodyStep
  PROVE  phase = "body" /\ body' = body /\ (Onward \/ Out \/ Ending)
<1>1. CASE Asked \/ Looked \/ Judged \/ OnlyEnds \/ Deferred \/ Enter
  <2>1. phase = "body" /\ pc \in DOMAIN Prog /\ (Proceed \/ End)
    BY <1>1 DEF Asked, Looked, Judged, OnlyEnds, Deferred, Enter, At
  <2> QED
    BY <2>1, ProceedOrEnd
<1>2. CASE Settled
  <2>1. phase = "body" /\ pc \in DOMAIN Prog /\ (Proceed \/ (phase' = "unwind" /\ pc' = 0 /\ body' = body /\ verdict' \in Failing))
    BY <1>2 DEF Settled, At, TypeOK, Verdicts, Failing
  <2> QED
    BY <2>1, ProceedOrEnd DEF Ending
<1>3. CASE InSomeCells
  BY <1>3 DEF InSomeCells, At, Onward, Cur
<1>4. CASE Return
  BY <1>4 DEF Return, At, Out, Cur
<1>5. CASE Answer
  BY <1>5 DEF Answer, Ending
<1>6. CASE StartBox \/ TryBox \/ GoBox \/ AwaitBox \/ AddLink \/ AttachBox \/ RemoveBox \/ ListBox
  <2>1. phase = "body" /\ pc \in DOMAIN Prog /\ (Proceed \/ End \/ EndOrProceed)
    BY <1>6 DEF StartBox, TryBox, GoBox, AwaitBox, AddLink, AttachBox, RemoveBox, ListBox, At
  <2> QED
    BY <2>1, ProceedOrEnd
<1>7. CASE CreateNet \/ TryCreateNet \/ DropNet \/ SwapMain \/ ChangeMade \/ ChangeFailed \/ UndoNow \/ Disturb \/ Reserve
  <2>1. phase = "body" /\ pc \in DOMAIN Prog /\ (Proceed \/ End)
    BY <1>7 DEF CreateNet, TryCreateNet, DropNet, SwapMain, ChangeMade, ChangeFailed, UndoNow, Disturb, Reserve, At
  <2> QED
    BY <2>1, ProceedOrEnd
<1> QED
  BY <1>1, <1>2, <1>3, <1>4, <1>5, <1>6, <1>7 DEF BodyStep

(* Each operation has one action.                                          *)
LEMMA StepIs ==
  ASSUME BodyStep
  PROVE  /\ (At("ask") => Asked) /\ (At("look") => Looked) /\ (At("judge") => Judged) /\ (At("settle") => Settled)
         /\ (At("only") => OnlyEnds) /\ (At("maybe") => InSomeCells) /\ (At("later") => Deferred)
         /\ (At("enter") => Enter) /\ (At("return") => Return)
         /\ (At("start") => StartBox) /\ (At("try") => TryBox) /\ (At("go") => GoBox) /\ (At("await") => AwaitBox)
         /\ (At("link") => AddLink) /\ (At("attach") => AttachBox) /\ (At("remove") => RemoveBox)
         /\ (At("list") \/ At("unlist") => ListBox)
         /\ (At("create") => CreateNet) /\ (At("trynet") => TryCreateNet) /\ (At("drop") => DropNet)
         /\ (At("swap") => SwapMain)
         /\ (At("change") => ChangeMade \/ ChangeFailed) /\ (At("undo") => UndoNow) /\ (At("do") => Disturb)
         /\ (At("reserve") => Reserve)
         /\ (pc \notin DOMAIN Prog => Answer)
<1>1. /\ (Asked => At("ask")) /\ (Looked => At("look")) /\ (Judged => At("judge")) /\ (Settled => At("settle"))
      /\ (OnlyEnds => At("only")) /\ (InSomeCells => At("maybe")) /\ (Deferred => At("later"))
      /\ (Enter => At("enter")) /\ (Return => At("return")) /\ (Answer => pc \notin DOMAIN Prog)
  BY DEF Asked, Looked, Judged, Settled, OnlyEnds, InSomeCells, Deferred, Enter, Return, Answer
<1>2. /\ (StartBox => At("start")) /\ (TryBox => At("try")) /\ (GoBox => At("go")) /\ (AwaitBox => At("await"))
      /\ (AddLink => At("link")) /\ (AttachBox => At("attach")) /\ (RemoveBox => At("remove"))
      /\ (ListBox => At("list") \/ At("unlist"))
  BY DEF StartBox, TryBox, GoBox, AwaitBox, AddLink, AttachBox, RemoveBox, ListBox
<1>3. /\ (CreateNet => At("create")) /\ (TryCreateNet => At("trynet")) /\ (DropNet => At("drop")) /\ (SwapMain => At("swap"))
  BY DEF CreateNet, TryCreateNet, DropNet, SwapMain
<1>4. /\ (ChangeMade => At("change")) /\ (ChangeFailed => At("change")) /\ (UndoNow => At("undo"))
      /\ (Disturb => At("do")) /\ (Reserve => At("reserve"))
  BY DEF ChangeMade, ChangeFailed, UndoNow, Disturb, Reserve
<1>5. \A op, other : At(op) /\ At(other) => op = other
  BY DEF At
<1>6. \A op : At(op) => pc \in DOMAIN Prog
  BY DEF At
<1>7. CASE Asked \/ Looked \/ Judged \/ Settled \/ OnlyEnds \/ InSomeCells \/ Deferred \/ Enter \/ Return \/ Answer
  BY <1>1, <1>5, <1>6, <1>7
<1>8. CASE StartBox \/ TryBox \/ GoBox \/ AwaitBox \/ AddLink \/ AttachBox \/ RemoveBox \/ ListBox
  BY <1>2, <1>5, <1>6, <1>8
<1>9. CASE CreateNet \/ TryCreateNet \/ DropNet \/ SwapMain
  BY <1>3, <1>5, <1>6, <1>9
<1>10. CASE ChangeMade \/ ChangeFailed \/ UndoNow \/ Disturb \/ Reserve
  BY <1>4, <1>5, <1>6, <1>10
<1> QED
  BY <1>7, <1>8, <1>9, <1>10 DEF BodyStep

(* What each operation leaves alone.                                       *)
LEMMA BodyFrame ==
  ASSUME BodyStep
  PROVE  /\ found' = found /\ bodies' = bodies
         /\ on' = on \/ At("start") \/ At("try") \/ At("link") \/ At("attach") \/ At("remove")
         /\ starting' = starting \/ At("go")
         /\ listed' = listed \/ At("list") \/ At("unlist")
         /\ nets' = nets \/ At("create") \/ At("trynet") \/ At("drop")
         /\ main' = main \/ At("swap")
         /\ plugin' = plugin \/ At("do")
         /\ src' = src \/ At("change") \/ At("undo") \/ At("do") \/ At("reserve")
         /\ was' = was \/ At("change")
         /\ done' = done \/ At("change") \/ At("undo")
         /\ base' = base \/ At("reserve")
<1>1. CASE Asked \/ Looked \/ Judged \/ Settled \/ OnlyEnds \/ InSomeCells \/ Deferred \/ Enter \/ Return \/ Answer \/ AwaitBox
  BY <1>1 DEF Asked, Looked, Judged, Settled, OnlyEnds, InSomeCells, Deferred, Enter, Return, Answer, AwaitBox,
              Alone, source, docker
<1>2. CASE StartBox \/ TryBox \/ GoBox \/ AddLink \/ AttachBox \/ RemoveBox \/ ListBox
  BY <1>2 DEF StartBox, TryBox, GoBox, AddLink, AttachBox, RemoveBox, ListBox, Alone, source
<1>3. CASE CreateNet \/ TryCreateNet \/ DropNet \/ SwapMain
  BY <1>3 DEF CreateNet, TryCreateNet, DropNet, SwapMain, Alone, source
<1>4. CASE ChangeMade \/ ChangeFailed \/ UndoNow \/ Disturb \/ Reserve
  BY <1>4 DEF ChangeMade, ChangeFailed, UndoNow, Disturb, Reserve, Alone, docker
<1> QED
  BY <1>1, <1>2, <1>3, <1>4 DEF BodyStep

(* What a body pushes on its cleanup stack.                                *)
LEMMA BodyPushes ==
  ASSUME BodyStep
  PROVE  \/ /\ defers' = defers /\ ~At("later") /\ ~At("enter")
            /\ At("change") => ~ChangeMade
         \/ defers' = Append(defers, [op |-> Cur.y, x |-> Cur.x]) /\ (At("later") \/ At("change"))
         \/ defers' = Append(defers, [op |-> "mark", x |-> ""]) /\ At("enter")
<1>0. \A op, other : At(op) /\ At(other) => op = other
  BY DEF At
<1>1. CASE Deferred \/ Enter \/ ChangeMade \/ ChangeFailed
  BY <1>0, <1>1 DEF Deferred, Enter, ChangeMade, ChangeFailed, Push
<1>2. CASE Asked \/ Looked \/ Judged \/ Settled \/ OnlyEnds \/ InSomeCells \/ Return \/ AwaitBox
  BY <1>0, <1>2 DEF Asked, Looked, Judged, Settled, OnlyEnds, InSomeCells, Return, AwaitBox
<1>3. CASE Answer
  BY <1>3 DEF Answer, At
<1>4. CASE StartBox \/ TryBox \/ GoBox \/ AddLink \/ AttachBox \/ RemoveBox \/ ListBox
  BY <1>0, <1>4 DEF StartBox, TryBox, GoBox, AddLink, AttachBox, RemoveBox, ListBox
<1>5. CASE CreateNet \/ TryCreateNet \/ DropNet \/ SwapMain
  BY <1>0, <1>5 DEF CreateNet, TryCreateNet, DropNet, SwapMain
<1>6. CASE UndoNow \/ Disturb \/ Reserve
  BY <1>0, <1>6 DEF UndoNow, Disturb, Reserve
<1> QED
  BY <1>1, <1>2, <1>3, <1>4, <1>5, <1>6 DEF BodyStep

(* TypeOK by groups of variables, with what an edit's setter kept of the   *)
(* addresses.                                                              *)
ControlOK ==
  /\ body \in DOMAIN Programs /\ pc \in Nat
  /\ phase \in {"gate", "ready", "body", "return", "unwind", "over"}
  /\ verdict \in Verdicts \cup {"none"}
  /\ defers \in Seq(Cleanups)
MindOK == judged \in Verdicts \cup {"none"} /\ fresh \in BOOLEAN
SourceOK ==
  /\ src \in Sources /\ was \in [Edits -> Captures] /\ done \subseteq Changes
  /\ found \in [src : Sources, plugin : {"configured", "previous"}] /\ found.src.kind = src.kind
  /\ base \in Copies
DockerOK ==
  /\ on \in [Boxes -> SUBSET (Nets \cup {Main, "none"})]
  /\ starting \subseteq Boxes /\ listed \subseteq Boxes /\ nets \subseteq Nets
  /\ main \in {"up", "gone", "other"} /\ plugin \in {"configured", "previous"}
BoundsOK == bodies \in Nat /\ faults \in Nat
AddressesOK == \A x \in Edits : was[x].addr \subseteq {x}

Shape == TypeOK /\ AddressesOK

LEMMA Shapes == TypeOK <=> ControlOK /\ MindOK /\ SourceOK /\ DockerOK /\ BoundsOK
BY DEF TypeOK, ControlOK, MindOK, SourceOK, DockerOK, BoundsOK, Copies

LEMMA PushedIs ==
  ASSUME TypeOK
  PROVE  /\ [op |-> "mark", x |-> ""] \in Cleanups
         /\ At("later") \/ At("change") => [op |-> Cur.y, x |-> Cur.x] \in Cleanups
<1>1. [op |-> "mark", x |-> ""] \in Cleanups
  BY DEF Cleanups
<1>2. ASSUME At("later") \/ At("change") PROVE [op |-> Cur.y, x |-> Cur.x] \in Cleanups
  <2>1. phase = "body" /\ pc \in DOMAIN Prog /\ Cur.op \in {"later", "change"}
    BY <1>2 DEF At, Cur
  <2>2. Cur.op = "later" => [op |-> Cur.y, x |-> Cur.x] \in Cleanups
    BY <2>1, CurIs, StepTypes
  <2>3. Cur.op = "change" => [op |-> Cur.y, x |-> Cur.x] \in Cleanups
    BY <2>1, CurIs, StepTypes DEF Cleanups
  <2> QED
    BY <2>1, <2>2, <2>3
<1> QED
  BY <1>1, <1>2

(* The stack with one cleanup more.                                        *)
LEMMA AppendIs ==
  ASSUME NEW s \in Seq(Cleanups), NEW D \in Cleanups
  PROVE  /\ Len(Append(s, D)) = Len(s) + 1 /\ Append(s, D)[Len(s) + 1] = D
         /\ DOMAIN s = 1..Len(s) /\ DOMAIN Append(s, D) = 1..(Len(s) + 1) /\ Len(s) \in Nat
         /\ \A e \in DOMAIN s : Append(s, D)[e] = s[e]
OBVIOUS

LEMMA BodyControl ==
  ASSUME TypeOK, BodyStep
  PROVE  ControlOK'
<1>1. ControlOK
  BY Shapes
<1>2. phase' \in {"body", "return", "unwind"} /\ pc' \in Nat /\ body' = body
  <2>1. pc + 1 \in Nat /\ (pc \in DOMAIN Prog => pc + 1 + Cur.skip \in Nat)
    <3>1. CASE pc \in DOMAIN Prog /\ phase = "body"
      <4>1. Cur \in Steps
        BY <3>1, CurIs
      <4>2. Cur.skip \in Nat
        BY <4>1, StepTypes
      <4> QED
        BY <1>1, <4>2 DEF ControlOK
    <3>2. CASE pc \notin DOMAIN Prog
      BY <1>1, <3>2 DEF ControlOK
    <3> QED
      BY <3>1, <3>2, BodyMoves
  <2> QED
    BY <1>1, <2>1, BodyMoves DEF Onward, Out, Ending, ControlOK
<1>3. verdict' \in Verdicts \cup {"none"}
  BY <1>1, BodyMoves DEF Onward, Out, Ending, ControlOK, Failing, Verdicts, Answer, TypeOK
<1>4. defers' \in Seq(Cleanups)
  <2>1. [op |-> "mark", x |-> ""] \in Cleanups
    BY PushedIs
  <2>2. ASSUME At("later") \/ At("change") PROVE [op |-> Cur.y, x |-> Cur.x] \in Cleanups
    BY <2>2, PushedIs
  <2>3. defers \in Seq(Cleanups)
    BY <1>1 DEF ControlOK
  <2>4. \A d \in Cleanups : Append(defers, d) \in Seq(Cleanups)
    BY <2>3
  <2> QED
    BY <2>1, <2>2, <2>3, <2>4, BodyPushes
<1> QED
  BY <1>1, <1>2, <1>3, <1>4 DEF ControlOK

LEMMA StaleIs ==
  ASSUME MindOK, Stale \/ Kept
  PROVE  MindOK'
BY DEF MindOK, Stale, Kept, Answered, Verdicts

LEMMA BodyMind ==
  ASSUME TypeOK, BodyStep
  PROVE  MindOK'
<1>1. MindOK
  BY Shapes
<1>2. CASE Asked \/ Settled \/ OnlyEnds \/ AwaitBox \/ Answer
  BY <1>1, <1>2, StaleIs DEF Asked, Settled, OnlyEnds, AwaitBox, Answer
<1>3. CASE Looked
  BY <1>1, <1>3, StaleIs DEF Looked, MindOK
<1>4. CASE Judged
  <2>1. Cur.ends \subseteq Verdicts
    BY <1>4, CurIs, StepTypes DEF Judged, At, Verdicts
  <2> QED
    BY <1>1, <1>4, <2>1 DEF Judged, MindOK, Verdicts
<1>5. CASE InSomeCells \/ Deferred \/ Enter \/ Return \/ ListBox
  BY <1>1, <1>5 DEF InSomeCells, Deferred, Enter, Return, ListBox, MindOK
<1>6. CASE StartBox \/ TryBox \/ GoBox \/ AddLink \/ AttachBox \/ RemoveBox
  BY <1>1, <1>6, StaleIs DEF StartBox, TryBox, GoBox, AddLink, AttachBox, RemoveBox
<1>7. CASE CreateNet \/ TryCreateNet \/ DropNet \/ SwapMain \/ ChangeMade \/ ChangeFailed \/ UndoNow \/ Disturb \/ Reserve
  BY <1>1, <1>7, StaleIs DEF CreateNet, TryCreateNet, DropNet, SwapMain, ChangeMade, ChangeFailed, UndoNow, Disturb, Reserve
<1> QED
  BY <1>2, <1>3, <1>4, <1>5, <1>6, <1>7 DEF BodyStep

(* What a restore puts back is a capture.                                  *)
LEMMA WasIs ==
  ASSUME Shape, NEW x \in Changes
  PROVE  Was(x) \in Captures /\ Was(x).addr \subseteq {x} /\ Nothing \in Captures /\ Nothing.addr \subseteq {x}
<1>1. Nothing \in Captures /\ Nothing.addr \subseteq {x}
  BY DEF Nothing, Captures, Contents
<1> QED
  BY <1>1 DEF Was, Shape, TypeOK, AddressesOK

(* What the steps of a body, and the cleanups, make of the source.         *)
LEMMA ChangedIs ==
  ASSUME Shape, NEW x \in Changes,
         NEW r \in {src, Set(src, x), Restored(src, x, Was(x))} \cup SetFailed(src, x) \cup SetFailedTwice(src, x)
                     \cup RestoreLost(src, x, Was(x))
  PROVE  /\ r = src \/ Touches(src, r, x)
         /\ r \in Sources /\ r.kind = src.kind
<1>1. src \in Sources /\ Was(x) \in Captures /\ Was(x).addr \subseteq {x}
  BY WasIs DEF Shape, TypeOK
<1>2. r = src \/ Touches(src, r, x)
  BY <1>1, ChangeTouches
<1> QED
  BY <1>1, <1>2, TouchedIs

LEMMA BodySource ==
  ASSUME Shape, BodyStep
  PROVE  SourceOK' /\ AddressesOK'
<1>1. SourceOK /\ AddressesOK /\ src \in Sources /\ base \in Copies
  BY Shapes DEF Shape, SourceOK
<1>2. ASSUME src' \in Sources, src'.kind = src.kind, done' \subseteq Changes, base' \in Copies,
             was' \in [Edits -> Captures], \A x \in Edits : was'[x].addr \subseteq {x}, found' = found
      PROVE  SourceOK' /\ AddressesOK'
  BY <1>1, <1>2 DEF SourceOK, AddressesOK
<1>3. found' = found
  BY BodyFrame
<1>4. CASE At("change")
  <2>1. Cur.x \in Changes
    BY <1>4, CurIs, StepTypes DEF At, Cur, Shape
  <2>2. src' \in Sources /\ src'.kind = src.kind
    <3>1. src' \in {src, Set(src, Cur.x)} \cup SetFailed(src, Cur.x) \cup SetFailedTwice(src, Cur.x)
      BY <1>4, StepIs DEF ChangeMade, ChangeFailed
    <3> QED
      BY <2>1, <3>1, ChangedIs
  <2>3. done' \subseteq Changes /\ base' = base
    BY <1>1, <1>4, StepIs DEF ChangeMade, ChangeFailed, SourceOK
  <2>4. was' = was \/ (Cur.x \in Edits /\ was' = [was EXCEPT ![Cur.x] = Captured(src, Cur.x)])
    BY <1>4, StepIs DEF ChangeMade, ChangeFailed, IsEdit
  <2>5. was' \in [Edits -> Captures] /\ \A x \in Edits : was'[x].addr \subseteq {x}
    BY <1>1, <2>4, CapturedIs DEF SourceOK, AddressesOK
  <2> QED
    BY <1>1, <1>2, <1>3, <2>2, <2>3, <2>5
<1>5. CASE At("undo")
  <2>1. Cur.x \in Changes
    BY <1>5, CurIs, StepTypes DEF At, Cur, Shape
  <2>2. src' \in Sources /\ src'.kind = src.kind
    <3>1. src' \in {Restored(src, Cur.x, Was(Cur.x))} \cup RestoreLost(src, Cur.x, Was(Cur.x))
      BY <1>5, StepIs DEF UndoNow
    <3> QED
      BY <2>1, <3>1, ChangedIs
  <2>3. done' \subseteq Changes /\ base' = base /\ was' = was
    BY <1>1, <1>5, <2>1, StepIs DEF UndoNow, SourceOK
  <2> QED
    BY <1>1, <1>2, <1>3, <2>2, <2>3 DEF SourceOK, AddressesOK
<1>6. CASE At("do")
  <2>1. src' \in {src, LeasesReset(src)} \cup ResetFailed(src)
    BY <1>6, StepIs DEF Disturb
  <2>2. src' \in Sources /\ src'.kind = src.kind
    BY <1>1, <2>1, ResetWithin DEF Within
  <2>3. UNCHANGED <<done, base, was>>
    BY <1>6, StepIs DEF Disturb
  <2> QED
    BY <1>1, <1>2, <1>3, <2>2, <2>3 DEF SourceOK, AddressesOK
<1>7. CASE At("reserve")
  <2>1. Cur.x \in {"mac", "id"}
    BY <1>7, CurIs, StepTypes DEF At, Cur, Shape
  <2>2. /\ src' \in {src, Reserved(src, Cur.x)} \cup ReserveFailed(src, Cur.x)
        /\ base' \in {base, Reread(src, base, Cur.x)}
        /\ UNCHANGED <<done, was>>
    BY <1>7, StepIs DEF Reserve
  <2>3. src' \in Sources /\ src'.kind = src.kind
    BY <1>1, <2>1, <2>2, ReserveWithin DEF Within
  <2>4. base' \in Copies
    BY <1>1, <2>1, <2>2, CopyIs
  <2> QED
    BY <1>1, <1>2, <1>3, <2>2, <2>3, <2>4 DEF SourceOK, AddressesOK
<1>8. CASE ~At("change") /\ ~At("undo") /\ ~At("do") /\ ~At("reserve")
  <2>1. UNCHANGED <<src, was, done, base>>
    BY <1>8, BodyFrame
  <2> QED
    BY <1>1, <1>2, <1>3, <2>1 DEF SourceOK, AddressesOK
<1> QED
  BY <1>4, <1>5, <1>6, <1>7, <1>8

(* A container on one network, on none, or on one more.                    *)
LEMMA PlacedIs ==
  ASSUME on \in [Boxes -> SUBSET (Nets \cup {Main, "none"})], NEW c \in Boxes, NEW n \in Nets \cup {Main, "none"},
         on' \in {on, [on EXCEPT ![c] = {}], [on EXCEPT ![c] = {"none"}], [on EXCEPT ![c] = {n}],
                  [on EXCEPT ![c] = @ \cup {n}]}
  PROVE  on' \in [Boxes -> SUBSET (Nets \cup {Main, "none"})]
OBVIOUS

LEMMA BodyDocker ==
  ASSUME TypeOK, BodyStep
  PROVE  DockerOK'
<1>1. DockerOK
  BY Shapes
<1>2. \A op : At(op) => Cur \in Steps /\ Cur.op = op
  BY CurIs DEF At, Cur
<1>3. on' \in [Boxes -> SUBSET (Nets \cup {Main, "none"})]
  <2>1. CASE At("start") \/ At("try") \/ At("attach")
    <3>1. Cur.x \in Boxes /\ Cur.y \in Nets \cup {Main, "none"}
      BY <1>2, <2>1, StepTypes
    <3>2. on' \in {on, [on EXCEPT ![Cur.x] = {}], [on EXCEPT ![Cur.x] = {"none"}], [on EXCEPT ![Cur.x] = {Cur.y}],
                   [on EXCEPT ![Cur.x] = @ \cup {Cur.y}]}
      BY <2>1, StepIs DEF StartBox, TryBox, AttachBox, HalfRun
    <3> QED
      BY <1>1, <3>1, <3>2, PlacedIs DEF DockerOK
  <2>2. CASE At("link") \/ At("remove")
    <3>1. Cur.x \in Boxes
      BY <1>2, <2>2, StepTypes
    <3>2. on' \in {on, [on EXCEPT ![Cur.x] = {}], [on EXCEPT ![Cur.x] = {"none"}]}
      BY <2>2, StepIs DEF AddLink, RemoveBox, Gone
    <3> QED
      BY <1>1, <3>1, <3>2, PlacedIs DEF DockerOK
  <2> QED
    BY <1>1, <2>1, <2>2, BodyFrame DEF DockerOK
<1>4. starting' \subseteq Boxes
  <2>1. At("go") => Cur.x \in Boxes
    BY <1>2, StepTypes
  <2> QED
    BY <1>1, <2>1, StepIs, BodyFrame DEF GoBox, DockerOK
<1>5. listed' \subseteq Boxes
  <2>1. At("list") \/ At("unlist") => Cur.x \in Boxes
    BY <1>2, StepTypes
  <2> QED
    BY <1>1, <2>1, StepIs, BodyFrame DEF ListBox, DockerOK
<1>6. nets' \subseteq Nets
  <2>1. At("create") \/ At("trynet") \/ At("drop") => Cur.x \in Nets
    BY <1>2, StepTypes
  <2> QED
    BY <1>1, <2>1, StepIs, BodyFrame DEF CreateNet, TryCreateNet, DropNet, NetRemoved, DockerOK
<1>7. main' \in {"up", "gone", "other"}
  BY <1>1, StepIs, BodyFrame DEF SwapMain, DockerOK
<1>8. plugin' \in {"configured", "previous"}
  BY <1>1, StepIs, BodyFrame DEF Disturb, Tag, DockerOK
<1> QED
  BY <1>3, <1>4, <1>5, <1>6, <1>7, <1>8 DEF DockerOK

(* Lost commands are counted.                                              *)
LEMMA FaultsCount ==
  ASSUME BoundsOK, [Next]_vars
  PROVE  BoundsOK'
<1>1. faults' \in {faults, faults + 1, faults + 2}
  <2>1. CASE BodyStep
    BY <2>1 DEF BodyStep, Asked, Looked, Judged, Settled, OnlyEnds, InSomeCells, Deferred, Enter, Return, Answer,
         StartBox, TryBox, GoBox, AwaitBox, AddLink, AttachBox, RemoveBox, ListBox,
         CreateNet, TryCreateNet, DropNet, NetRemoved, SwapMain, ChangeMade, ChangeFailed, UndoNow, Disturb, Reserve,
         Well, Lost
  <2>2. CASE Unwind
    BY <2>2 DEF Unwind, PopBox, PopNet, NetRemoved, PopListed, PopMain, PopQuiet, PopTold, PopRestore, PopJoin, PopReady,
         PopMark, Over, Well, Lost
  <2>3. CASE Gate \/ (\E c \in Boxes : Landed(c)) \/ Killed \/ NoMore \/ (\E p \in {"same", "new"} : NextBody(p)) \/ UNCHANGED vars
    BY <2>3 DEF Gate, FirstReady, Recover, SecondReady, Landed, Killed, NoMore, NextBody, Well, Lost, vars
  <2> QED
    BY <2>1, <2>2, <2>3 DEF Next
<1>2. bodies' \in {bodies, bodies + 1}
  <2>1. CASE Unwind
    BY <2>1 DEF Unwind, PopBox, PopNet, PopListed, PopMain, PopQuiet, PopTold, PopRestore, PopJoin, PopReady,
         PopMark, Over, Popped, Alone
  <2>2. CASE Gate \/ (\E c \in Boxes : Landed(c)) \/ Killed \/ NoMore \/ (\E p \in {"same", "new"} : NextBody(p)) \/ UNCHANGED vars
    BY <2>2 DEF Gate, FirstReady, Recover, SecondReady, Landed, Killed, NoMore, NextBody, Alone, vars
  <2> QED
    BY <2>1, <2>2, BodyFrame DEF Next
<1> QED
  BY <1>1, <1>2 DEF BoundsOK

(* The cleanups: each takes the top of the stack, and leaves the phase but *)
(* for the mark an inner function returns to.                              *)
Popping == phase \in {"return", "unwind"} /\ defers # <<>> /\ Pop /\ UNCHANGED <<body, found, bodies>>
Resumes == phase = "return" /\ phase' = "body" /\ pc' = pc + 1

LEMMA UnwindMoves ==
  ASSUME Unwind
  PROVE  \/ Over
         \/ /\ Popping /\ verdict' \in {verdict, "BLOCKED"}
            /\ Resumes \/ UNCHANGED <<phase, pc>>
<1>1. CASE PopBox \/ PopNet \/ PopListed \/ PopMain
  BY <1>1 DEF PopBox, PopNet, PopListed, PopMain, Next1, Unwinding, Popped, Popping, Alone
<1>2. CASE PopQuiet \/ PopTold \/ PopJoin \/ PopReady
  BY <1>2 DEF PopQuiet, PopTold, PopRestore, PopJoin, PopReady, Next1, Unwinding, Popped, Popping, Alone
<1>3. CASE PopMark
  BY <1>3 DEF PopMark, Next1, Unwinding, Popping, Resumes, Alone
<1> QED
  BY <1>1, <1>2, <1>3 DEF Unwind

LEMMA UnwindFrame ==
  ASSUME Unwind
  PROVE  /\ on' = on \/ PopBox \/ PopListed
         /\ nets' = nets \/ PopNet
         /\ main' = main \/ PopMain
         /\ (src' = src /\ done' = done) \/ PopQuiet \/ PopTold
         /\ UNCHANGED <<starting, listed, plugin, was, base, found, bodies, body>>
<1>1. CASE PopBox \/ PopNet \/ PopListed \/ PopMain
  BY <1>1 DEF PopBox, PopNet, PopListed, PopMain, Popped, Alone, source
<1>2. CASE PopQuiet \/ PopTold \/ PopJoin \/ PopReady
  BY <1>2 DEF PopQuiet, PopTold, PopRestore, PopJoin, PopReady, Popped, Alone, source, docker
<1>3. CASE PopMark \/ Over
  BY <1>3 DEF PopMark, Over, Alone, source, docker
<1> QED
  BY <1>1, <1>2, <1>3 DEF Unwind

LEMMA UnwindShape ==
  ASSUME Shape, Unwind
  PROVE  ControlOK' /\ MindOK' /\ SourceOK' /\ AddressesOK' /\ DockerOK'
<1>1. ControlOK /\ MindOK /\ SourceOK /\ AddressesOK /\ DockerOK /\ BoundsOK
  BY Shapes DEF Shape
<1>2. ControlOK'
  <2>1. CASE Over
    BY <1>1, <2>1 DEF Over, ControlOK
  <2>2. CASE Popping /\ verdict' \in {verdict, "BLOCKED"} /\ (Resumes \/ UNCHANGED <<phase, pc>>)
    <3>1. defers' \in Seq(Cleanups)
      BY <1>1, <2>2 DEF Popping, Pop, ControlOK
    <3> QED
      BY <1>1, <2>2, <3>1 DEF Popping, Resumes, ControlOK, Verdicts
  <2> QED
    BY <2>1, <2>2, UnwindMoves
<1>3. MindOK'
  <2>1. CASE PopMark \/ Over
    BY <1>1, <2>1 DEF PopMark, Over, MindOK
  <2>2. CASE PopBox \/ PopNet \/ PopListed \/ PopMain \/ PopQuiet \/ PopTold \/ PopJoin \/ PopReady
    <3>1. Stale
      BY <2>2 DEF PopBox, PopNet, PopListed, PopMain, PopQuiet, PopTold, PopRestore, PopJoin, PopReady, Popped
    <3> QED
      BY <1>1, <3>1, StaleIs
  <2> QED
    BY <2>1, <2>2 DEF Unwind
<1>4. SourceOK' /\ AddressesOK'
  <2>1. UNCHANGED <<was, base, found>>
    BY UnwindFrame
  <2>2. src' \in Sources /\ src'.kind = src.kind /\ done' \subseteq Changes
    <3>1. CASE src' = src /\ done' = done
      BY <1>1, <3>1 DEF SourceOK
    <3>2. CASE PopQuiet \/ PopTold
      <4>1. Top.x \in Changes /\ done' = done \cup {Top.x}
            /\ src' \in {src, Restored(src, Top.x, Was(Top.x))} \cup RestoreLost(src, Top.x, Was(Top.x))
        BY <3>2 DEF PopQuiet, PopTold, PopRestore
      <4> QED
        BY <1>1, <4>1, ChangedIs DEF SourceOK
    <3> QED
      BY <3>1, <3>2, UnwindFrame
  <2> QED
    BY <1>1, <2>1, <2>2 DEF SourceOK, AddressesOK
<1>5. DockerOK'
  <2>1. on' \in [Boxes -> SUBSET (Nets \cup {Main, "none"})]
    <3>1. CASE PopBox
      BY <1>1, <3>1 DEF PopBox, Gone, DockerOK
    <3>2. CASE PopListed
      BY <1>1, <3>2 DEF PopListed, DockerOK
    <3> QED
      BY <1>1, <3>1, <3>2, UnwindFrame DEF DockerOK
  <2>2. nets' \subseteq Nets /\ main' \in {"up", "gone", "other"}
    BY <1>1, UnwindFrame DEF PopNet, NetRemoved, PopMain, DockerOK
  <2> QED
    BY <1>1, <2>1, <2>2, UnwindFrame DEF DockerOK
<1> QED
  BY <1>2, <1>3, <1>4, <1>5

LEMMA OutsideShape ==
  ASSUME Shape,
         Gate \/ (\E c \in Boxes : Landed(c)) \/ Killed \/ (\E p \in {"same", "new"} : NextBody(p))
  PROVE  ControlOK' /\ MindOK' /\ SourceOK' /\ AddressesOK' /\ DockerOK'
<1>1. ControlOK /\ MindOK /\ SourceOK /\ AddressesOK /\ DockerOK /\ BoundsOK
  BY Shapes DEF Shape
<1>2. src \in Sources /\ base \in Copies
  BY <1>1 DEF SourceOK
<1>3. CASE Gate
  <2>1. UNCHANGED <<pc, judged, fresh, defers, was, done, on, starting, listed, nets, main, plugin>>
    BY <1>3 DEF Gate, FirstReady, Recover, SecondReady, docker
  <2>2. body' = body /\ phase' \in {"body", "ready", "over"} /\ verdict' \in {verdict, "BLOCKED"}
    BY <1>3 DEF Gate, FirstReady, Recover, SecondReady, Begin, BlockedAtGate
  <2>3. src' \in {src, Recovered(src, base)} \cup RecoverFailed(src, base) /\ base' \in {base, Baseline(src, base)}
    BY <1>3 DEF Gate, FirstReady, Recover, SecondReady, Begin
  <2>4. found' \in {found, [src |-> src, plugin |-> plugin]} /\ (src' = src \/ found' = found)
    BY <1>3 DEF Gate, FirstReady, Recover, SecondReady, Begin
  <2>5. src' \in Sources /\ src'.kind = src.kind
    BY <1>2, <2>3, RecoverIs DEF Like
  <2>6. base' \in Copies
    BY <1>2, <2>3, CopyIs
  <2>7. found' \in [src : Sources, plugin : {"configured", "previous"}] /\ found'.src.kind = src'.kind
    BY <1>1, <1>2, <2>4, <2>5 DEF SourceOK, DockerOK
  <2> QED
    BY <1>1, <2>1, <2>2, <2>5, <2>6, <2>7 DEF ControlOK, MindOK, SourceOK, AddressesOK, DockerOK, Verdicts
<1>4. CASE \E c \in Boxes : Landed(c)
  <2>1. PICK c \in Boxes : Landed(c)
    BY <1>4
  <2>2. on' \in {[on EXCEPT ![c] = {}], [on EXCEPT ![c] = {"none"}], [on EXCEPT ![c] = {Main}]}
    BY <2>1 DEF Landed, HalfRun
  <2>3. on' \in [Boxes -> SUBSET (Nets \cup {Main, "none"})]
    BY <1>1, <2>2 DEF DockerOK
  <2>4. /\ UNCHANGED <<body, pc, phase, verdict, defers, src, was, done, base, listed, nets, main, plugin, found>>
        /\ starting' \subseteq starting /\ Stale
    BY <2>1 DEF Landed, Alone, source
  <2>5. MindOK'
    BY <1>1, <2>4, StaleIs
  <2> QED
    BY <1>1, <2>3, <2>4, <2>5 DEF ControlOK, SourceOK, AddressesOK, DockerOK
<1>5. CASE Killed
  <2>1. base' \in Copies
    BY <1>2, <1>5, CopyIs DEF Killed
  <2>2. /\ UNCHANGED <<body, judged, fresh, src, was, done, on, starting, listed, nets, main, plugin, found>>
        /\ pc' = 0 /\ phase' = "over" /\ verdict' = "none" /\ defers' = <<>>
    BY <1>5 DEF Killed, Alone, docker
  <2> QED
    BY <1>1, <2>1, <2>2 DEF ControlOK, MindOK, SourceOK, AddressesOK, DockerOK
<1>6. CASE \E p \in {"same", "new"} : NextBody(p)
  <2>1. PICK p \in {"same", "new"} : NextBody(p)
    BY <1>6
  <2>2. body' \in DOMAIN Programs
    <3>1. Order \in Seq(DOMAIN Programs)
      BY ProgramsAssumption
    <3>2. PICK i \in DOMAIN Order : Order[i] = body /\ body' = Order[i + 1]
      BY <2>1 DEF NextBody
    <3>3. i # Len(Order)
      BY <2>1, <3>2 DEF NextBody, MoreBodies
    <3>4. i + 1 \in DOMAIN Order
      BY <3>1, <3>2, <3>3
    <3> QED
      BY <3>1, <3>2, <3>4
  <2>3. base' \in Copies
    BY <1>2, <2>1, CopyIs DEF NextBody
  <2>4. Nothing \in Captures /\ Nothing.addr = {}
    BY DEF Nothing, Captures, Contents
  <2>5. was' \in [Edits -> Captures] /\ \A x \in Edits : was'[x].addr \subseteq {x}
    BY <2>1, <2>4 DEF NextBody
  <2>6. ControlOK' /\ MindOK'
    <3>1. <<>> \in Seq(Cleanups)
      OBVIOUS
    <3> QED
      BY <2>1, <2>2, <3>1 DEF NextBody, ControlOK, MindOK
  <2>7. SourceOK' /\ AddressesOK'
    BY <1>1, <2>1, <2>3, <2>5 DEF NextBody, SourceOK, AddressesOK
  <2>8. DockerOK'
    BY <1>1, <2>1 DEF NextBody, DockerOK
  <2> QED
    BY <2>6, <2>7, <2>8
<1> QED
  BY <1>3, <1>4, <1>5, <1>6

LEMMA InitShape == Init => Shape
<1> SUFFICES ASSUME Init PROVE Shape
  OBVIOUS
<1>1. PICK k \in CellKinds : src = Stock(k)
  BY DEF Init
<1>2. k \in Kinds
  BY CellKindsAssumption
<1>3. src \in Sources
  BY <1>1, <1>2, UnitsAre DEF Stock, Sources, Contents
<1>4. Nothing \in Captures /\ Nothing.addr = {} /\ NoBaseline \in Copies
  BY <1>3, CopyIs DEF Nothing, Captures, Contents, NoBaseline, Copies
<1>5. body \in DOMAIN Programs
  BY ProgramsAssumption DEF Init
<1>6. ControlOK /\ MindOK
  <2>1. <<>> \in Seq(Cleanups)
    OBVIOUS
  <2> QED
    BY <1>5, <2>1 DEF Init, ControlOK, MindOK
<1>7. SourceOK /\ AddressesOK
  BY <1>3, <1>4 DEF Init, SourceOK, AddressesOK
<1>8. DockerOK /\ BoundsOK
  BY DEF Init, DockerOK, BoundsOK
<1> QED
  BY <1>6, <1>7, <1>8, Shapes DEF Shape

LEMMA ShapeKept == Shape /\ [Next]_vars => Shape'
<1> SUFFICES ASSUME Shape, [Next]_vars PROVE Shape'
  OBVIOUS
<1>1. ControlOK /\ MindOK /\ SourceOK /\ DockerOK /\ BoundsOK /\ AddressesOK
  BY Shapes DEF Shape
<1>2. BoundsOK'
  BY <1>1, FaultsCount
<1>3. ControlOK' /\ MindOK' /\ SourceOK' /\ AddressesOK' /\ DockerOK'
  <2>1. CASE BodyStep
    BY <2>1, BodyControl, BodyMind, BodySource, BodyDocker DEF Shape
  <2>2. CASE Unwind
    BY <2>2, UnwindShape
  <2>3. CASE Gate \/ (\E c \in Boxes : Landed(c)) \/ Killed \/ (\E p \in {"same", "new"} : NextBody(p))
    BY <2>3, OutsideShape
  <2>4. CASE NoMore \/ UNCHANGED vars
    <3>1. UNCHANGED <<body, pc, phase, verdict, judged, fresh, defers, found, src, was, done, base,
                      on, starting, listed, nets, main, plugin>>
      BY <2>4 DEF NoMore, vars, progress, source, docker
    <3> QED
      BY <1>1, <3>1 DEF ControlOK, MindOK, SourceOK, AddressesOK, DockerOK
  <2> QED
    BY <2>1, <2>2, <2>3, <2>4 DEF Next
<1>4. TypeOK'
  BY <1>2, <1>3 DEF TypeOK, ControlOK, MindOK, SourceOK, DockerOK, BoundsOK, Copies
<1> QED
  BY <1>3, <1>4 DEF Shape

(* The type invariant, and that a setter keeps no address but its own.     *)
THEOREM ShapeHolds == Spec => []Shape
BY InitShape, ShapeKept, PTL DEF Spec

THEOREM TypeHolds == Spec => []TypeOK
<1>1. Shape => TypeOK
  BY DEF Shape
<1> QED
  BY <1>1, ShapeHolds, PTL

-----------------------------------------------------------------------------
(* Where a body is.                                                        *)

InBody == phase \in {"body", "return"}

(* In front of a body nothing is held, and at its end nothing is pending.  *)
Places ==
  /\ phase \in {"gate", "ready"} =>
       /\ pc = 1 /\ judged = "none" /\ defers = <<>> /\ done = {}
       /\ starting = {} /\ listed = {} /\ nets = {} /\ main = "up"
       /\ \A c \in Boxes : on[c] \subseteq {Main} /\ (c # "old" => on[c] = {})
  /\ phase = "return" => pc \in DOMAIN Prog /\ Cur.op = "return"
  /\ InBody => pc > 0
  /\ phase = "over" => defers = <<>>

Framed == Shape /\ Places

(* A body begins where its source is ready, with nothing failed.           *)
Begun == /\ phase \in {"gate", "ready"} /\ Ready(src, base) /\ Begin
         /\ UNCHANGED <<pc, judged, fresh, defers, was, done, on, starting, listed, nets, main, plugin, bodies>>

(* What a gate that has not opened, a kill and the next scenario leave.    *)
Outside == \/ phase' \in {"gate", "ready"}
           \/ phase' = "over" /\ ~(Ended')

Untouched == UNCHANGED <<body, pc, phase, verdict, judged, fresh, defers, failed, found, src, was, done, base,
                         on, starting, listed, nets, main, plugin>>

(* Every step is one of a body, of its stack, of docker, or outside.       *)
LEMMA StepKinds ==
  ASSUME [Next]_vars
  PROVE  BodyStep \/ Unwind \/ (\E c \in Boxes : Landed(c)) \/ Begun \/ Outside \/ Untouched
<1>1. CASE FirstReady
  BY <1>1 DEF FirstReady, Begun, docker
<1>2. CASE SecondReady
  <2>1. CASE Begin
    BY <1>2, <2>1 DEF SecondReady, Begun, Begin, BlockedAtGate, docker
  <2>2. CASE BlockedAtGate /\ Note("gate", "")
    BY <2>2 DEF BlockedAtGate, Note, Outside, Ended
  <2> QED
    BY <1>2, <2>1, <2>2 DEF SecondReady, Lost
<1>3. CASE Recover
  BY <1>3 DEF Recover, BlockedAtGate, Lost, Note, Outside, Ended
<1>4. CASE Killed
  BY <1>4 DEF Killed, Lost, Note, Outside, Ended, WasKilled
<1>5. CASE \E p \in {"same", "new"} : NextBody(p)
  BY <1>5 DEF NextBody, Outside
<1>6. CASE NoMore \/ UNCHANGED vars
  BY <1>6 DEF NoMore, vars, progress, source, docker, Untouched
<1> QED
  BY <1>1, <1>2, <1>3, <1>4, <1>5, <1>6 DEF Next, Gate

LEMMA PlacesKept == Framed /\ [Next]_vars => Places'
<1> SUFFICES ASSUME Framed, [Next]_vars PROVE Places'
  OBVIOUS
<1>1. CASE BodyStep
  <2>1. phase = "body" /\ body' = body /\ (Onward \/ Out \/ Ending)
    BY <1>1, BodyMoves DEF Framed, Shape
  <2>2. pc > 0 /\ pc \in Nat
    BY <2>1 DEF Framed, Places, InBody, Shape, TypeOK
  <2>3. pc \in DOMAIN Prog => Cur.skip \in Nat
    <3>1. SUFFICES ASSUME pc \in DOMAIN Prog PROVE Cur.skip \in Nat
      OBVIOUS
    <3>2. Cur \in Steps
      BY <2>1, <3>1, CurIs DEF Framed, Shape
    <3> QED
      BY <3>2, StepTypes
  <2>4. CASE Onward
    BY <2>2, <2>3, <2>4 DEF Onward, Places, InBody
  <2>5. CASE Out
    BY <2>1, <2>2, <2>5 DEF Out, Places, InBody, Prog, Cur
  <2>6. CASE Ending
    BY <2>6 DEF Ending, Places, InBody
  <2> QED
    BY <2>1, <2>4, <2>5, <2>6
<1>2. CASE Unwind
  <2>1. CASE Over
    BY <2>1 DEF Over, Places, InBody
  <2>2. CASE Popping /\ Resumes
    BY <2>2 DEF Popping, Resumes, Places, InBody, Framed, Shape, TypeOK
  <2>3. CASE Popping /\ UNCHANGED <<phase, pc>>
    BY <2>3 DEF Popping, Places, InBody, Framed, Prog, Cur
  <2> QED
    BY <1>2, <2>1, <2>2, <2>3, UnwindMoves
<1>3. CASE \E c \in Boxes : Landed(c)
  BY <1>3 DEF Landed, Framed, Places, InBody, Prog, Cur
<1>4. CASE Gate
  <2>1. UNCHANGED <<pc, judged, defers, done, on, starting, listed, nets, main>> /\ phase \in {"gate", "ready"}
    BY <1>4 DEF Gate, FirstReady, Recover, SecondReady, docker
  <2>2. phase' \in {"body", "ready", "over"}
    BY <1>4 DEF Gate, FirstReady, Recover, SecondReady, Begin, BlockedAtGate
  <2> QED
    BY <2>1, <2>2 DEF Framed, Places, InBody
<1>5. CASE Killed
  BY <1>5 DEF Killed, Places, InBody
<1>6. CASE \E p \in {"same", "new"} : NextBody(p)
  BY <1>6 DEF NextBody, Places, InBody
<1>7. CASE NoMore
  BY <1>7 DEF NoMore, vars, progress, docker, source, Framed, Places, InBody, Prog, Cur
<1>8. CASE UNCHANGED vars
  BY <1>8 DEF vars, progress, docker, source, Framed, Places, InBody, Prog, Cur
<1> QED
  BY <1>1, <1>2, <1>3, <1>4, <1>5, <1>6, <1>7, <1>8 DEF Next

LEMMA InitFramed == Init => Framed
BY InitShape DEF Framed, Init, Places, InBody

LEMMA FramedKept == Framed /\ [Next]_vars => Framed'
BY PlacesKept, ShapeKept DEF Framed

-----------------------------------------------------------------------------
(* The rules, and what passing a place means.                              *)

LEMMA RulesAre ==
  ASSUME TypeOK
  PROVE  /\ Prog \in Seq(Steps)
         /\ Measures(Prog) /\ LiftsFirst(Prog) /\ Upgrades(Prog)
         /\ RemovesBoxes(Prog) /\ RemovesNets(Prog) /\ PutsMainBack(Prog) /\ EditsNest(Prog, Edits)
         /\ body \in LeavesItsNetwork \/ NetsFirst(Prog, Nets)
BY ProgramsAssumption, RulesAssumption DEF TypeOK, Prog

(* Where the step at place i leads.                                        *)
Leads(p, i, q) == i \in DOMAIN p /\ (q = i + 1 \/ (p[i].op = "maybe" /\ q = i + 1 + p[i].skip))
Passes == Leads(Prog, pc, pc')

(* A place no run skips is behind a body only once it has been there.      *)
LEMMA LeadsIs ==
  ASSUME NEW p \in Seq(Steps), NEW i, NEW q, Leads(p, i, q)
  PROVE  /\ i \in 1..Len(p) /\ p[i] \in Steps /\ q \in Nat /\ i < q
         /\ \A k \in Always(p) : k < q => k \in 1..Len(p) /\ k <= i
<1>1. i \in 1..Len(p) /\ p[i] \in Steps
  BY DEF Leads
<1>2. p[i].skip \in Nat
  BY <1>1, StepTypes
<1>3. q \in Nat /\ i < q
  BY <1>1, <1>2 DEF Leads
<1>4. ASSUME NEW k \in Always(p), k < q PROVE k \in 1..Len(p) /\ k <= i
  <2>1. k \in 1..Len(p)
    BY DEF Always
  <2>2. ASSUME i < k PROVE FALSE
    <3>1. i \in 1..(k - 1)
      BY <1>1, <2>1, <2>2
    <3>2. p[i].op = "maybe" => k > i + p[i].skip
      BY <3>1 DEF Always
    <3> QED
      BY <1>1, <1>2, <1>4, <2>1, <2>2, <3>2 DEF Leads
  <2> QED
    BY <1>1, <2>1, <2>2
<1> QED
  BY <1>1, <1>3, <1>4

LEMMA MovesPass ==
  ASSUME Framed, InBody, InBody',
         BodyStep \/ (Unwind /\ Resumes)
  PROVE  /\ Passes \/ (Out /\ UNCHANGED pc)
         /\ UNCHANGED body
<1>1. CASE BodyStep
  BY <1>1, BodyMoves DEF Onward, Out, Ending, InBody, Passes, Leads, Cur, Framed, Shape
<1>2. CASE Unwind /\ Resumes
  <2>1. phase = "return" /\ pc' = pc + 1 /\ pc \in DOMAIN Prog
    BY <1>2 DEF Resumes, Framed, Places
  <2> QED
    BY <1>2, <2>1, UnwindFrame DEF Passes, Leads
<1> QED
  BY <1>1, <1>2

-----------------------------------------------------------------------------
(* A pass is measured.                                                     *)

(* A kept verdict is of what was read; a docker run under way was started  *)
(* and not waited for; a judgement that was passed has kept one, and from  *)
(* a last look on nothing moves.                                           *)
JudgedIsFresh == judged # "none" => fresh
Underway == InBody => \A c \in starting : \E j \in Running(Prog, pc) : Prog[j].x = c
Seen(i) == /\ Prog[i].op = "judge" => judged # "none"
           /\ LooksLast(Prog, i) => fresh /\ starting = {}
SeenAll == InBody => \A i \in Always(Prog) : i < pc => Seen(i)

Measured == JudgedIsFresh /\ Underway /\ SeenAll

LEMMA JudgedKept == JudgedIsFresh /\ [Next]_vars => JudgedIsFresh'
<1> SUFFICES ASSUME JudgedIsFresh, [Next]_vars PROVE JudgedIsFresh'
  OBVIOUS
<1>1. ASSUME Stale \/ Kept \/ UNCHANGED <<judged, fresh>> \/ fresh' PROVE JudgedIsFresh'
  BY <1>1 DEF Stale, Kept, Answered, JudgedIsFresh
<1>2. CASE Asked \/ Looked \/ Judged \/ Settled \/ OnlyEnds \/ InSomeCells \/ Deferred \/ Enter \/ Return \/ Answer
  BY <1>1, <1>2 DEF Asked, Looked, Judged, Settled, OnlyEnds, InSomeCells, Deferred, Enter, Return, Answer
<1>3. CASE StartBox \/ TryBox \/ GoBox \/ AwaitBox \/ AddLink \/ AttachBox \/ RemoveBox \/ ListBox
  BY <1>1, <1>3 DEF StartBox, TryBox, GoBox, AwaitBox, AddLink, AttachBox, RemoveBox, ListBox
<1>4. CASE CreateNet \/ TryCreateNet \/ DropNet \/ SwapMain \/ ChangeMade \/ ChangeFailed \/ UndoNow \/ Disturb \/ Reserve
  BY <1>1, <1>4 DEF CreateNet, TryCreateNet, DropNet, SwapMain, ChangeMade, ChangeFailed, UndoNow, Disturb, Reserve
<1>5. CASE Unwind
  BY <1>1, <1>5 DEF Unwind, PopBox, PopNet, PopListed, PopMain, PopQuiet, PopTold, PopRestore, PopJoin, PopReady,
                    PopMark, Over, Popped
<1>6. CASE Gate \/ (\E c \in Boxes : Landed(c)) \/ Killed
  BY <1>1, <1>6 DEF Gate, FirstReady, Recover, SecondReady, Landed, Killed
<1>7. CASE \E p \in {"same", "new"} : NextBody(p)
  BY <1>7 DEF NextBody, JudgedIsFresh
<1>8. CASE NoMore \/ UNCHANGED vars
  BY <1>1, <1>8 DEF NoMore, vars, progress
<1> QED
  BY <1>2, <1>3, <1>4, <1>5, <1>6, <1>7, <1>8 DEF Next, BodyStep

(* What a step of a body does to what is read and to the docker runs.      *)
LEMMA BodyReads ==
  ASSUME TypeOK, BodyStep, phase' # "unwind", pc \in DOMAIN Prog
  PROVE  /\ judged # "none" => judged' # "none"
         /\ Cur.op = "judge" => judged' # "none"
         /\ Cur.op = "look" => fresh'
         /\ Cur.op \in Reads /\ fresh => fresh'
         /\ Cur.op # "go" => starting' = starting
         /\ Cur.op = "go" => starting' = starting \cup {Cur.x}
         /\ Cur.op = "await" => Cur.x \notin starting
<1>0. phase = "body" /\ \A op : At(op) <=> Cur.op = op
  BY BodyFrame, StepIs DEF At, Cur, Answer, BodyStep, Asked, Looked, Judged, Settled, OnlyEnds, InSomeCells, Deferred, Enter,
         Return, StartBox, TryBox, GoBox, AwaitBox, AddLink, AttachBox, RemoveBox, ListBox,
         CreateNet, TryCreateNet, DropNet, SwapMain, ChangeMade, ChangeFailed, UndoNow, Disturb, Reserve
<1>1. starting' = starting \/ Cur.op = "go"
  BY <1>0, BodyFrame
<1>2. Cur.op = "go" => starting' = starting \cup {Cur.x}
  BY <1>0, StepIs DEF GoBox
<1>3. Cur.op = "await" => Cur.x \notin starting
  BY <1>0, StepIs DEF AwaitBox
<1>4. judged # "none" => judged' # "none"
  <2>1. CASE Asked \/ Looked \/ Settled \/ OnlyEnds \/ InSomeCells \/ Deferred \/ Enter \/ Return \/ AwaitBox \/ ListBox
    BY <2>1 DEF Asked, Looked, Settled, OnlyEnds, InSomeCells, Deferred, Enter, Return, AwaitBox, ListBox, Kept
  <2>0. CASE Judged
    <3>1. Cur \in Steps
      BY <1>0, CurIs
    <3>2. "none" \notin Cur.ends
      BY <3>1, StepTypes
    <3> QED
      BY <2>0, <3>2 DEF Judged
  <2>2. CASE StartBox \/ TryBox \/ GoBox \/ AddLink \/ AttachBox \/ RemoveBox \/ CreateNet \/ TryCreateNet \/ DropNet \/ SwapMain
             \/ ChangeMade \/ ChangeFailed \/ UndoNow \/ Disturb \/ Reserve
    BY <2>2 DEF StartBox, TryBox, GoBox, AddLink, AttachBox, RemoveBox, CreateNet, TryCreateNet, DropNet, SwapMain,
         ChangeMade, ChangeFailed, UndoNow, Disturb, Reserve, Stale
  <2>3. ~Answer
    BY DEF Answer
  <2> QED
    BY <2>0, <2>1, <2>2, <2>3 DEF BodyStep
<1>5. Cur.op = "judge" => judged' # "none"
  <2>1. Cur \in Steps
    BY <1>0, CurIs
  <2>2. "none" \notin Cur.ends
    BY <2>1, StepTypes
  <2> QED
    BY <1>0, <2>2, StepIs DEF Judged
<1>6. Cur.op \in {"look", "judge"} => fresh'
  BY <1>0, StepIs DEF Looked, Judged, End
<1>7. Cur.op \in Reads /\ fresh => fresh'
  <2>1. CASE Cur.op \in {"ask", "settle", "only", "await"}
    BY <1>0, <2>1, StepIs DEF Asked, Settled, OnlyEnds, AwaitBox, Kept
  <2>2. CASE Cur.op \in {"list", "unlist", "later", "enter", "maybe"}
    BY <1>0, <2>2, StepIs DEF InSomeCells, Deferred, Enter, ListBox
  <2> QED
    BY <1>6, <2>1, <2>2 DEF Reads
<1> QED
  BY <1>1, <1>2, <1>3, <1>4, <1>5, <1>6, <1>7

(* One place on.                                                           *)
LEMMA RunningLeads ==
  ASSUME NEW p \in Seq(Steps), NEW i, NEW q, Leads(p, i, q)
  PROVE  /\ \A j \in Running(p, i) : Is(p, i, "await", p[j].x) \/ j \in Running(p, q)
         /\ p[i].op = "go" => i \in Running(p, q)
<1>1. i \in 1..Len(p) /\ q \in Nat /\ i < q /\ \A k \in Always(p) : k < q => k \in 1..Len(p) /\ k <= i
  BY LeadsIs
<1>2. ASSUME NEW j \in Running(p, i), ~Is(p, i, "await", p[j].x) PROVE j \in Running(p, q)
  <2>1. j \in 1..(i - 1) /\ j \in 1..(q - 1) /\ p[j].op = "go" /\ ~Awaited(p, j, i)
    BY <1>1 DEF Running
  <2>2. ASSUME NEW k \in (j + 1)..(q - 1), k \in Always(p), Is(p, k, "await", p[j].x) PROVE FALSE
    <3>1. k <= i /\ k # i
      BY <1>1, <1>2, <2>1, <2>2
    <3>2. k \in (j + 1)..(i - 1)
      BY <1>1, <2>1, <3>1
    <3> QED
      BY <2>1, <2>2, <3>2 DEF Awaited
  <2> QED
    BY <2>1, <2>2 DEF Running, Awaited
<1>3. ASSUME p[i].op = "go" PROVE i \in Running(p, q)
  <2>1. ASSUME NEW k \in (i + 1)..(q - 1), k \in Always(p) PROVE FALSE
    BY <1>1, <2>1
  <2>2. i \in 1..(q - 1)
    BY <1>1
  <2> QED
    BY <1>3, <2>1, <2>2 DEF Running, Awaited
<1> QED
  BY <1>2, <1>3

LEMMA UnderwayPasses ==
  ASSUME Framed, Underway, InBody, Passes, Prog' = Prog,
         starting' \subseteq starting \cup (IF Cur.op = "go" THEN {Cur.x} ELSE {}),
         Cur.op = "await" => Cur.x \notin starting
  PROVE  Underway'
<1>1. Prog \in Seq(Steps) /\ Leads(Prog, pc, pc')
  BY RulesAre DEF Passes, Framed, Shape
<1>2. ASSUME NEW c \in starting' PROVE \E j \in Running(Prog, pc') : Prog[j].x = c
  <2>1. CASE c \in starting
    <3>1. PICK j \in Running(Prog, pc) : Prog[j].x = c
      BY <2>1 DEF Underway
    <3>2. ~Is(Prog, pc, "await", Prog[j].x)
      BY <2>1, <3>1 DEF Is, Cur
    <3> QED
      BY <1>1, <3>1, <3>2, RunningLeads
  <2>2. CASE Cur.op = "go" /\ c = Cur.x
    BY <1>1, <2>2, RunningLeads DEF Cur
  <2> QED
    BY <1>2, <2>1, <2>2
<1> QED
  BY <1>2 DEF Underway

LEMMA SeenPasses ==
  ASSUME Framed, Measured, InBody, Passes, Prog' = Prog,
         judged # "none" => judged' # "none", Cur.op = "judge" => judged' # "none",
         Cur.op = "look" => fresh', Cur.op \in Reads /\ fresh => fresh',
         Cur.op # "go" => starting' = starting
  PROVE  SeenAll'
<1>1. pc \in 1..Len(Prog) /\ Len(Prog) \in Nat /\ Cur \in Steps
  BY RulesAre, LeadsIs DEF Passes, Cur, Framed, Shape
<1>2. ASSUME NEW i \in Always(Prog), i < pc' PROVE Seen(i)'
  <2>1. i \in 1..Len(Prog) /\ i <= pc
    BY <1>2, RulesAre, LeadsIs DEF Passes, Framed, Shape
  <2>2. CASE i = pc
    <3>1. Prog[i] = Cur
      BY <2>2 DEF Cur
    <3>2. ASSUME LooksLast(Prog, i) PROVE fresh' /\ starting' = {}
      <4>1. starting = {}
        BY <2>2, <3>2 DEF LooksLast, Measured, Underway
      <4> QED
        BY <3>1, <3>2, <4>1 DEF LooksLast
    <3> QED
      BY <3>1, <3>2 DEF Seen
  <2>3. CASE i < pc
    <3>1. Seen(i)
      BY <2>3 DEF Measured, SeenAll
    <3>2. ASSUME LooksLast(Prog, i) PROVE fresh' /\ starting' = {}
      <4>1. Cur.op \in Reads
        BY <1>1, <2>1, <2>3, <3>2 DEF LooksLast, Cur
      <4> QED
        BY <3>1, <3>2, <4>1 DEF Seen, Reads
    <3> QED
      BY <3>1, <3>2 DEF Seen
  <2> QED
    BY <1>1, <2>1, <2>2, <2>3
<1> QED
  BY <1>2 DEF SeenAll

LEMMA MeasuredKept == Framed /\ Measured /\ [Next]_vars => Measured'
<1> SUFFICES ASSUME Framed, Measured, [Next]_vars PROVE Underway' /\ SeenAll'
  BY JudgedKept DEF Measured
<1>1. CASE BodyStep /\ InBody'
  <2>1. phase = "body" /\ phase' # "unwind" /\ Prog' = Prog /\ (Passes \/ (Out /\ UNCHANGED pc))
    BY <1>1, MovesPass, BodyMoves DEF InBody, Framed, Shape, Prog
  <2>2. CASE Passes
    <3>1. /\ judged # "none" => judged' # "none"
          /\ Cur.op = "judge" => judged' # "none"
          /\ Cur.op = "look" => fresh'
          /\ Cur.op \in Reads /\ fresh => fresh'
          /\ Cur.op # "go" => starting' = starting
          /\ Cur.op = "go" => starting' = starting \cup {Cur.x}
          /\ Cur.op = "await" => Cur.x \notin starting
      BY <1>1, <2>1, <2>2, BodyReads DEF Passes, Leads, Framed, Shape
    <3> QED
      BY <2>1, <2>2, <3>1, UnderwayPasses, SeenPasses DEF InBody, Measured
  <2>3. CASE Out /\ UNCHANGED pc
    <3>1. Return
      BY <1>1, <2>1, <2>3, StepIs DEF Out, At, Cur
    <3>2. UNCHANGED <<judged, fresh, starting, pc>>
      BY <3>1 DEF Return, docker
    <3> QED
      BY <2>1, <3>2 DEF Measured, Underway, SeenAll, Seen, InBody
  <2> QED
    BY <2>1, <2>2, <2>3
<1>2. CASE Unwind /\ InBody'
  <2>1. Popping /\ (Resumes \/ UNCHANGED <<phase, pc>>) /\ starting' = starting /\ Prog' = Prog
    BY <1>2, UnwindMoves, UnwindFrame DEF Over, InBody, Prog
  <2>2. phase = "return" /\ pc \in DOMAIN Prog /\ Cur.op = "return" /\ InBody
    BY <1>2, <2>1 DEF Popping, Resumes, InBody, Framed, Places
  <2>3. judged # "none" => judged' # "none"
    <3>1. phase' # "unwind"
      BY <1>2 DEF InBody
    <3> QED
      BY <1>2, <3>1 DEF Unwind, PopBox, PopNet, PopListed, PopMain, PopQuiet, PopTold, PopRestore, PopJoin, PopReady,
                    PopMark, Over, Popped, Stale
  <2>4. CASE Resumes
    <3>1. Passes
      BY <2>2, <2>4 DEF Resumes, Passes, Leads
    <3>2. Cur.op \notin {"judge", "look", "go", "await"} /\ Cur.op \notin Reads
      BY <2>2 DEF Reads
    <3> QED
      BY <2>1, <2>2, <2>3, <3>1, <3>2, UnderwayPasses, SeenPasses DEF Measured
  <2>5. CASE UNCHANGED <<phase, pc>>
    <3>1. ASSUME NEW i \in Always(Prog), i < pc PROVE ~LooksLast(Prog, i)
      <4>1. pc \in i..Len(Prog) /\ Prog[pc].op \notin Reads
        BY <2>2, <3>1, RulesAre DEF Always, Framed, Shape, Cur, Reads
      <4> QED
        BY <4>1 DEF LooksLast
    <3> QED
      BY <2>1, <2>2, <2>3, <2>5, <3>1 DEF Measured, Underway, SeenAll, Seen, InBody
  <2> QED
    BY <2>1, <2>4, <2>5
<1>3. CASE \E c \in Boxes : Landed(c)
  <2>1. PICK c \in starting : starting' = starting \ {c} /\ UNCHANGED <<body, pc, phase>> /\ Stale
    BY <1>3 DEF Landed
  <2>2. Prog' = Prog /\ (InBody' => InBody /\ (judged # "none" => judged' # "none"))
    BY <2>1 DEF Prog, InBody, Stale
  <2>3. ASSUME InBody, NEW i \in Always(Prog), i < pc PROVE ~LooksLast(Prog, i)
    BY <2>1, <2>3 DEF Measured, SeenAll, Seen
  <2> QED
    BY <2>1, <2>2, <2>3 DEF Measured, Underway, SeenAll, Seen
<1>4. CASE Begun
  <2>1. pc' = 1 /\ starting' = {}
    BY <1>4 DEF Begun, Framed, Places
  <2> QED
    <3>1. Prog' = Prog /\ \A i \in Always(Prog) : ~(i < 1)
      BY <1>4, RulesAre DEF Always, Begun, Begin, Framed, Shape, Prog
    <3> QED
      BY <2>1, <3>1 DEF Underway, SeenAll
<1>5. CASE ~InBody'
  BY <1>5 DEF Underway, SeenAll
<1>6. CASE Untouched
  BY <1>6 DEF Untouched, Measured, Underway, SeenAll, Seen, InBody, Prog
<1> QED
  BY <1>1, <1>2, <1>3, <1>4, <1>5, <1>6, StepKinds DEF Outside, InBody

(* A body passes on something it read after the last thing that was done   *)
(* to its containers, the source, the plugin or the host, for every        *)
(* catalog whose bodies judge what they read or look once more at the end. *)
THEOREM PassIsMeasuredHolds == Spec => []PassIsMeasured
<1>1. Init => Measured
  BY DEF Init, Measured, JudgedIsFresh, Underway, SeenAll, InBody
<1>2. Framed /\ Measured => PassIsMeasured
  <2>1. SUFFICES ASSUME Framed, Measured, phase = "body", pc \notin DOMAIN Prog, judged \in {"none", "PASS"} PROVE fresh
    BY DEF PassIsMeasured
  <2>2. PICK i \in Always(Prog) : Prog[i].op = "judge" \/ LooksLast(Prog, i)
    BY <2>1, RulesAre DEF Measures, Framed, Shape
  <2>3. i < pc
    <3>1. pc \in Nat /\ pc > 0
      BY <2>1 DEF Framed, Shape, TypeOK, Places, InBody
    <3> QED
      BY <2>1, <3>1, RulesAre DEF Always, Framed, Shape
  <2>4. Seen(i)
    BY <2>1, <2>3 DEF Measured, SeenAll, InBody
  <2> QED
    BY <2>1, <2>2, <2>4 DEF Seen, Measured, JudgedIsFresh
<1>3. Framed /\ Measured /\ [Next]_vars => (Framed /\ Measured)'
  BY FramedKept, MeasuredKept
<1> QED
  BY <1>1, <1>2, <1>3, InitFramed, PTL DEF Spec

-----------------------------------------------------------------------------
(* The loss is lifted before anything waits for a docker run.              *)

Active == phase \in {"body", "return", "unwind"}

NoLoss == "netem" \notin src.actors \/ Troubled({"netem"})

Lifts == {[op |-> "quiet", x |-> "netem"], [op |-> "told", x |-> "netem"]}
LiftNext == phase = "body" /\ Is(Prog, pc, "later", "netem") /\ Cur.y = "quiet"

(* A wait on the stack has a lift above it, or deferred next.              *)
LiftAbove(d) == NoLoss \/ (\E e \in DOMAIN defers : e > d /\ defers[e] \in Lifts) \/ (d = Len(defers) /\ LiftNext)

Lifting ==
  /\ InBody => NoLoss \/ Impaired(Prog, pc)
  /\ Active /\ "netem" \in done => NoLoss
  /\ Active => \A d \in DOMAIN defers : defers[d].op = "join" => LiftAbove(d)

LEMMA ChangingLeads ==
  ASSUME NEW p \in Seq(Steps), NEW i, NEW q, Leads(p, i, q), NEW x
  PROVE  /\ Changing(p, i, x) => Changing(p, q, x) \/ Is(p, i, "undo", x)
         /\ Is(p, i, "change", x) => Changing(p, q, x)
<1>1. i \in 1..Len(p) /\ q \in Nat /\ i < q /\ \A k \in Always(p) : k < q => k \in 1..Len(p) /\ k <= i
  BY LeadsIs
<1>2. ASSUME Changing(p, i, x), ~Is(p, i, "undo", x) PROVE Changing(p, q, x)
  <2>1. PICK m \in 1..(i - 1) : /\ Is(p, m, "change", x)
                                /\ \A u \in (m + 1)..(i - 1) : ~(u \in Always(p) /\ Is(p, u, "undo", x))
    BY <1>2 DEF Changing
  <2>2. ASSUME NEW u \in (m + 1)..(q - 1), u \in Always(p), Is(p, u, "undo", x) PROVE FALSE
    <3>1. u <= i /\ u # i
      BY <1>1, <1>2, <2>1, <2>2
    <3>2. u \in (m + 1)..(i - 1)
      BY <1>1, <2>1, <3>1
    <3> QED
      BY <2>1, <2>2, <3>2
  <2>3. m \in 1..(q - 1)
    BY <1>1, <2>1
  <2> QED
    BY <2>1, <2>2, <2>3 DEF Changing
<1>3. ASSUME Is(p, i, "change", x) PROVE Changing(p, q, x)
  <2>1. ASSUME NEW u \in (i + 1)..(q - 1), u \in Always(p) PROVE FALSE
    BY <1>1, <2>1
  <2>2. i \in 1..(q - 1)
    BY <1>1
  <2> QED
    BY <1>3, <2>1, <2>2 DEF Changing
<1> QED
  BY <1>2, <1>3

LEMMA ImpairedLeads ==
  ASSUME NEW p \in Seq(Steps), NEW i, NEW q, Leads(p, i, q)
  PROVE  /\ Impaired(p, i) => Impaired(p, q) \/ Is(p, i, "undo", "netem")
         /\ Is(p, i, "change", "netem") => Impaired(p, q)
BY ChangingLeads DEF Impaired

(* What has failed stays failed while a body and its stack run.            *)
LEMMA FailedGrows ==
  ASSUME BodyStep \/ Unwind \/ \E c \in Boxes : Landed(c)
  PROVE  failed \subseteq failed'
<1>1. CASE BodyStep
  BY <1>1 DEF BodyStep, Asked, Looked, Judged, Settled, OnlyEnds, InSomeCells, Deferred, Enter, Return, Answer,
         StartBox, TryBox, GoBox, AwaitBox, AddLink, AttachBox, RemoveBox, ListBox,
         CreateNet, TryCreateNet, DropNet, NetRemoved, SwapMain, ChangeMade, ChangeFailed, UndoNow, Disturb, Reserve,
         Well, Lost, Note
<1>2. CASE Unwind
  BY <1>2 DEF Unwind, PopBox, PopNet, NetRemoved, PopListed, PopMain, PopQuiet, PopTold, PopRestore, PopJoin, PopReady,
         PopMark, Over, Well, Lost, Note
<1>3. CASE \E c \in Boxes : Landed(c)
  BY <1>3 DEF Landed, Well
<1> QED
  BY <1>1, <1>2, <1>3

LEMMA TouchedActors ==
  ASSUME NEW x, NEW r, Touches(src, r, x), x # "netem"
  PROVE  "netem" \in r.actors => "netem" \in src.actors
<1>1. CASE x \in Actors
  <2>1. PICK as \in SUBSET Actors : r = [src EXCEPT !.actors = as] /\ as \ {x} = src.actors \ {x}
    BY <1>1 DEF Touches
  <2>2. r.actors = as \/ r.actors = src.actors
    BY <2>1
  <2> QED
    BY <2>1, <2>2
<1>2. CASE x \notin Actors
  BY <1>2 DEF Touches, Within
<1> QED
  BY <1>1, <1>2

(* netem is an actor of the segment: its restore takes it away.            *)
LEMMA NetemGone ==
  ASSUME Shape
  PROVE  "netem" \in Changes /\ "netem" \notin Restored(src, "netem", Was("netem")).actors
<1>1. "netem" \in Actors /\ "netem" \in Changes /\ "netem" \notin Edits
  BY DEF Actors, Changes, Edits, Features, Features4, Features6, Adverts
<1>2. Restored(src, "netem", Was("netem")) = ActorGone(src, "netem")
  BY <1>1 DEF Restored, IsEdit
<1> QED
  BY <1>1, <1>2 DEF ActorGone, Shape, TypeOK, Sources

LEMMA LossStays ==
  ASSUME Framed, NoLoss, BodyStep \/ Unwind \/ (\E c \in Boxes : Landed(c)), ~(ChangeMade /\ Cur.x = "netem")
  PROVE  NoLoss'
<1>1. CASE Troubled({"netem"})
  BY <1>1, FailedGrows DEF Troubled, NoLoss
<1>2. CASE "netem" \notin src.actors
  <2>1. CASE src' = src
    BY <1>2, <2>1 DEF NoLoss
  <2>2. CASE BodyStep /\ At("change")
    <3>1. Cur.x \in Changes
      BY <2>2, CurIs, StepTypes DEF At, Cur, Framed, Shape
    <3>2. CASE Cur.x = "netem"
      <4>1. ChangeFailed
        BY <2>2, <3>2, StepIs
      <4>2. <<"set", "netem">> \in failed'
        BY <3>2, <4>1 DEF ChangeFailed, Lost, Note
      <4>3. <<"set", "netem">>[2] = "netem"
        OBVIOUS
      <4> QED
        BY <4>2, <4>3 DEF NoLoss, Troubled
    <3>3. CASE Cur.x # "netem"
      <4>1. src' \in {src, Set(src, Cur.x)} \cup SetFailed(src, Cur.x) \cup SetFailedTwice(src, Cur.x)
        BY <2>2, StepIs DEF ChangeMade, ChangeFailed
      <4>2. src' = src \/ Touches(src, src', Cur.x)
        BY <3>1, <4>1, ChangedIs DEF Framed
      <4> QED
        BY <1>2, <3>3, <4>2, TouchedActors DEF NoLoss
    <3> QED
      BY <3>2, <3>3
  <2>3. CASE BodyStep /\ At("undo")
    <3>1. Cur.x \in Changes
      BY <2>3, CurIs, StepTypes DEF At, Cur, Framed, Shape
    <3>2. CASE Cur.x = "netem"
      <4>1. src' = Restored(src, "netem", Was("netem")) \/ <<"undo", "netem">> \in failed'
        BY <2>3, <3>2, StepIs DEF UndoNow, Lost, Note
      <4>2. <<"undo", "netem">>[2] = "netem"
        OBVIOUS
      <4> QED
        BY <4>1, <4>2, NetemGone DEF NoLoss, Troubled, Framed
    <3>3. CASE Cur.x # "netem"
      <4>1. src' \in {Restored(src, Cur.x, Was(Cur.x))} \cup RestoreLost(src, Cur.x, Was(Cur.x))
        BY <2>3, StepIs DEF UndoNow
      <4>2. src' = src \/ Touches(src, src', Cur.x)
        BY <3>1, <4>1, ChangedIs DEF Framed
      <4> QED
        BY <1>2, <3>3, <4>2, TouchedActors DEF NoLoss
    <3> QED
      BY <3>2, <3>3
  <2>4. CASE BodyStep /\ At("do")
    <3>1. src' \in {src, LeasesReset(src)} \cup ResetFailed(src)
      BY <2>4, StepIs DEF Disturb
    <3> QED
      BY <1>2, <3>1, ResetWithin DEF Within, NoLoss, Framed, Shape, TypeOK
  <2>5. CASE BodyStep /\ At("reserve")
    <3>1. Cur.x \in {"mac", "id"}
      BY <2>5, CurIs, StepTypes DEF At, Cur, Framed, Shape
    <3>2. src' \in {src, Reserved(src, Cur.x)} \cup ReserveFailed(src, Cur.x)
      BY <2>5, StepIs DEF Reserve
    <3> QED
      BY <1>2, <3>1, <3>2, ReserveWithin DEF Within, NoLoss, Framed, Shape, TypeOK
  <2>6. CASE PopQuiet \/ PopTold
    <3>1. /\ Top.x \in Changes
          /\ src' \in {src, Restored(src, Top.x, Was(Top.x))} \cup RestoreLost(src, Top.x, Was(Top.x))
          /\ \/ src' \in {src, Restored(src, Top.x, Was(Top.x))}
             \/ \E op : <<op, Top.x>> \in failed'
      BY <2>6 DEF PopQuiet, PopTold, PopRestore, Lost, Note
    <3>2. CASE Top.x = "netem"
      <4>1. \A op : <<op, "netem">>[2] = "netem"
        OBVIOUS
      <4> QED
        BY <1>2, <3>1, <3>2, <4>1, NetemGone DEF NoLoss, Troubled, Framed
    <3>3. CASE Top.x # "netem"
      <4>1. src' = src \/ Touches(src, src', Top.x)
        BY <3>1, ChangedIs DEF Framed
      <4> QED
        BY <1>2, <3>3, <4>1, TouchedActors DEF NoLoss
    <3> QED
      BY <3>2, <3>3
  <2>7. CASE \E c \in Boxes : Landed(c)
    BY <1>2, <2>7 DEF Landed, source, NoLoss
  <2> QED
    BY <2>1, <2>2, <2>3, <2>4, <2>5, <2>6, <2>7, BodyFrame, UnwindFrame
<1> QED
  BY <1>1, <1>2 DEF NoLoss

(* Each kind of cleanup has one action.                                    *)
LEMMA PopIs ==
  ASSUME Unwind, defers # <<>>
  PROVE  /\ (Top.op = "rm" => PopBox) /\ (Top.op = "down" => PopNet) /\ (Top.op = "listed" => PopListed)
         /\ (Top.op = "quiet" => PopQuiet) /\ (Top.op = "told" => PopTold \/ (PopMain /\ Top.x = Main))
         /\ (Top.op = "join" => PopJoin) /\ (Top.op = "ready" => PopReady) /\ (Top.op = "mark" => PopMark)
BY DEF Unwind, PopBox, PopNet, PopListed, PopMain, PopQuiet, PopTold, PopRestore, PopJoin, PopReady, PopMark, Over, Next1

LEMMA LiftTried ==
  ASSUME Framed,
         \/ UndoNow /\ Cur.x = "netem"
         \/ (PopQuiet \/ PopTold) /\ Top.x = "netem" /\ ("netem" \in done => NoLoss)
  PROVE  NoLoss'
<1>1. \A op : <<op, "netem">>[2] = "netem"
  OBVIOUS
<1>2. CASE UndoNow /\ Cur.x = "netem"
  <2>1. src' = Restored(src, "netem", Was("netem")) \/ <<"undo", "netem">> \in failed'
    BY <1>2 DEF UndoNow, Lost, Note
  <2> QED
    BY <1>1, <2>1, NetemGone DEF NoLoss, Troubled, Framed
<1>3. CASE (PopQuiet \/ PopTold) /\ Top.x = "netem" /\ ("netem" \in done => NoLoss)
  <2>1. \/ "netem" \in done /\ src' = src /\ failed' = failed
        \/ src' = Restored(src, "netem", Was("netem"))
        \/ \E op : <<op, "netem">> \in failed'
    BY <1>3 DEF PopQuiet, PopTold, PopRestore, Lost, Note, Well
  <2>2. CASE "netem" \in done /\ src' = src /\ failed' = failed
    BY <1>3, <2>2 DEF NoLoss, Troubled
  <2> QED
    BY <1>1, <2>1, <2>2, NetemGone DEF NoLoss, Troubled, Framed
<1> QED
  BY <1>2, <1>3

LEMMA LiftingBody ==
  ASSUME Framed, Lifting, BodyStep
  PROVE  Lifting'
<1>1. phase = "body" /\ InBody /\ Active /\ Prog' = Prog /\ defers \in Seq(Cleanups)
  BY BodyMoves DEF InBody, Active, Framed, Shape, Prog, TypeOK
<1>2. ChangeMade => At("change") /\ Cur.op = "change" /\ pc \in DOMAIN Prog
  BY DEF ChangeMade, At, Cur
<1>3. ASSUME InBody' PROVE NoLoss' \/ Impaired(Prog, pc')
  <2>1. Passes \/ (Out /\ UNCHANGED pc)
    BY <1>1, <1>3, MovesPass
  <2>2. CASE Passes
    <3>1. Prog \in Seq(Steps) /\ Leads(Prog, pc, pc')
      BY <2>2, RulesAre DEF Passes, Framed, Shape
    <3>2. CASE NoLoss
      BY <1>2, <3>1, <3>2, LossStays, ImpairedLeads DEF Is, Cur
    <3>3. CASE Impaired(Prog, pc)
      <4>1. Is(Prog, pc, "undo", "netem") => UndoNow /\ Cur.x = "netem"
        BY <1>1, StepIs DEF At, Is, Cur
      <4> QED
        BY <3>1, <3>3, <4>1, ImpairedLeads, LiftTried
    <3> QED
      BY <1>1, <3>2, <3>3 DEF Lifting
  <2>3. CASE Out /\ UNCHANGED pc
    BY <1>1, <1>2, <2>3, LossStays DEF Out, Lifting
  <2> QED
    BY <2>1, <2>2, <2>3
<1>4. ASSUME "netem" \in done' PROVE NoLoss'
  <2>1. CASE UndoNow /\ Cur.x = "netem"
    BY <2>1, LiftTried
  <2>2. CASE ~(UndoNow /\ Cur.x = "netem")
    <3>1. "netem" \in done /\ ~(ChangeMade /\ Cur.x = "netem")
      BY <1>4, <2>2, StepIs, BodyFrame DEF ChangeMade, ChangeFailed, UndoNow
    <3> QED
      BY <1>1, <3>1, LossStays DEF Lifting
  <2> QED
    BY <2>1, <2>2
<1>5. ASSUME NEW d \in DOMAIN defers', defers'[d].op = "join" PROVE LiftAbove(d)'
  <2>1. CASE defers' = defers /\ ~At("later") /\ ~ChangeMade
    <3>1. LiftAbove(d) /\ ~LiftNext
      BY <1>1, <1>5, <2>1 DEF Lifting, LiftNext, At, Is
    <3>2. NoLoss \/ \E e \in DOMAIN defers : e > d /\ defers[e] \in Lifts
      BY <3>1 DEF LiftAbove
    <3> QED
      BY <2>1, <3>2, LossStays DEF LiftAbove
  <2>2. ASSUME NEW D \in Cleanups, defers' = Append(defers, D),
               \/ D = [op |-> Cur.y, x |-> Cur.x] /\ (At("later") \/ At("change"))
               \/ D = [op |-> "mark", x |-> ""] /\ At("enter")
        PROVE  LiftAbove(d)'
    <3> DEFINE n == Len(defers) + 1
    <3>1. /\ n \in DOMAIN defers' /\ defers'[n] = D /\ Len(defers') = n
          /\ \A e \in DOMAIN defers : e \in DOMAIN defers' /\ defers'[e] = defers[e] /\ e < n
          /\ d \in DOMAIN defers \/ d = n
      <4>1. /\ Len(defers') = n /\ defers'[n] = D /\ DOMAIN defers' = 1..n /\ DOMAIN defers = 1..Len(defers)
            /\ Len(defers) \in Nat
        BY <1>1, <2>2, AppendIs
      <4>2. \A e \in DOMAIN defers : defers'[e] = defers[e]
        BY <1>1, <2>2, AppendIs
      <4>3. d \in 1..n
        BY <1>5, <4>1
      <4> QED
        BY <4>1, <4>2, <4>3
    <3> HIDE DEF n
    <3>2. CASE d \in DOMAIN defers
      <4>1. LiftAbove(d)
        BY <1>1, <1>5, <3>1, <3>2 DEF Lifting
      <4>2. CASE \E e \in DOMAIN defers : e > d /\ defers[e] \in Lifts
        BY <3>1, <4>2 DEF LiftAbove
      <4>3. CASE LiftNext
        <5>1. Cur.op = "later" /\ Cur.x = "netem" /\ Cur.y = "quiet"
          BY <4>3 DEF LiftNext, Is, Cur
        <5>2. ~At("enter") /\ [op |-> Cur.y, x |-> Cur.x] = [op |-> "quiet", x |-> "netem"]
          BY <5>1 DEF At, Cur
        <5>3. D = [op |-> "quiet", x |-> "netem"]
          BY <2>2, <5>2
        <5> QED
          BY <3>1, <3>2, <5>3 DEF LiftAbove, Lifts
      <4>4. CASE NoLoss /\ ChangeMade /\ Cur.x = "netem"
        <5>1. Cur \in Steps /\ Cur.op = "change"
          BY <1>1, <1>2, <4>4, CurIs DEF Framed, Shape
        <5>2. Cur.y \in {"quiet", "told"}
          BY <5>1, StepTypes
        <5>3. D = [op |-> Cur.y, x |-> "netem"]
          BY <1>2, <2>2, <4>4 DEF At, Cur
        <5> QED
          BY <3>1, <3>2, <5>2, <5>3 DEF LiftAbove, Lifts
      <4>5. CASE NoLoss /\ ~(ChangeMade /\ Cur.x = "netem")
        BY <4>5, LossStays DEF LiftAbove
      <4> QED
        BY <4>1, <4>2, <4>3, <4>4, <4>5 DEF LiftAbove
    <3>3. CASE d = n
      <4>1. D.op = "join"
        BY <1>5, <3>1, <3>3
      <4>2. Cur.y = "join" /\ (At("later") \/ At("change"))
        <5>1. [op |-> "mark", x |-> ""].op = "mark" /\ [op |-> Cur.y, x |-> Cur.x].op = Cur.y
          OBVIOUS
        <5>2. D # [op |-> "mark", x |-> ""]
          BY <4>1, <5>1
        <5> QED
          BY <2>2, <4>1, <5>1, <5>2
      <4>3. At("later")
        <5>1. SUFFICES ASSUME At("change") PROVE FALSE
          BY <4>2
        <5>2. Cur \in Steps /\ Cur.op = "change"
          BY <1>1, <5>1, CurIs DEF At, Cur, Framed, Shape
        <5> QED
          BY <4>2, <5>2, StepTypes
      <4>4. Is(Prog, pc + 1, "later", "netem") /\ Prog[pc + 1].y = "quiet"
        <5>1. LiftsFirst(Prog)
          BY RulesAre DEF Framed, Shape
        <5>2. pc \in DOMAIN Prog /\ Prog[pc].op = "later" /\ Prog[pc].y = "join"
          BY <4>2, <4>3 DEF At, Cur
        <5> QED
          BY <5>1, <5>2 DEF LiftsFirst
      <4>5. pc' = pc + 1 /\ phase' = "body"
        BY <1>1, <4>3, StepIs DEF Deferred, Proceed
      <4>6. LiftNext'
        BY <1>1, <4>4, <4>5 DEF LiftNext, Cur
      <4> QED
        BY <3>1, <3>3, <4>6 DEF LiftAbove
    <3> QED
      BY <3>1, <3>2, <3>3
  <2>3. CASE defers' = Append(defers, [op |-> Cur.y, x |-> Cur.x]) /\ (At("later") \/ At("change"))
    BY <2>2, <2>3, PushedIs DEF Framed, Shape
  <2>4. CASE defers' = Append(defers, [op |-> "mark", x |-> ""]) /\ At("enter")
    BY <2>2, <2>4, PushedIs DEF Framed, Shape
  <2> QED
    BY <1>2, <2>1, <2>3, <2>4, BodyPushes
<1> QED
  BY <1>1, <1>3, <1>4, <1>5 DEF Lifting

(* The stack without its top.                                              *)
LEMMA PopLeaves ==
  ASSUME NEW s \in Seq(Cleanups), s # <<>>
  PROVE  LET r == SubSeq(s, 1, Len(s) - 1) IN
         /\ Len(s) \in Nat /\ Len(s) \in DOMAIN s /\ DOMAIN s = 1..Len(s) /\ s[Len(s)] \in Cleanups
         /\ Len(r) = Len(s) - 1 /\ DOMAIN r = 1..(Len(s) - 1)
         /\ \A e \in DOMAIN r : e \in DOMAIN s /\ e < Len(s) /\ r[e] = s[e]
<1>1. Len(s) \in Nat /\ Len(s) > 0 /\ DOMAIN s = 1..Len(s) /\ \A e \in 1..Len(s) : s[e] \in Cleanups
  OBVIOUS
<1>2. Len(s) - 1 \in 0..Len(s)
  BY <1>1
<1>3. LET r == SubSeq(s, 1, Len(s) - 1) IN Len(r) = Len(s) - 1 /\ DOMAIN r = 1..(Len(s) - 1)
  BY <1>1, <1>2
<1>4. \A e \in 1..(Len(s) - 1) : SubSeq(s, 1, Len(s) - 1)[e] = s[e]
  BY <1>1, <1>2
<1> QED
  BY <1>1, <1>3, <1>4

LEMMA LiftingUnwind ==
  ASSUME Framed, Lifting, Unwind
  PROVE  Lifting'
<1>1. CASE Over
  BY <1>1 DEF Over, Lifting, Active, InBody
<1>2. CASE Popping /\ (Resumes \/ UNCHANGED <<phase, pc>>)
  <2>1. /\ Active /\ Prog' = Prog /\ phase # "body" /\ ~ChangeMade
        /\ defers \in Seq(Cleanups) /\ defers # <<>> /\ defers' = SubSeq(defers, 1, Len(defers) - 1)
    BY <1>2 DEF Popping, Pop, Active, Prog, ChangeMade, At, Framed, Shape, TypeOK
  <2>2. ASSUME (PopQuiet \/ PopTold) /\ Top.x = "netem" PROVE NoLoss'
    BY <2>1, <2>2, LiftTried DEF Lifting
  <2>3. ASSUME NoLoss PROVE NoLoss'
    BY <2>1, <2>3, LossStays
  <2>4. ASSUME InBody', ~NoLoss' PROVE Impaired(Prog, pc')
    <3>1. phase = "return" /\ pc \in DOMAIN Prog /\ Cur.op = "return" /\ Impaired(Prog, pc)
      BY <1>2, <2>1, <2>3, <2>4 DEF Popping, Resumes, InBody, Framed, Places, Lifting
    <3>2. CASE Resumes
      <4>1. Prog \in Seq(Steps) /\ Leads(Prog, pc, pc')
        BY <3>1, <3>2, RulesAre DEF Resumes, Leads, Framed, Shape
      <4>2. ~Is(Prog, pc, "undo", "netem")
        BY <3>1 DEF Is, Cur
      <4> QED
        BY <3>1, <4>1, <4>2, ImpairedLeads
    <3>3. CASE UNCHANGED <<phase, pc>>
      BY <3>1, <3>3
    <3> QED
      BY <1>2, <3>2, <3>3
  <2>5. ASSUME "netem" \in done' PROVE NoLoss'
    <3>1. CASE "netem" \in done
      BY <2>1, <2>3, <3>1 DEF Lifting
    <3>2. CASE (PopQuiet \/ PopTold) /\ done' # done
      <4>1. done' = done \cup {Top.x}
        BY <3>2 DEF PopQuiet, PopTold, PopRestore
      <4> QED
        BY <2>2, <2>5, <3>1, <3>2, <4>1
    <3> QED
      BY <2>5, <3>1, <3>2, UnwindFrame
  <2>6. ASSUME NEW d \in DOMAIN defers', defers'[d].op = "join" PROVE LiftAbove(d)'
    <3>1. /\ d \in DOMAIN defers /\ d < Len(defers) /\ defers[d].op = "join"
          /\ Len(defers) \in Nat /\ DOMAIN defers = 1..Len(defers) /\ DOMAIN defers' = 1..(Len(defers) - 1)
          /\ \A e \in DOMAIN defers' : defers'[e] = defers[e]
      BY <2>1, <2>6, PopLeaves
    <3>2. LiftAbove(d)
      BY <2>1, <3>1 DEF Lifting
    <3>3. CASE NoLoss
      BY <2>3, <3>3 DEF LiftAbove
    <3>4. ASSUME NEW e \in DOMAIN defers, e > d, defers[e] \in Lifts PROVE LiftAbove(d)'
      <4>1. CASE e < Len(defers)
        BY <3>1, <3>4, <4>1 DEF LiftAbove
      <4>2. CASE e = Len(defers)
        <5>1. Top.x = "netem" /\ Top.op \in {"quiet", "told"}
          BY <3>4, <4>2 DEF Top, Lifts
        <5>2. PopQuiet \/ PopTold
          BY <2>1, <5>1, PopIs DEF Main
        <5> QED
          BY <2>2, <5>1, <5>2 DEF LiftAbove
      <4> QED
        BY <3>1, <4>1, <4>2
    <3> QED
      BY <2>1, <3>1, <3>2, <3>3, <3>4 DEF LiftAbove, LiftNext
  <2> QED
    BY <2>1, <2>4, <2>5, <2>6 DEF Lifting
<1> QED
  BY <1>1, <1>2, UnwindMoves

LEMMA LiftingKept == Framed /\ Lifting /\ [Next]_vars => Lifting'
<1> SUFFICES ASSUME Framed, Lifting, [Next]_vars PROVE Lifting'
  OBVIOUS
<1>1. CASE \E c \in Boxes : Landed(c)
  <2>1. UNCHANGED <<body, pc, phase, defers, done>> /\ Prog' = Prog
    BY <1>1 DEF Landed, Prog, source
  <2>2. InBody' = InBody /\ Active' = Active /\ LiftNext' = LiftNext
    BY <2>1 DEF InBody, Active, LiftNext, Prog, Cur
  <2>3. NoLoss => NoLoss' \/ ~Active
    <3>1. CASE ChangeMade
      BY <1>1, <3>1 DEF ChangeMade, Landed, Push, progress
    <3> QED
      BY <1>1, <3>1, LossStays
  <2>4. \A d : Active /\ LiftAbove(d) => LiftAbove(d)'
    BY <2>1, <2>2, <2>3 DEF LiftAbove
  <2> QED
    BY <2>1, <2>2, <2>3, <2>4 DEF Lifting, InBody, Active
<1>2. CASE Begun
  <2>1. NoLoss'
    BY <1>2 DEF Begun, Begin, Ready, NoLoss
  <2> QED
    BY <2>1 DEF Lifting, LiftAbove
<1>3. CASE Outside
  BY <1>3 DEF Outside, Lifting, Active, InBody
<1>4. CASE Untouched
  <2>1. UNCHANGED <<body, pc, phase, defers, done, src, failed>> /\ Prog' = Prog
    BY <1>4 DEF Untouched, Prog
  <2>2. InBody' = InBody /\ Active' = Active /\ LiftNext' = LiftNext /\ NoLoss' = NoLoss
    BY <2>1 DEF InBody, Active, LiftNext, Prog, Cur, NoLoss, Troubled
  <2>3. \A d : LiftAbove(d) => LiftAbove(d)'
    BY <2>1, <2>2 DEF LiftAbove
  <2> QED
    BY <2>1, <2>2, <2>3 DEF Lifting
<1> QED
  BY <1>1, <1>2, <1>3, <1>4, LiftingBody, LiftingUnwind, StepKinds

(* Whatever way a body ends, nothing waits for a docker run on its way     *)
(* before the loss it runs under has been lifted or lifting it has failed, *)
(* for every catalog whose bodies defer the lift right above the wait and  *)
(* wait themselves only behind a lift.                                     *)
THEOREM LiftBeforeWaitHolds == Spec => []LiftBeforeWait
<1>1. Init => Lifting
  BY DEF Init, Lifting, InBody, Active
<1>2. Framed /\ Lifting => LiftBeforeWait
  <2>1. SUFFICES ASSUME Framed, Lifting, Next1("join") \/ At("await") PROVE NoLoss
    BY DEF LiftBeforeWait, NoLoss
  <2>2. CASE Next1("join")
    <3>1. phase # "body" /\ Active /\ Len(defers) \in DOMAIN defers /\ defers[Len(defers)].op = "join"
          /\ \A e \in DOMAIN defers : ~(e > Len(defers))
      BY <2>1, <2>2, PopLeaves DEF Next1, Unwinding, Top, Active, Framed, Shape, TypeOK
    <3>2. LiftAbove(Len(defers))
      BY <2>1, <3>1 DEF Lifting
    <3> QED
      BY <3>1, <3>2 DEF LiftAbove, LiftNext
  <2>3. CASE At("await")
    <3>1. LiftsFirst(Prog)
      BY <2>1, RulesAre DEF Framed, Shape
    <3>2. ~Impaired(Prog, pc)
      BY <2>3, <3>1 DEF LiftsFirst, At
    <3> QED
      BY <2>1, <2>3, <3>2 DEF Lifting, InBody, At
  <2> QED
    BY <2>1, <2>2, <2>3
<1>3. Framed /\ Lifting /\ [Next]_vars => (Framed /\ Lifting)'
  BY FramedKept, LiftingKept
<1> QED
  BY <1>1, <1>2, <1>3, InitFramed, PTL DEF Spec

-----------------------------------------------------------------------------
(* What a body leaves on the docker host.                                  *)
OnStack(op, x) == \E d \in DOMAIN defers : defers[d] = [op |-> op, x |-> x]

(* While a body and its stack run, and at an end that was no kill.         *)
Own == Active \/ Ended

-----------------------------------------------------------------------------
(* The cleanup stack.                                                      *)

LEMMA StackGrows ==
  ASSUME Framed, BodyStep
  PROVE  /\ \A d \in DOMAIN defers : d \in DOMAIN defers' /\ defers'[d] = defers[d] /\ d < Len(defers) + 1
         /\ \A d \in DOMAIN defers' :
              \/ d \in DOMAIN defers
              \/ d = Len(defers) + 1 /\ At("later") /\ defers'[d] = [op |-> Cur.y, x |-> Cur.x]
              \/ defers'[d].op \in {"quiet", "told", "mark"}
         /\ At("later") => Len(defers) + 1 \in DOMAIN defers' /\ defers'[Len(defers) + 1] = [op |-> Cur.y, x |-> Cur.x]
<1>1. defers \in Seq(Cleanups) /\ DOMAIN defers = 1..Len(defers) /\ Len(defers) \in Nat
  BY DEF Framed, Shape, TypeOK
<1>2. CASE defers' = defers /\ ~At("later")
  BY <1>1, <1>2
<1>3. CASE defers' = Append(defers, [op |-> Cur.y, x |-> Cur.x]) /\ (At("later") \/ At("change"))
  <2> DEFINE D == [op |-> Cur.y, x |-> Cur.x]
  <2>1. D \in Cleanups /\ D.op = Cur.y
    BY <1>3, PushedIs DEF Framed, Shape
  <2>2. At("change") => D.op \in {"quiet", "told"}
    <3>1. SUFFICES ASSUME At("change") PROVE D.op \in {"quiet", "told"}
      OBVIOUS
    <3>2. Cur \in Steps /\ Cur.op = "change"
      BY <3>1, CurIs DEF At, Cur, Framed, Shape
    <3> QED
      BY <2>1, <3>2, StepTypes
  <2> HIDE DEF D
  <2>3. defers' = Append(defers, D)
    BY <1>3 DEF D
  <2>4. /\ defers'[Len(defers) + 1] = D /\ DOMAIN defers' = 1..(Len(defers) + 1)
        /\ \A d \in DOMAIN defers : defers'[d] = defers[d]
    BY <1>1, <2>1, <2>3, AppendIs
  <2>5. D = [op |-> Cur.y, x |-> Cur.x]
    BY DEF D
  <2> QED
    BY <1>1, <1>3, <2>2, <2>4, <2>5
<1>4. CASE defers' = Append(defers, [op |-> "mark", x |-> ""]) /\ At("enter")
  <2> DEFINE D == [op |-> "mark", x |-> ""]
  <2>1. D \in Cleanups /\ D.op = "mark" /\ defers' = Append(defers, D) /\ ~At("later")
    BY <1>4, PushedIs DEF Framed, Shape, At
  <2> HIDE DEF D
  <2>2. /\ defers'[Len(defers) + 1] = D /\ DOMAIN defers' = 1..(Len(defers) + 1)
        /\ \A d \in DOMAIN defers : defers'[d] = defers[d]
    BY <1>1, <2>1, AppendIs
  <2> QED
    BY <1>1, <2>1, <2>2
<1> QED
  BY <1>2, <1>3, <1>4, BodyPushes

LEMMA StackShrinks ==
  ASSUME Framed, Popping
  PROVE  /\ \A d \in DOMAIN defers' : d \in DOMAIN defers /\ defers'[d] = defers[d] /\ d < Len(defers)
         /\ \A d \in DOMAIN defers : d \in DOMAIN defers' \/ (d = Len(defers) /\ defers[d] = Top)
<1>1. defers \in Seq(Cleanups) /\ defers # <<>> /\ defers' = SubSeq(defers, 1, Len(defers) - 1)
  BY DEF Framed, Shape, TypeOK, Popping, Pop
<1> QED
  BY <1>1, PopLeaves DEF Top

(* What a body has deferred stays on the stack while the body goes on, and *)
(* a cleanup leaves it by being run.                                       *)
LEMMA Stacked ==
  ASSUME Framed, NEW op, NEW x
  PROVE  /\ BodyStep /\ OnStack(op, x) => OnStack(op, x)'
         /\ BodyStep /\ At("later") /\ Cur.y = op /\ Cur.x = x => OnStack(op, x)'
         /\ Popping /\ OnStack(op, x) => OnStack(op, x)' \/ Top = [op |-> op, x |-> x]
         /\ Popping /\ OnStack(op, x)' => OnStack(op, x)
<1>1. BodyStep /\ OnStack(op, x) => OnStack(op, x)'
  BY StackGrows DEF OnStack
<1>2. BodyStep /\ At("later") /\ Cur.y = op /\ Cur.x = x => OnStack(op, x)'
  BY StackGrows DEF OnStack
<1>3. Popping /\ OnStack(op, x) => OnStack(op, x)' \/ Top = [op |-> op, x |-> x]
  BY StackShrinks DEF OnStack
<1>4. Popping /\ OnStack(op, x)' => OnStack(op, x)
  BY StackShrinks DEF OnStack
<1> QED
  BY <1>1, <1>2, <1>3, <1>4

-----------------------------------------------------------------------------
(* What the rules say of a place, and of the next one.                     *)

LEMMA DefersLeads ==
  ASSUME NEW p \in Seq(Steps), NEW i, NEW q, Leads(p, i, q), NEW op, NEW x, Defers(p, q, op, x)
  PROVE  /\ Defers(p, i, op, x) \/ (Is(p, i, "later", x) /\ p[i].y = op)
         /\ p[i].op # "return"
<1>1. i \in 1..Len(p) /\ q \in Nat /\ i < q /\ \A k \in Always(p) : k < q => k \in 1..Len(p) /\ k <= i
  BY LeadsIs
<1>2. PICK k \in Always(p) : /\ k < q /\ p[k].op = "later" /\ p[k].y = op /\ p[k].x = x
                             /\ \A r \in (k + 1)..(q - 1) : p[r].op # "return"
  BY DEF Defers
<1>3. k \in 1..Len(p) /\ k <= i
  BY <1>1, <1>2
<1>4. CASE k = i
  BY <1>2, <1>3, <1>4 DEF Is
<1>5. CASE k < i
  <2>1. i \in (k + 1)..(q - 1)
    BY <1>1, <1>3, <1>5
  <2>2. \A r \in (k + 1)..(i - 1) : r \in (k + 1)..(q - 1)
    BY <1>1, <1>3
  <2> QED
    BY <1>2, <1>5, <2>1, <2>2 DEF Defers
<1> QED
  BY <1>1, <1>3, <1>4, <1>5

(* The place right before the next one, when no run skips it.              *)
LEMMA NextPlace ==
  ASSUME NEW p \in Seq(Steps), NEW i, NEW q, Leads(p, i, q), NEW k \in Always(p), k + 1 = q
  PROVE  k = i
<1>1. k \in 1..Len(p) /\ Len(p) \in Nat
  BY DEF Always
<1>2. i \in 1..Len(p) /\ q \in Nat /\ i < q /\ (k < q => k <= i)
  BY LeadsIs
<1> QED
  BY <1>1, <1>2

LEMMA NamedLeads ==
  ASSUME NEW p \in Seq(Steps), NEW i, NEW q, Leads(p, i, q), NEW c, Named(p, q, c)
  PROVE  Is(p, i, "list", c) \/ (Named(p, i, c) /\ ~Is(p, i, "unlist", c))
<1>1. i \in 1..Len(p) /\ q \in Nat /\ i < q /\ \A k \in Always(p) : k < q => k \in 1..Len(p) /\ k <= i
  BY LeadsIs
<1>2. PICK k \in Always(p) : k < q /\ Is(p, k, "list", c) /\ \A u \in (k + 1)..(q - 1) : ~Is(p, u, "unlist", c)
  BY DEF Named
<1>3. k \in 1..Len(p) /\ k <= i
  BY <1>1, <1>2
<1>4. CASE k = i
  BY <1>2, <1>4
<1>5. CASE k < i
  <2>1. i \in (k + 1)..(q - 1)
    BY <1>1, <1>3, <1>5
  <2>2. \A u \in (k + 1)..(i - 1) : u \in (k + 1)..(q - 1)
    BY <1>1, <1>3
  <2> QED
    BY <1>2, <1>5, <2>1, <2>2 DEF Named
<1> QED
  BY <1>1, <1>3, <1>4, <1>5

LEMMA OnPreviousLeads ==
  ASSUME NEW p \in Seq(Steps), NEW i, NEW q, Leads(p, i, q)
  PROVE  /\ OnPrevious(p, i) => OnPrevious(p, q) \/ Is(p, i, "do", "upgrade-plugin")
         /\ Is(p, i, "do", "install-previous") => OnPrevious(p, q)
<1>1. i \in 1..Len(p) /\ q \in Nat /\ i < q /\ \A k \in Always(p) : k < q => k \in 1..Len(p) /\ k <= i
  BY LeadsIs
<1>2. ASSUME OnPrevious(p, i), ~Is(p, i, "do", "upgrade-plugin") PROVE OnPrevious(p, q)
  <2>1. PICK m \in 1..(i - 1) : /\ Is(p, m, "do", "install-previous")
                                /\ \A u \in (m + 1)..(i - 1) : ~(u \in Always(p) /\ Is(p, u, "do", "upgrade-plugin"))
    BY <1>2 DEF OnPrevious
  <2>2. ASSUME NEW u \in (m + 1)..(q - 1), u \in Always(p), Is(p, u, "do", "upgrade-plugin") PROVE FALSE
    <3>1. u <= i /\ u # i
      BY <1>1, <1>2, <2>1, <2>2
    <3>2. u \in (m + 1)..(i - 1)
      BY <1>1, <2>1, <3>1
    <3> QED
      BY <2>1, <2>2, <3>2
  <2>3. m \in 1..(q - 1)
    BY <1>1, <2>1
  <2> QED
    BY <2>1, <2>2, <2>3 DEF OnPrevious
<1>3. ASSUME Is(p, i, "do", "install-previous") PROVE OnPrevious(p, q)
  <2>1. ASSUME NEW u \in (i + 1)..(q - 1), u \in Always(p) PROVE FALSE
    BY <1>1, <2>1
  <2>2. i \in 1..(q - 1)
    BY <1>1
  <2> QED
    BY <1>3, <2>1, <2>2 DEF OnPrevious
<1> QED
  BY <1>2, <1>3

(* Behind the body's last step.                                            *)
LEMMA OnPreviousEnds ==
  ASSUME NEW p \in Seq(Steps), NEW i \in Nat, i > 0, i \notin DOMAIN p, OnPrevious(p, i)
  PROVE  OnPrevious(p, Len(p) + 1)
<1>1. PICK m \in 1..(i - 1) : /\ Is(p, m, "do", "install-previous")
                              /\ \A u \in (m + 1)..(i - 1) : ~(u \in Always(p) /\ Is(p, u, "do", "upgrade-plugin"))
  BY DEF OnPrevious
<1>2. m \in 1..Len(p) /\ i > Len(p) /\ Len(p) \in Nat
  BY <1>1 DEF Is
<1>3. m \in 1..((Len(p) + 1) - 1) /\ \A u \in (m + 1)..((Len(p) + 1) - 1) : u \in (m + 1)..(i - 1)
  BY <1>2
<1> QED
  BY <1>1, <1>3 DEF OnPrevious

-----------------------------------------------------------------------------
(* What a body that is at a place has deferred and has named.              *)

DeferLive == phase = "body" => \A op, x : Defers(Prog, pc, op, x) => OnStack(op, x)
NamedLive == InBody => \A c : Named(Prog, pc, c) => c \in listed

(* A container taken from the list has been removed right before.          *)
Rid(c) == on[c] = {} \/ <<"rm", c>> \in failed \/ OnStack("rm", c)
RidBefore ==
  phase = "body" => \A c \in Boxes : \A k \in Always(Prog) : k + 1 = pc /\ Is(Prog, k, "remove", c) => Rid(c)

(* The steps that go on in the same function.                              *)
LEMMA GoesOn ==
  ASSUME Framed, BodyStep, phase' = "body"
  PROVE  /\ Prog \in Seq(Steps) /\ Prog' = Prog /\ Leads(Prog, pc, pc') /\ phase = "body"
         /\ pc \in DOMAIN Prog /\ Cur \in Steps /\ \A op : At(op) <=> Cur.op = op
<1>1. phase = "body" /\ body' = body /\ Onward
  BY BodyMoves DEF Onward, Out, Ending, Framed, Shape
<1>2. pc \in DOMAIN Prog /\ Prog' = Prog /\ Prog \in Seq(Steps) /\ Cur \in Steps
  BY <1>1, CurIs, RulesAre DEF Onward, Prog, Framed, Shape
<1> QED
  BY <1>1, <1>2 DEF Onward, Leads, At, Cur

(* An inner function that has returned.                                    *)
LEMMA ComesBack ==
  ASSUME Framed, Unwind, phase' = "body"
  PROVE  /\ Prog \in Seq(Steps) /\ Prog' = Prog /\ Leads(Prog, pc, pc') /\ phase = "return"
         /\ Popping /\ Resumes /\ Prog[pc].op = "return" /\ UNCHANGED <<on, listed, plugin, found>>
<1>1. Popping /\ Resumes /\ phase = "return"
  BY UnwindMoves DEF Popping, Resumes, Over
<1>2. pc \in DOMAIN Prog /\ Prog[pc].op = "return" /\ pc' = pc + 1
  BY <1>1 DEF Resumes, Framed, Places, Cur
<1>3. Prog' = Prog /\ UNCHANGED <<listed, plugin, found>>
  BY UnwindFrame DEF Prog
<1>4. UNCHANGED on
  <2>1. PopBox \/ PopListed => UNCHANGED phase
    BY DEF PopBox, PopListed, Popped
  <2> QED
    BY <1>1, <2>1, UnwindFrame
<1> QED
  BY <1>1, <1>2, <1>3, <1>4, RulesAre DEF Leads, Framed, Shape

LEMMA Idle ==
  ASSUME (\E c \in Boxes : Landed(c)) \/ Untouched
  PROVE  /\ UNCHANGED <<body, pc, phase, verdict, defers, failed, found, listed, nets, main, plugin>> /\ Prog' = Prog
         /\ starting' \subseteq starting
         /\ \A op, x : OnStack(op, x)' <=> OnStack(op, x)
<1>1. CASE \E c \in Boxes : Landed(c)
  BY <1>1 DEF Landed, Well, Alone, Prog, OnStack
<1>2. CASE Untouched
  BY <1>2 DEF Untouched, Prog, OnStack
<1> QED
  BY <1>1, <1>2

LEMMA DeferLiveKept == Framed /\ DeferLive /\ [Next]_vars => DeferLive'
<1> SUFFICES ASSUME Framed, DeferLive, [Next]_vars, phase' = "body", NEW op, NEW x, Defers(Prog', pc', op, x)
             PROVE  OnStack(op, x)'
  BY DEF DeferLive
<1>1. CASE BodyStep
  <2>1. /\ Prog \in Seq(Steps) /\ Prog' = Prog /\ Leads(Prog, pc, pc') /\ phase = "body"
        /\ \A o : At(o) <=> Cur.op = o
    BY <1>1, GoesOn
  <2>2. Defers(Prog, pc, op, x) \/ (Is(Prog, pc, "later", x) /\ Prog[pc].y = op)
    BY <2>1, DefersLeads
  <2>3. CASE Defers(Prog, pc, op, x)
    BY <1>1, <2>1, <2>3, Stacked DEF DeferLive
  <2>4. CASE Is(Prog, pc, "later", x) /\ Prog[pc].y = op
    BY <1>1, <2>1, <2>4, Stacked DEF Is, Cur
  <2> QED
    BY <2>2, <2>3, <2>4
<1>2. CASE Unwind
  BY <1>2, ComesBack, DefersLeads
<1>3. CASE (\E c \in Boxes : Landed(c)) \/ Untouched
  BY <1>3, Idle DEF DeferLive
<1>4. CASE Begun
  <2>1. pc' = 1 /\ Prog' = Prog /\ Prog \in Seq(Steps)
    BY <1>4, RulesAre DEF Begun, Begin, Framed, Places, Shape, Prog
  <2>2. \A k \in Always(Prog) : ~(k < 1)
    BY <2>1 DEF Always
  <2> QED
    BY <2>1, <2>2 DEF Defers
<1> QED
  BY <1>1, <1>2, <1>3, <1>4, StepKinds DEF Outside

LEMMA NamedLiveKept == Framed /\ NamedLive /\ [Next]_vars => NamedLive'
<1> SUFFICES ASSUME Framed, NamedLive, [Next]_vars, InBody', NEW c, Named(Prog', pc', c)
             PROVE  c \in listed'
  BY DEF NamedLive
<1>1. CASE BodyStep /\ phase' = "body"
  <2>1. /\ Prog \in Seq(Steps) /\ Prog' = Prog /\ Leads(Prog, pc, pc') /\ phase = "body"
        /\ \A o : At(o) <=> Cur.op = o
    BY <1>1, GoesOn
  <2>2. Is(Prog, pc, "list", c) \/ (Named(Prog, pc, c) /\ ~Is(Prog, pc, "unlist", c))
    BY <2>1, NamedLeads
  <2>3. CASE Is(Prog, pc, "list", c)
    BY <1>1, <2>1, <2>3, StepIs DEF Is, Cur, ListBox
  <2>4. CASE Named(Prog, pc, c) /\ ~Is(Prog, pc, "unlist", c)
    <3>1. c \in listed
      BY <2>1, <2>4 DEF NamedLive, InBody
    <3>2. ~(At("unlist") /\ Cur.x = c)
      BY <2>4 DEF Is, At, Cur
    <3> QED
      BY <1>1, <3>1, <3>2, StepIs, BodyFrame DEF ListBox
  <2> QED
    BY <2>2, <2>3, <2>4
<1>2. CASE BodyStep /\ phase' = "return"
  <2>1. phase = "body" /\ pc' = pc /\ Prog' = Prog /\ At("return")
    BY <1>2, BodyMoves DEF Onward, Out, Ending, Framed, Shape, Prog, At, Cur
  <2>2. listed' = listed
    BY <1>2, <2>1, BodyFrame DEF At
  <2> QED
    BY <2>1, <2>2 DEF NamedLive, InBody
<1>3. CASE Unwind /\ phase' = "body"
  <2>1. /\ Prog \in Seq(Steps) /\ Prog' = Prog /\ Leads(Prog, pc, pc') /\ phase = "return"
        /\ Prog[pc].op = "return" /\ listed' = listed
    BY <1>3, ComesBack
  <2>2. Named(Prog, pc, c)
    BY <2>1, NamedLeads DEF Is
  <2> QED
    BY <2>1, <2>2 DEF NamedLive, InBody
<1>4. CASE Unwind /\ phase' = "return"
  <2>1. phase = "return" /\ pc' = pc /\ Prog' = Prog /\ listed' = listed
    BY <1>4, UnwindMoves, UnwindFrame DEF Over, Popping, Resumes, Prog
  <2> QED
    BY <2>1 DEF NamedLive, InBody
<1>5. CASE (\E b \in Boxes : Landed(b)) \/ Untouched
  BY <1>5, Idle DEF NamedLive, InBody
<1>6. CASE Begun
  <2>1. pc' = 1 /\ Prog' = Prog /\ Prog \in Seq(Steps)
    BY <1>6, RulesAre DEF Begun, Begin, Framed, Places, Shape, Prog
  <2>2. \A k \in Always(Prog) : ~(k < 1)
    BY <2>1 DEF Always
  <2> QED
    BY <2>1, <2>2 DEF Named
<1> QED
  BY <1>1, <1>2, <1>3, <1>4, <1>5, <1>6, StepKinds DEF Outside, InBody

(* The steps that leave a body's things to look after.                     *)
LEMMA Owned ==
  ASSUME Framed, [Next]_vars, Own'
  PROVE  \/ BodyStep /\ phase = "body"
         \/ Unwind /\ phase \in {"return", "unwind"}
         \/ Begun
         \/ ((\E c \in Boxes : Landed(c)) \/ Untouched) /\ Own
<1>1. CASE BodyStep
  BY <1>1, BodyMoves DEF Framed, Shape
<1>2. CASE Unwind
  BY <1>2, UnwindMoves DEF Over, Popping
<1>3. CASE (\E c \in Boxes : Landed(c)) \/ Untouched
  BY <1>3, Idle DEF Own, Active, Ended, WasKilled
<1>4. ~Outside
  BY DEF Outside, Own, Active, Ended
<1> QED
  BY <1>1, <1>2, <1>3, <1>4, StepKinds

(* The cleanups that are left when the stack is empty: none.               *)
LEMMA LastOver ==
  ASSUME Framed, Over
  PROVE  /\ Prog' = Prog /\ DOMAIN defers = {} /\ DOMAIN defers' = {} /\ phase = "unwind"
         /\ UNCHANGED <<body, failed, found, on, starting, listed, nets, main, plugin, verdict, src>>
         /\ \A op, x : ~OnStack(op, x)
<1>1. defers = <<>> /\ defers' = <<>>
  BY DEF Over
<1>2. DOMAIN defers = {} /\ DOMAIN defers' = {}
  BY <1>1
<1> QED
  BY <1>2 DEF Over, Well, Alone, docker, source, Prog, OnStack

-----------------------------------------------------------------------------
(* A docker run on its way is waited for above the removal of its          *)
(* container; its wait is deferred next to its start.                      *)
WaitNext(c) == phase = "body" /\ Is(Prog, pc, "later", c) /\ Prog[pc].y = "join" /\ OnStack("rm", c)
WaitedFor(c) ==
  \E d, e \in DOMAIN defers : /\ d < e
                              /\ defers[d] = [op |-> "rm", x |-> c] /\ defers[e] = [op |-> "join", x |-> c]
Joined == Own => \A c \in starting : WaitNext(c) \/ WaitedFor(c)

LEMMA StartingRemoved ==
  ASSUME Framed, Joined, Own, NEW c \in starting
  PROVE  OnStack("rm", c) /\ Active
<1>1. OnStack("rm", c)
  BY DEF Joined, WaitNext, WaitedFor, OnStack
<1>2. phase # "over"
  <2>1. SUFFICES ASSUME phase = "over" PROVE FALSE
    OBVIOUS
  <2>2. DOMAIN defers = {}
    BY <2>1 DEF Framed, Places
  <2> QED
    BY <1>1, <2>2 DEF OnStack
<1> QED
  BY <1>1, <1>2 DEF Own, Ended

LEMMA JoinedKept == Framed /\ DeferLive /\ Joined /\ [Next]_vars => Joined'
<1> SUFFICES ASSUME Framed, DeferLive, Joined, [Next]_vars, Own', NEW c \in starting'
             PROVE  (WaitNext(c) \/ WaitedFor(c))'
  BY DEF Joined
<1>1. CASE BodyStep /\ phase = "body"
  <2>1. CASE c \in starting
    <3>1. CASE WaitNext(c)
      <4>1. At("later") /\ Cur.x = c /\ Cur.y = "join"
        BY <3>1 DEF WaitNext, Is, At, Cur
      <4>2. PICK d \in DOMAIN defers : defers[d] = [op |-> "rm", x |-> c]
        BY <3>1 DEF WaitNext, OnStack
      <4> QED
        BY <1>1, <4>1, <4>2, StackGrows DEF WaitedFor
    <3>2. CASE WaitedFor(c)
      BY <1>1, <3>2, StackGrows DEF WaitedFor
    <3> QED
      BY <1>1, <2>1, <3>1, <3>2 DEF Joined, Own, Active
  <2>2. CASE c \notin starting
    <3>1. At("go") /\ GoBox /\ c = Cur.x
      BY <1>1, <2>2, StepIs, BodyFrame DEF GoBox
    <3>2. phase' = "body" /\ pc' = pc + 1 /\ Prog' = Prog
      BY <3>1 DEF GoBox, Proceed, At, Prog
    <3>3. RemovesBoxes(Prog) /\ pc \in DOMAIN Prog /\ Prog[pc].op = "go" /\ Prog[pc].x = c
      BY <3>1, RulesAre DEF At, Cur, Framed, Shape
    <3>4. Defers(Prog, pc, "rm", c) /\ Is(Prog, pc + 1, "later", c) /\ Prog[pc + 1].y = "join"
      BY <3>3 DEF RemovesBoxes
    <3>5. OnStack("rm", c)'
      BY <1>1, <3>4, Stacked DEF DeferLive
    <3> QED
      BY <3>2, <3>4, <3>5 DEF WaitNext
  <2> QED
    BY <2>1, <2>2
<1>2. CASE Unwind /\ phase \in {"return", "unwind"}
  <2>1. c \in starting
    BY <1>2, UnwindFrame
  <2>2. PICK d, e \in DOMAIN defers : d < e /\ defers[d] = [op |-> "rm", x |-> c] /\ defers[e] = [op |-> "join", x |-> c]
    BY <1>2, <2>1 DEF Joined, Own, Active, WaitNext, WaitedFor
  <2>3. Popping
    BY <1>2, <2>2, LastOver, UnwindMoves
  <2>4. e # Len(defers)
    <3>1. SUFFICES ASSUME e = Len(defers) PROVE FALSE
      OBVIOUS
    <3>2. Top.op = "join" /\ Top.x = c
      BY <2>2, <3>1 DEF Top
    <3> QED
      BY <1>2, <2>1, <2>3, <3>2, PopIs DEF PopJoin, Popping
  <2>5. e < Len(defers) /\ d < Len(defers) /\ d \in DOMAIN defers' /\ e \in DOMAIN defers'
    <3>1. defers \in Seq(Cleanups) /\ DOMAIN defers = 1..Len(defers) /\ Len(defers) \in Nat
      BY DEF Framed, Shape, TypeOK
    <3> QED
      BY <2>2, <2>3, <2>4, <3>1, StackShrinks
  <2> QED
    BY <2>2, <2>3, <2>5, StackShrinks DEF WaitedFor
<1>3. CASE Begun
  BY <1>3 DEF Begun, Framed, Places
<1>4. CASE ((\E b \in Boxes : Landed(b)) \/ Untouched) /\ Own
  <2>1. c \in starting /\ UNCHANGED <<defers, phase, pc>> /\ Prog' = Prog
    BY <1>4, Idle
  <2> QED
    BY <1>4, <2>1 DEF Joined, WaitNext, WaitedFor, OnStack
<1> QED
  BY <1>1, <1>2, <1>3, <1>4, Owned

-----------------------------------------------------------------------------
(* A container, or its removal, is on the stack, in the list, or in hand.  *)
Stuck(c) == <<"rm", c>> \in failed \/ (<<"start", c>> \in failed /\ ListedLate(c))
InHand(c) ==
  /\ phase = "body"
  /\ (Is(Prog, pc, "list", c) /\ OnStack("listed", "")) \/ Is(Prog, pc, "remove", c)
Held(c) == Stuck(c) \/ OnStack("rm", c) \/ (c \in listed /\ OnStack("listed", "")) \/ InHand(c)
BoxHeld == Own => \A c \in Boxes \ {"old"} : on[c] # {} => Held(c)

(* Where a step of a body puts a container.                                *)
LEMMA BodyTouches ==
  ASSUME Framed, BodyStep, NEW c \in Boxes, on'[c] # on[c]
  PROVE  /\ phase = "body" /\ pc \in DOMAIN Prog /\ Prog[pc].x = c
         /\ Prog[pc].op \in Puts \cup {"remove"}
         /\ Prog[pc].op = "remove" => on'[c] = {}
         /\ on'[c] \subseteq {"none"} \/ (Prog[pc].op \in Puts /\ on'[c] \subseteq on[c] \cup {Prog[pc].y, "none"})
<1>1. At("start") \/ At("try") \/ At("link") \/ At("attach") \/ At("remove")
  BY BodyFrame
<1>2. phase = "body" /\ pc \in DOMAIN Prog /\ Cur.op \in Puts \cup {"remove"}
  BY <1>1 DEF At, Cur, Puts
<1>3. on \in [Boxes -> SUBSET (Nets \cup {Main, "none"})]
  BY DEF Framed, Shape, TypeOK
<1>4. CASE At("start") \/ At("try") \/ At("attach")
  <2>1. on' \in {on, [on EXCEPT ![Cur.x] = {}], [on EXCEPT ![Cur.x] = {"none"}], [on EXCEPT ![Cur.x] = {Cur.y}],
                 [on EXCEPT ![Cur.x] = @ \cup {Cur.y}]}
    BY <1>4, StepIs DEF StartBox, TryBox, AttachBox, HalfRun
  <2>2. Cur.op \in Puts /\ Cur.op # "remove"
    BY <1>4 DEF At, Cur, Puts
  <2> QED
    BY <1>2, <1>3, <2>1, <2>2 DEF Cur
<1>5. CASE At("link")
  <2>1. on' \in {on, [on EXCEPT ![Cur.x] = {"none"}]}
    BY <1>5, StepIs DEF AddLink
  <2>2. Cur.op # "remove"
    BY <1>5 DEF At, Cur
  <2> QED
    BY <1>2, <1>3, <2>1, <2>2 DEF Cur
<1>6. CASE At("remove")
  <2>1. on' \in {on, [on EXCEPT ![Cur.x] = {}]}
    BY <1>6, StepIs DEF RemoveBox, Gone
  <2> QED
    BY <1>2, <1>3, <2>1 DEF Cur
<1> QED
  BY <1>1, <1>4, <1>5, <1>6

(* What the cleanups and docker make of a container.                       *)
LEMMA UnwindTouches ==
  ASSUME Framed, Unwind, NEW c \in Boxes
  PROVE  /\ on'[c] = on[c] \/ on'[c] = {}
         /\ on'[c] # on[c] => \/ Top = [op |-> "rm", x |-> c] /\ Popping
                              \/ Top.op = "listed" /\ c \in listed /\ Popping
         /\ Popping /\ Top = [op |-> "rm", x |-> c] => on'[c] = {} \/ <<"rm", c>> \in failed'
         /\ Popping /\ Top = [op |-> "listed", x |-> ""] /\ c \in listed => on'[c] = {} \/ <<"rm", c>> \in failed'
<1>1. on \in [Boxes -> SUBSET (Nets \cup {Main, "none"})]
  BY DEF Framed, Shape, TypeOK
<1>2. PopBox => /\ Popping /\ Top = [op |-> "rm", x |-> Top.x]
                /\ on' = [on EXCEPT ![Top.x] = {}] \/ (on' = on /\ <<"rm", Top.x>> \in failed')
  <2>1. SUFFICES ASSUME PopBox
                 PROVE  /\ Popping /\ Top = [op |-> "rm", x |-> Top.x]
                        /\ on' = [on EXCEPT ![Top.x] = {}] \/ (on' = on /\ <<"rm", Top.x>> \in failed')
    OBVIOUS
  <2>2. Popping /\ defers \in Seq(Cleanups) /\ defers # <<>> /\ Top.op = "rm"
    BY <2>1 DEF PopBox, Popped, Popping, Next1, Unwinding, Alone, Framed, Shape, TypeOK
  <2>3. Top \in Cleanups
    BY <2>2, PopLeaves DEF Top
  <2> QED
    BY <2>1, <2>2, <2>3 DEF PopBox, Gone, Lost, Note, Cleanups
<1>3. PopListed => /\ Popping /\ Top.op = "listed"
                   /\ \A b \in Boxes : \/ b \notin listed /\ on'[b] = on[b]
                                       \/ b \in listed /\ (on'[b] = {} \/ (on'[b] = on[b] /\ <<"rm", b>> \in failed'))
  <2>1. SUFFICES ASSUME PopListed
                 PROVE  /\ Popping /\ Top.op = "listed"
                        /\ \A b \in Boxes : \/ b \notin listed /\ on'[b] = on[b]
                                            \/ b \in listed /\ (on'[b] = {} \/ (on'[b] = on[b] /\ <<"rm", b>> \in failed'))
    OBVIOUS
  <2>2. Popping /\ Top.op = "listed"
    BY <2>1 DEF PopListed, Popped, Popping, Next1, Unwinding, Alone
  <2>3. CASE on' = [b \in Boxes |-> IF b \in listed THEN {} ELSE on[b]]
    BY <1>1, <2>2, <2>3
  <2>4. ASSUME NEW k \in listed, Lost("rm", k), on' = [b \in Boxes |-> IF b \in listed \ {k} THEN {} ELSE on[b]]
        PROVE  \A b \in Boxes : \/ b \notin listed /\ on'[b] = on[b]
                                \/ b \in listed /\ (on'[b] = {} \/ (on'[b] = on[b] /\ <<"rm", b>> \in failed'))
    BY <1>1, <2>4 DEF Lost, Note
  <2> QED
    BY <2>1, <2>2, <2>3, <2>4 DEF PopListed
<1>4. ASSUME Popping, Top.op \in {"rm", "listed"}
      PROVE  (Top.op = "rm" => PopBox) /\ (Top.op = "listed" => PopListed)
  BY <1>4, PopIs DEF Popping
<1>5. [op |-> "rm", x |-> c].op = "rm" /\ [op |-> "rm", x |-> c].x = c /\ [op |-> "listed", x |-> ""].op = "listed"
  OBVIOUS
<1>6. on' = on \/ PopBox \/ PopListed
  BY UnwindFrame
<1>7. CASE on' = on
  <2>1. Popping /\ Top = [op |-> "rm", x |-> c] => on'[c] = {} \/ <<"rm", c>> \in failed'
    BY <1>1, <1>2, <1>4, <1>5, <1>7
  <2>2. Popping /\ Top = [op |-> "listed", x |-> ""] /\ c \in listed => on'[c] = {} \/ <<"rm", c>> \in failed'
    BY <1>3, <1>4, <1>5
  <2> QED
    BY <1>7, <2>1, <2>2
<1>8. CASE PopBox
  <2>1. Top.op = "rm"
    BY <1>8 DEF PopBox, Next1
  <2> QED
    BY <1>1, <1>2, <1>5, <1>8, <2>1
<1>9. CASE PopListed
  <2>1. Popping /\ Top.op = "listed" /\ (c \notin listed \/ on'[c] = {} \/ (on'[c] = on[c] /\ <<"rm", c>> \in failed'))
    BY <1>3, <1>9
  <2>2. c \notin listed => on'[c] = on[c]
    BY <1>3, <1>9
  <2> QED
    BY <1>5, <2>1, <2>2
<1> QED
  BY <1>6, <1>7, <1>8, <1>9

(* What failed and what is listed late stays so; what a body names stays.  *)
LEMMA StuckStays ==
  ASSUME Framed, NEW c, Stuck(c), Prog' = Prog, failed \subseteq failed'
  PROVE  Stuck(c)'
BY DEF Stuck, ListedLate

LEMMA BoxHeldBody ==
  ASSUME Framed, DeferLive, NamedLive, RidBefore, BoxHeld, BodyStep, phase = "body",
         NEW c \in Boxes \ {"old"}, on'[c] # {}
  PROVE  Held(c)'
<1>1. Prog' = Prog /\ failed \subseteq failed' /\ RemovesBoxes(Prog) /\ Own
  BY BodyMoves, FailedGrows, RulesAre DEF Prog, Framed, Shape, Own, Active
<1>2. CASE OnStack("rm", c) \/ Stuck(c)
  BY <1>1, <1>2, Stacked, StuckStays DEF Held
<1>3. CASE on'[c] = on[c]
  <2>1. Held(c)
    BY <1>1, <1>3 DEF BoxHeld
  <2>2. CASE c \in listed /\ OnStack("listed", "")
    <3>1. OnStack("listed", "")'
      BY <2>2, Stacked
    <3>2. CASE c \in listed'
      BY <3>1, <3>2 DEF Held
    <3>3. CASE c \notin listed'
      <4>1. At("unlist") /\ Cur.x = c /\ ListBox
        BY <2>2, <3>3, StepIs, BodyFrame DEF ListBox
      <4>2. pc \in DOMAIN Prog /\ Prog[pc].op = "unlist" /\ Prog[pc].x = c
        BY <4>1 DEF At, Cur
      <4>3. Is(Prog, pc + 1, "remove", c) \/ (pc - 1 \in Always(Prog) /\ Is(Prog, pc - 1, "remove", c))
        BY <1>1, <4>2 DEF RemovesBoxes
      <4>4. CASE Is(Prog, pc + 1, "remove", c)
        BY <1>1, <4>1, <4>4 DEF ListBox, Proceed, Held, InHand
      <4>5. CASE pc - 1 \in Always(Prog) /\ Is(Prog, pc - 1, "remove", c)
        <5>1. (pc - 1) + 1 = pc
          BY DEF Framed, Shape, TypeOK
        <5>2. Rid(c)
          BY <4>5, <5>1 DEF RidBefore, Is
        <5> QED
          BY <1>1, <1>2, <1>3, <5>2 DEF Rid, Stuck
      <4> QED
        BY <4>3, <4>4, <4>5
    <3> QED
      BY <3>2, <3>3
  <2>3. CASE InHand(c)
    <3>1. CASE Is(Prog, pc, "list", c) /\ OnStack("listed", "")
      <4>1. At("list") /\ Cur.x = c
        BY <2>3, <3>1 DEF InHand, Is, At, Cur
      <4> QED
        BY <3>1, <4>1, Stacked, StepIs DEF ListBox, Held
    <3>2. CASE Is(Prog, pc, "remove", c)
      <4>1. At("remove") /\ Cur.x = c
        BY <2>3, <3>2 DEF InHand, Is, At, Cur
      <4>2. on' = [on EXCEPT ![c] = {}] \/ <<"rm", c>> \in failed'
        BY <4>1, StepIs DEF RemoveBox, Gone, Lost, Note
      <4> QED
        BY <4>2 DEF Held, Stuck, Framed, Shape, TypeOK
    <3> QED
      BY <2>3, <3>1, <3>2 DEF InHand
  <2> QED
    BY <1>2, <2>1, <2>2, <2>3 DEF Held
<1>4. CASE on'[c] # on[c]
  <2>1. pc \in DOMAIN Prog /\ Prog[pc].x = c /\ Prog[pc].op \in Puts
    BY <1>4, BodyTouches
  <2>2. Defers(Prog, pc, "rm", c) \/ InList(Prog, pc, c) \/ ListedNext(Prog, pc, c)
    BY <1>1, <2>1 DEF RemovesBoxes
  <2>3. CASE Defers(Prog, pc, "rm", c)
    BY <1>2, <2>3 DEF DeferLive
  <2>4. CASE InList(Prog, pc, c)
    <3>1. c \in listed /\ OnStack("listed", "")
      BY <2>4 DEF InList, DeferLive, NamedLive, InBody
    <3>2. listed' = listed
      BY <2>1, BodyFrame DEF At, Puts
    <3> QED
      BY <3>1, <3>2, Stacked DEF Held
  <2>5. CASE ListedNext(Prog, pc, c)
    <3>1. OnStack("listed", "")'
      BY <2>5, Stacked DEF ListedNext, DeferLive
    <3>2. At("start") \/ At("link")
      BY <2>1, <2>5 DEF ListedNext, At
    <3>3. CASE Proceed
      BY <1>1, <2>5, <3>1, <3>3 DEF Proceed, ListedNext, Held, InHand
    <3>4. CASE ~Proceed
      <4>1. <<"start", c>> \in failed'
        BY <2>1, <3>2, <3>4, StepIs DEF StartBox, AddLink, Note, Cur
      <4>2. ListedLate(c)
        <5>1. pc < pc + 1
          BY DEF Framed, Shape, TypeOK
        <5> QED
          BY <2>1, <2>5, <5>1 DEF ListedNext, Is, ListedLate
      <4> QED
        BY <1>1, <4>1, <4>2 DEF Held, Stuck, ListedLate
    <3> QED
      BY <3>3, <3>4
  <2> QED
    BY <2>2, <2>3, <2>4, <2>5
<1> QED
  BY <1>3, <1>4

LEMMA BoxHeldUnwind ==
  ASSUME Framed, BoxHeld, Unwind, NEW c \in Boxes \ {"old"}, on'[c] # {}
  PROVE  Held(c)'
<1>1. Prog' = Prog /\ failed \subseteq failed' /\ listed' = listed /\ phase # "body" /\ on[c] # {}
  BY UnwindFrame, FailedGrows, UnwindMoves, UnwindTouches DEF Prog, Over, Popping
<1>2. Stuck(c) \/ OnStack("rm", c) \/ (c \in listed /\ OnStack("listed", ""))
  <2>1. Own
    BY UnwindMoves DEF Over, Popping, Own, Active
  <2> QED
    BY <1>1, <2>1 DEF BoxHeld, Held, InHand
<1>3. CASE Stuck(c)
  BY <1>1, <1>3, StuckStays DEF Held
<1>4. CASE OnStack("rm", c)
  <2>1. Popping
    BY <1>4, LastOver, UnwindMoves
  <2>2. OnStack("rm", c)' \/ Top = [op |-> "rm", x |-> c]
    BY <1>4, <2>1, Stacked
  <2> QED
    BY <2>1, <2>2, UnwindTouches DEF Held, Stuck
<1>5. CASE c \in listed /\ OnStack("listed", "")
  <2>1. Popping
    BY <1>5, LastOver, UnwindMoves
  <2>2. OnStack("listed", "")' \/ Top = [op |-> "listed", x |-> ""]
    BY <1>5, <2>1, Stacked
  <2> QED
    BY <1>1, <1>5, <2>1, <2>2, UnwindTouches DEF Held, Stuck
<1> QED
  BY <1>2, <1>3, <1>4, <1>5

LEMMA BoxHeldKept == Framed /\ DeferLive /\ NamedLive /\ RidBefore /\ Joined /\ BoxHeld /\ [Next]_vars => BoxHeld'
<1> SUFFICES ASSUME Framed, DeferLive, NamedLive, RidBefore, Joined, BoxHeld, [Next]_vars, Own',
                    NEW c \in Boxes \ {"old"}, on'[c] # {}
             PROVE  Held(c)'
  BY DEF BoxHeld
<1>1. CASE BodyStep /\ phase = "body"
  BY <1>1, BoxHeldBody
<1>2. CASE Unwind
  BY <1>2, BoxHeldUnwind
<1>3. CASE Begun
  BY <1>3 DEF Begun, Framed, Places
<1>4. CASE ((\E b \in Boxes : Landed(b)) \/ Untouched) /\ Own
  <2>1. UNCHANGED <<phase, pc, failed, listed>> /\ Prog' = Prog /\ \A op, x : OnStack(op, x)' <=> OnStack(op, x)
    BY <1>4, Idle
  <2>2. Held(c)' <=> Held(c)
    BY <2>1 DEF Held, Stuck, ListedLate, InHand
  <2>3. CASE on'[c] = on[c]
    BY <1>4, <2>2, <2>3 DEF BoxHeld
  <2>4. CASE on'[c] # on[c]
    <3>1. c \in starting
      <4>1. PICK b \in Boxes : Landed(b)
        BY <1>4, <2>4 DEF Untouched
      <4> QED
        BY <2>4, <4>1 DEF Landed, HalfRun, Framed, Shape, TypeOK
    <3> QED
      BY <1>4, <2>2, <3>1, StartingRemoved DEF Held
  <2> QED
    BY <2>3, <2>4
<1> QED
  BY <1>1, <1>2, <1>3, <1>4, Owned

LEMMA RidBeforeKept == Framed /\ Joined /\ RidBefore /\ [Next]_vars => RidBefore'
<1> SUFFICES ASSUME Framed, Joined, RidBefore, [Next]_vars, phase' = "body",
                    NEW c \in Boxes, NEW k \in Always(Prog'), k + 1 = pc', Is(Prog', k, "remove", c)
             PROVE  Rid(c)'
  BY DEF RidBefore
<1>1. Own'
  BY DEF Own, Active
<1>2. CASE BodyStep
  <2>1. /\ Prog \in Seq(Steps) /\ Prog' = Prog /\ Leads(Prog, pc, pc') /\ phase = "body"
        /\ Cur \in Steps /\ \A o : At(o) <=> Cur.op = o
    BY <1>2, GoesOn
  <2>2. k = pc
    BY <2>1, NextPlace
  <2>3. At("remove") /\ Cur.x = c
    BY <2>1, <2>2 DEF Is, Cur
  <2>4. on' = [on EXCEPT ![c] = {}] \/ <<"rm", c>> \in failed'
    BY <1>2, <2>3, StepIs DEF RemoveBox, Gone, Lost, Note
  <2> QED
    BY <2>4 DEF Rid, Framed, Shape, TypeOK
<1>3. CASE Unwind
  <2>1. /\ Prog \in Seq(Steps) /\ Prog' = Prog /\ Leads(Prog, pc, pc') /\ Prog[pc].op = "return"
    BY <1>3, ComesBack
  <2>2. k = pc
    BY <2>1, NextPlace
  <2> QED
    BY <2>1, <2>2 DEF Is
<1>4. CASE Begun
  <2>1. pc' = 1 /\ Prog' = Prog /\ Prog \in Seq(Steps)
    BY <1>4, RulesAre DEF Begun, Begin, Framed, Places, Shape, Prog
  <2>2. \A j \in Always(Prog) : j + 1 # 1
    BY <2>1 DEF Always
  <2> QED
    BY <2>1, <2>2
<1>5. CASE ((\E b \in Boxes : Landed(b)) \/ Untouched) /\ Own
  <2>1. UNCHANGED <<phase, pc, failed>> /\ Prog' = Prog /\ \A op, x : OnStack(op, x)' <=> OnStack(op, x)
    BY <1>5, Idle
  <2>2. Rid(c)
    BY <2>1 DEF RidBefore
  <2>3. CASE on'[c] = on[c]
    BY <2>1, <2>2, <2>3 DEF Rid
  <2>4. CASE on'[c] # on[c]
    <3>1. c \in starting
      <4>1. PICK b \in Boxes : Landed(b)
        BY <1>5, <2>4 DEF Untouched
      <4> QED
        BY <2>4, <4>1 DEF Landed, HalfRun, Framed, Shape, TypeOK
    <3> QED
      BY <1>5, <2>1, <3>1, StartingRemoved DEF Rid
  <2> QED
    BY <2>3, <2>4
<1> QED
  BY <1>1, <1>2, <1>3, <1>4, <1>5, Owned

-----------------------------------------------------------------------------
(* The shape's own network is as it was, or its repair is on the stack or  *)
(* has failed.                                                             *)
MainHeld == Own /\ main # "up" => <<"told", Main>> \in failed \/ OnStack("told", Main)

LEMMA MainHeldKept == Framed /\ DeferLive /\ MainHeld /\ [Next]_vars => MainHeld'
<1> SUFFICES ASSUME Framed, DeferLive, MainHeld, [Next]_vars, Own', main' # "up"
             PROVE  (<<"told", Main>> \in failed \/ OnStack("told", Main))'
  BY DEF MainHeld
<1>1. CASE BodyStep /\ phase = "body"
  <2>1. failed \subseteq failed' /\ Own
    BY <1>1, FailedGrows DEF Own, Active
  <2>2. CASE main # "up"
    BY <1>1, <2>1, <2>2, Stacked DEF MainHeld
  <2>3. CASE At("swap")
    <3>1. PutsMainBack(Prog) /\ pc \in DOMAIN Prog /\ Prog[pc].op = "swap"
      BY <2>3, RulesAre DEF At, Framed, Shape
    <3>2. Defers(Prog, pc, "told", Main)
      BY <3>1 DEF PutsMainBack
    <3> QED
      BY <1>1, <3>2, Stacked DEF DeferLive
  <2> QED
    BY <1>1, <2>2, <2>3, BodyFrame
<1>2. CASE Unwind /\ phase \in {"return", "unwind"}
  <2>1. failed \subseteq failed' /\ Own
    BY <1>2, FailedGrows DEF Own, Active
  <2>2. CASE PopMain
    BY <2>2 DEF PopMain, Lost, Note
  <2>3. CASE ~PopMain
    <3>1. main' = main
      BY <1>2, <2>3, UnwindFrame
    <3>2. <<"told", Main>> \in failed \/ OnStack("told", Main)
      BY <2>1, <3>1 DEF MainHeld
    <3>3. CASE OnStack("told", Main)
      <4>1. Popping
        BY <1>2, <3>3, LastOver, UnwindMoves
      <4>2. Top # [op |-> "told", x |-> Main]
        <5>1. SUFFICES ASSUME Top.op = "told", Top.x = Main PROVE FALSE
          OBVIOUS
        <5>2. PopTold
          BY <1>2, <2>3, <4>1, <5>1, PopIs DEF Popping
        <5>3. Main \in Changes
          BY <5>1, <5>2 DEF PopTold, PopRestore
        <5> QED
          BY <5>3 DEF Main, Changes, Edits, Features, Features4, Features6, Adverts, Actors, Stops
      <4> QED
        BY <3>3, <4>1, <4>2, Stacked
    <3> QED
      BY <2>1, <3>2, <3>3
  <2> QED
    BY <2>2, <2>3
<1>3. CASE Begun
  BY <1>3 DEF Begun, Framed, Places
<1>4. CASE ((\E b \in Boxes : Landed(b)) \/ Untouched) /\ Own
  BY <1>4, Idle DEF MainHeld
<1> QED
  BY <1>1, <1>2, <1>3, <1>4, Owned

-----------------------------------------------------------------------------
(* The plugin's tag is the configured one, but where the body found the    *)
(* previous one or stands between installing it and the upgrade; a body    *)
(* that leaves it there has not passed.                                    *)
TagKept == plugin = "configured" \/ found.plugin = "previous"
TagHeld ==
  /\ InBody => TagKept \/ OnPrevious(Prog, pc)
  /\ phase = "unwind" \/ Ended => TagKept \/ verdict # "PASS"

LEMMA TagHeldKept == Framed /\ TagHeld /\ [Next]_vars => TagHeld'
<1> SUFFICES ASSUME Framed, TagHeld, [Next]_vars, Own' PROVE TagHeld'
  BY DEF TagHeld, Own, Active, InBody
<1>0. plugin \in {"configured", "previous"}
  BY DEF Framed, Shape, TypeOK
<1>1. CASE BodyStep /\ phase = "body"
  <2>1. found' = found /\ InBody /\ (TagKept \/ OnPrevious(Prog, pc)) /\ Prog \in Seq(Steps)
    BY <1>1, BodyFrame, RulesAre DEF InBody, TagHeld, Framed, Shape
  <2>2. CASE phase' = "body"
    <3>1. /\ Prog' = Prog /\ Leads(Prog, pc, pc') /\ \A o : At(o) <=> Cur.op = o
      BY <1>1, <2>2, GoesOn
    <3>2. CASE plugin' = plugin /\ ~Is(Prog, pc, "do", "upgrade-plugin")
      BY <2>1, <2>2, <3>1, <3>2, OnPreviousLeads DEF TagHeld, TagKept, InBody, Ended
    <3>3. CASE Disturb
      <4>1. plugin' = Tag(Cur.x) /\ Cur.op = "do"
        BY <2>2, <3>1, <3>3 DEF Disturb, End
      <4>2. CASE Cur.x = "upgrade-plugin"
        BY <2>2, <4>1, <4>2 DEF Tag, TagHeld, TagKept, InBody, Ended
      <4>3. CASE Cur.x = "install-previous"
        <5>1. OnPrevious(Prog, pc')
          BY <2>1, <3>1, <4>1, <4>3, OnPreviousLeads DEF Is, Cur, Leads
        <5> QED
          BY <2>2, <3>1, <5>1 DEF TagHeld, InBody, Ended
      <4>4. CASE Cur.x \notin {"upgrade-plugin", "install-previous"}
        <5>1. plugin' = plugin
          BY <4>1, <4>4 DEF Tag
        <5> QED
          BY <3>2, <4>4, <5>1 DEF Is, Cur
      <4> QED
        BY <4>2, <4>3, <4>4
    <3>4. At("do") \/ (plugin' = plugin /\ ~Is(Prog, pc, "do", "upgrade-plugin"))
      BY <1>1, <3>1, BodyFrame DEF Is, Cur
    <3> QED
      BY <1>1, <3>2, <3>3, <3>4, StepIs
  <2>3. CASE phase' = "return"
    <3>1. At("return") /\ pc' = pc /\ Prog' = Prog
      BY <1>1, <2>3, BodyMoves DEF Onward, Out, Ending, At, Cur, Framed, Shape, Prog
    <3>2. plugin' = plugin
      BY <1>1, <3>1, BodyFrame DEF At
    <3> QED
      BY <2>1, <2>3, <3>1, <3>2 DEF TagHeld, TagKept, InBody, Ended
  <2>4. CASE phase' = "unwind"
    <3>1. CASE verdict' \in Failing
      BY <2>4, <3>1 DEF TagHeld, InBody, Ended, Failing
    <3>2. CASE Answer
      <4>1. pc \in Nat /\ pc > 0 /\ pc \notin DOMAIN Prog /\ plugin' = plugin
        BY <2>1, <3>2 DEF Answer, docker, Framed, Places, Shape, TypeOK
      <4>2. ~OnPrevious(Prog, pc)
        BY <2>1, <4>1, OnPreviousEnds, RulesAre DEF Upgrades, Framed, Shape
      <4> QED
        BY <2>1, <2>4, <4>1, <4>2 DEF TagHeld, TagKept, InBody, Ended
    <3> QED
      BY <1>1, <2>4, <3>1, <3>2, BodyMoves DEF Onward, Out, Ending, Framed, Shape
  <2> QED
    BY <1>1, <2>2, <2>3, <2>4, BodyMoves DEF Onward, Out, Ending, Framed, Shape
<1>2. CASE Unwind /\ phase \in {"return", "unwind"}
  <2>1. UNCHANGED <<plugin, found>> /\ Prog' = Prog
    BY <1>2, UnwindFrame DEF Prog
  <2>2. CASE phase' = "body"
    <3>1. Prog \in Seq(Steps) /\ Leads(Prog, pc, pc') /\ phase = "return" /\ Prog[pc].op = "return"
      BY <1>2, <2>2, ComesBack
    <3>2. ~Is(Prog, pc, "do", "upgrade-plugin")
      BY <3>1 DEF Is
    <3> QED
      BY <2>1, <2>2, <3>1, <3>2, OnPreviousLeads DEF TagHeld, TagKept, InBody, Ended
  <2>3. CASE phase' # "body"
    <3>1. Over \/ (UNCHANGED <<phase, pc>> /\ verdict' \in {verdict, "BLOCKED"})
      BY <1>2, <2>3, UnwindMoves DEF Resumes
    <3> QED
      BY <1>2, <2>1, <3>1 DEF Over, TagHeld, TagKept, InBody, Ended
  <2> QED
    BY <2>2, <2>3
<1>3. CASE Begun
  BY <1>0, <1>3 DEF Begun, Begin, TagHeld, TagKept, InBody, Ended
<1>4. CASE ((\E b \in Boxes : Landed(b)) \/ Untouched) /\ Own
  BY <1>4, Idle DEF TagHeld, TagKept, InBody, Ended, WasKilled
<1> QED
  BY <1>1, <1>2, <1>3, <1>4, Owned

-----------------------------------------------------------------------------
(* A container is on the extra networks its body puts it on.               *)
Placed ==
  Own => /\ \A c \in Boxes : on[c] \cap Nets \subseteq PutOn(Prog, c)
         /\ \A c \in listed : \E i \in DOMAIN Prog : Is(Prog, i, "list", c)

LEMMA PlacedKept == Framed /\ Placed /\ [Next]_vars => Placed'
<1> SUFFICES ASSUME Framed, Placed, [Next]_vars, Own' PROVE Placed'
  BY DEF Placed
<1>0. Main \notin Nets /\ "none" \notin Nets
  BY DEF Main, Nets
<1>1. CASE BodyStep /\ phase = "body"
  <2>1. Prog' = Prog /\ Own
    BY <1>1, BodyMoves DEF Prog, Own, Active, Framed, Shape
  <2>2. ASSUME NEW c \in Boxes, NEW n \in on'[c] \cap Nets PROVE n \in PutOn(Prog, c)
    <3>1. CASE n \in on[c]
      BY <2>1, <2>2, <3>1 DEF Placed
    <3>2. CASE n \notin on[c]
      <4>1. pc \in DOMAIN Prog /\ Prog[pc].x = c /\ Prog[pc].op \in Puts /\ n = Prog[pc].y
        BY <1>0, <1>1, <2>2, <3>2, BodyTouches
      <4> QED
        BY <4>1 DEF PutOn
    <3> QED
      BY <3>1, <3>2
  <2>3. ASSUME NEW c \in listed' PROVE \E i \in DOMAIN Prog : Is(Prog, i, "list", c)
    <3>1. CASE c \in listed
      BY <2>1, <3>1 DEF Placed
    <3>2. CASE c \notin listed
      <4>1. At("list") /\ Cur.x = c
        BY <1>1, <2>3, <3>2, StepIs, BodyFrame DEF ListBox
      <4> QED
        BY <4>1 DEF At, Cur, Is
    <3> QED
      BY <3>1, <3>2
  <2> QED
    BY <2>1, <2>2, <2>3 DEF Placed
<1>2. CASE Unwind /\ phase \in {"return", "unwind"}
  <2>1. Prog' = Prog /\ listed' = listed /\ Own
    BY <1>2, UnwindFrame DEF Prog, Own, Active
  <2>2. \A c \in Boxes : on'[c] \subseteq on[c]
    BY <1>2, UnwindTouches
  <2> QED
    BY <2>1, <2>2 DEF Placed
<1>3. CASE Begun
  <2>1. listed' = {} /\ \A c \in Boxes : on'[c] \cap Nets = {}
    BY <1>0, <1>3 DEF Begun, Framed, Places
  <2> QED
    BY <2>1 DEF Placed
<1>4. CASE ((\E b \in Boxes : Landed(b)) \/ Untouched) /\ Own
  <2>1. listed' = listed /\ Prog' = Prog
    BY <1>4, Idle
  <2>2. \A c \in Boxes : on'[c] \cap Nets \subseteq on[c]
    <3>1. CASE Untouched
      BY <3>1 DEF Untouched
    <3>2. ASSUME NEW b \in Boxes, Landed(b) PROVE \A c \in Boxes : on'[c] \cap Nets \subseteq on[c]
      <4>1. on' \in {[on EXCEPT ![b] = {}], [on EXCEPT ![b] = {"none"}], [on EXCEPT ![b] = {Main}]}
        BY <3>2 DEF Landed, HalfRun
      <4> QED
        BY <1>0, <4>1 DEF Framed, Shape, TypeOK
    <3> QED
      BY <1>4, <3>1, <3>2
  <2> QED
    BY <1>4, <2>1, <2>2 DEF Placed
<1> QED
  BY <1>1, <1>2, <1>3, <1>4, Owned

(* The removal of a container's networks is below its own.                 *)
Below(n, d) == \E e \in DOMAIN defers : e < d /\ defers[e] = [op |-> "down", x |-> n]
Sorted ==
  Own /\ body \notin LeavesItsNetwork =>
    \A c \in Boxes : \A d \in DOMAIN defers : defers[d] = [op |-> "rm", x |-> c] =>
      \A n \in PutOn(Prog, c) \cap Nets : Below(n, d)

LEMMA NetsFirstIs ==
  ASSUME Framed, body \notin LeavesItsNetwork, pc \in DOMAIN Prog, NEW n \in Nets
  PROVE  /\ \/ Prog[pc].op \in Puts \cup {"remove"}
            \/ Prog[pc].op = "later" /\ Prog[pc].y = "rm"
         => (n \in PutOn(Prog, Prog[pc].x) => Defers(Prog, pc, "down", n))
         /\ \A i \in DOMAIN Prog : Prog[i].op = "list" => n \notin PutOn(Prog, Prog[i].x)
BY RulesAre DEF NetsFirst, Handles, Framed, Shape

LEMMA SortedKept == Framed /\ DeferLive /\ Sorted /\ [Next]_vars => Sorted'
<1> SUFFICES ASSUME Framed, DeferLive, Sorted, [Next]_vars, Own', body' \notin LeavesItsNetwork,
                    NEW c \in Boxes, NEW d \in DOMAIN defers', defers'[d] = [op |-> "rm", x |-> c],
                    NEW n \in PutOn(Prog', c) \cap Nets
             PROVE  Below(n, d)'
  BY DEF Sorted
<1>1. CASE BodyStep /\ phase = "body"
  <2>1. Prog' = Prog /\ body' = body /\ Own
    BY <1>1, BodyMoves DEF Prog, Own, Active, Framed, Shape
  <2>2. CASE d \in DOMAIN defers
    <3>1. Below(n, d)
      BY <1>1, <2>1, <2>2, StackGrows DEF Sorted
    <3> QED
      BY <1>1, <3>1, StackGrows DEF Below
  <2>3. CASE d \notin DOMAIN defers
    <3>1. [op |-> "rm", x |-> c].op = "rm"
      OBVIOUS
    <3>2. d = Len(defers) + 1 /\ At("later") /\ defers'[d] = [op |-> Cur.y, x |-> Cur.x]
      BY <1>1, <2>3, <3>1, StackGrows
    <3>3. Cur.y = "rm" /\ Cur.x = c
      BY <3>2
    <3>4. Defers(Prog, pc, "down", n)
      BY <2>1, <3>2, <3>3, NetsFirstIs DEF At, Cur
    <3>5. PICK e \in DOMAIN defers : defers[e] = [op |-> "down", x |-> n]
      BY <1>1, <3>4 DEF DeferLive, OnStack
    <3> QED
      BY <1>1, <3>2, <3>5, StackGrows DEF Below
  <2> QED
    BY <2>2, <2>3
<1>2. CASE Unwind /\ phase \in {"return", "unwind"}
  <2>1. Prog' = Prog /\ body' = body /\ Own /\ Popping
    BY <1>2, UnwindFrame, UnwindMoves, LastOver DEF Prog, Own, Active
  <2>2. Below(n, d) /\ d \in DOMAIN defers /\ d < Len(defers)
    BY <2>1, StackShrinks DEF Sorted
  <2>3. PICK e \in DOMAIN defers : e < d /\ defers[e] = [op |-> "down", x |-> n]
    BY <2>2 DEF Below
  <2>4. e \in DOMAIN defers'
    <3>1. DOMAIN defers = 1..Len(defers) /\ Len(defers) \in Nat
      BY DEF Framed, Shape, TypeOK
    <3> QED
      BY <2>1, <2>2, <2>3, <3>1, StackShrinks
  <2> QED
    BY <2>1, <2>3, <2>4, StackShrinks DEF Below
<1>3. CASE Begun
  <2>1. DOMAIN defers' = {}
    BY <1>3 DEF Begun, Framed, Places
  <2> QED
    BY <2>1
<1>4. CASE ((\E b \in Boxes : Landed(b)) \/ Untouched) /\ Own
  <2>1. defers' = defers /\ Prog' = Prog /\ body' = body
    BY <1>4, Idle
  <2> QED
    BY <1>4, <2>1 DEF Sorted, Below
<1> QED
  BY <1>1, <1>2, <1>3, <1>4, Owned

(* An extra network, or its removal, is on the stack or in hand, or a      *)
(* container is on it whose own removal has been tried.                    *)
Dropped(n) == phase = "body" /\ Is(Prog, pc, "drop", n) /\ \A j \in DOMAIN Prog : Prog[j].y # n
Pinned(n) == \E c \in Boxes : n \in on[c] /\ ~OnStack("rm", c)
Secured(n) == <<"down", n>> \in failed \/ OnStack("down", n) \/ Dropped(n) \/ Pinned(n)
NetHeld == Own /\ body \notin LeavesItsNetwork => \A n \in nets : Secured(n)

LEMMA NetHeldBody ==
  ASSUME Framed, DeferLive, Placed, NetHeld, BodyStep, phase = "body", body \notin LeavesItsNetwork,
         NEW n \in nets'
  PROVE  Secured(n)'
<1>1. Prog' = Prog /\ failed \subseteq failed' /\ RemovesNets(Prog) /\ Own /\ n \in Nets
  <2>1. n \in Nets
    BY BodyDocker DEF DockerOK, Framed, Shape
  <2> QED
    BY <2>1, BodyMoves, FailedGrows, RulesAre DEF Prog, Framed, Shape, Own, Active
<1>2. ASSUME Defers(Prog, pc, "down", n) PROVE Secured(n)'
  BY <1>2, Stacked DEF DeferLive, Secured
<1>3. CASE n \notin nets
  <2>1. (At("create") \/ At("trynet")) /\ Cur.x = n
    BY <1>3, StepIs, BodyFrame DEF CreateNet, TryCreateNet, DropNet, NetRemoved
  <2>2. CASE At("create")
    BY <1>1, <1>2, <2>1, <2>2 DEF RemovesNets, At, Cur
  <2>3. CASE At("trynet")
    <3>1. Defers(Prog, pc, "down", n) \/ (Is(Prog, pc + 1, "drop", n) /\ \A j \in DOMAIN Prog : Prog[j].y # n)
      BY <1>1, <2>1, <2>3 DEF RemovesNets, At, Cur
    <3>2. phase' = "body" /\ pc' = pc + 1
      BY <2>3, StepIs DEF TryCreateNet, Proceed
    <3> QED
      BY <1>1, <1>2, <3>1, <3>2 DEF Secured, Dropped
  <2> QED
    BY <2>1, <2>2, <2>3
<1>4. CASE n \in nets
  <2>1. Secured(n)
    BY <1>1, <1>4 DEF NetHeld
  <2>2. CASE <<"down", n>> \in failed \/ OnStack("down", n)
    BY <1>1, <2>2, Stacked DEF Secured
  <2>3. CASE Dropped(n)
    <3>1. At("drop") /\ Cur.x = n
      BY <2>3 DEF Dropped, Is, At, Cur
    <3>2. Free(n) => <<"down", n>> \in failed'
      BY <3>1, StepIs DEF DropNet, NetRemoved, Lost, Note
    <3>3. Free(n)
      <4>1. PutOn(Prog, n) \subseteq {Prog[j].y : j \in DOMAIN Prog} /\ \A c : n \notin PutOn(Prog, c)
        BY <2>3 DEF Dropped, PutOn
      <4> QED
        BY <1>1, <4>1 DEF Placed, Free
    <3> QED
      BY <3>2, <3>3 DEF Secured
  <2>4. ASSUME NEW c \in Boxes, n \in on[c], ~OnStack("rm", c) PROVE Secured(n)'
    <3>1. n \in PutOn(Prog, c)
      BY <1>1, <2>4 DEF Placed
    <3>2. CASE n \notin on'[c]
      <4>1. pc \in DOMAIN Prog /\ Prog[pc].x = c /\ Prog[pc].op \in Puts \cup {"remove"}
        BY <2>4, <3>2, BodyTouches
      <4> QED
        BY <1>1, <1>2, <3>1, <4>1, NetsFirstIs
    <3>3. CASE OnStack("rm", c)'
      <4>1. At("later") /\ Cur.y = "rm" /\ Cur.x = c
        <5>1. PICK d \in DOMAIN defers' : defers'[d] = [op |-> "rm", x |-> c]
          BY <3>3 DEF OnStack
        <5>2. d \notin DOMAIN defers
          BY <2>4, <5>1, StackGrows DEF OnStack
        <5>3. defers'[d].op = "rm"
          BY <5>1
        <5> QED
          BY <5>1, <5>2, <5>3, StackGrows
      <4> QED
        BY <1>1, <1>2, <3>1, <4>1, NetsFirstIs DEF At, Cur
    <3> QED
      BY <3>2, <3>3 DEF Secured, Pinned
  <2> QED
    BY <2>1, <2>2, <2>3, <2>4 DEF Secured, Pinned
<1> QED
  BY <1>3, <1>4

LEMMA NetHeldUnwind ==
  ASSUME Framed, Placed, Sorted, NetHeld, Unwind, body \notin LeavesItsNetwork, NEW n \in nets'
  PROVE  Secured(n)'
<1>1. Prog' = Prog /\ failed \subseteq failed' /\ phase # "body" /\ Own /\ n \in nets /\ n \in Nets
  <2>1. n \in nets
    BY UnwindFrame DEF PopNet, NetRemoved
  <2>2. n \in Nets
    BY <2>1 DEF Framed, Shape, TypeOK
  <2> QED
    BY <2>1, <2>2, FailedGrows, UnwindFrame, UnwindMoves DEF Prog, Own, Active, Over, Popping
<1>2. Secured(n) /\ ~Dropped(n)
  BY <1>1 DEF NetHeld, Dropped
<1>3. CASE <<"down", n>> \in failed
  BY <1>1, <1>3 DEF Secured
<1>4. CASE OnStack("down", n)
  <2>1. Popping
    BY <1>4, LastOver, UnwindMoves
  <2>2. CASE OnStack("down", n)'
    BY <2>2 DEF Secured
  <2>3. CASE Top = [op |-> "down", x |-> n]
    <3>1. PopNet /\ Top.x = n
      BY <2>1, <2>3, PopIs DEF Popping
    <3>2. CASE <<"down", n>> \in failed'
      BY <3>2 DEF Secured
    <3>3. CASE ~Free(n)
      <4>1. PICK c \in Boxes : n \in on[c]
        BY <3>3 DEF Free
      <4>2. on' = on
        BY <3>1 DEF PopNet
      <4>3. CASE ~OnStack("rm", c)'
        BY <4>1, <4>2, <4>3 DEF Secured, Pinned
      <4>4. CASE OnStack("rm", c)'
        <5>1. PICK d \in DOMAIN defers' : defers'[d] = [op |-> "rm", x |-> c]
          BY <4>4 DEF OnStack
        <5>2. d \in DOMAIN defers /\ d < Len(defers) /\ defers[d] = [op |-> "rm", x |-> c]
          BY <2>1, <5>1, StackShrinks
        <5>3. n \in PutOn(Prog, c) \cap Nets
          BY <1>1, <4>1 DEF Placed
        <5>4. PICK e \in DOMAIN defers : e < d /\ defers[e] = [op |-> "down", x |-> n]
          BY <1>1, <5>2, <5>3 DEF Sorted, Below
        <5>5. e # Len(defers)
          <6>1. DOMAIN defers = 1..Len(defers) /\ Len(defers) \in Nat
            BY DEF Framed, Shape, TypeOK
          <6> QED
            BY <5>2, <5>4, <6>1
        <5> QED
          BY <2>1, <5>4, <5>5, StackShrinks DEF OnStack, Secured
      <4> QED
        BY <4>3, <4>4
    <3>4. Free(n) => <<"down", n>> \in failed'
      BY <3>1 DEF PopNet, NetRemoved, Lost, Note
    <3> QED
      BY <3>2, <3>3, <3>4
  <2> QED
    BY <1>4, <2>1, <2>2, <2>3, Stacked
<1>5. ASSUME NEW c \in Boxes, n \in on[c], ~OnStack("rm", c) PROVE Secured(n)'
  <2>1. ~OnStack("rm", c)'
    BY <1>5, Stacked, UnwindMoves, LastOver DEF OnStack
  <2>2. on'[c] = on[c]
    <3>1. SUFFICES ASSUME on'[c] # on[c] PROVE FALSE
      OBVIOUS
    <3>2. Popping /\ (Top = [op |-> "rm", x |-> c] \/ c \in listed)
      BY <3>1, UnwindTouches
    <3>3. CASE Top = [op |-> "rm", x |-> c]
      <4>1. defers \in Seq(Cleanups) /\ defers # <<>>
        BY <3>2 DEF Popping, Framed, Shape, TypeOK
      <4>2. Len(defers) \in DOMAIN defers
        BY <4>1, PopLeaves
      <4> QED
        BY <1>5, <3>3, <4>2 DEF Top, OnStack
    <3>4. CASE c \in listed
      <4>1. PICK i \in DOMAIN Prog : Is(Prog, i, "list", c)
        BY <1>1, <3>4 DEF Placed
      <4>2. n \in PutOn(Prog, c)
        BY <1>1, <1>5 DEF Placed
      <4>3. NetsFirst(Prog, Nets)
        BY RulesAre DEF Framed, Shape
      <4> QED
        BY <1>1, <4>1, <4>2, <4>3 DEF NetsFirst, Is
    <3> QED
      BY <3>2, <3>3, <3>4
  <2> QED
    BY <1>5, <2>1, <2>2 DEF Secured, Pinned
<1> QED
  BY <1>2, <1>3, <1>4, <1>5 DEF Secured, Pinned

LEMMA NetHeldKept == Framed /\ DeferLive /\ Placed /\ Sorted /\ Joined /\ NetHeld /\ [Next]_vars => NetHeld'
<1> SUFFICES ASSUME Framed, DeferLive, Placed, Sorted, Joined, NetHeld, [Next]_vars, Own',
                    body' \notin LeavesItsNetwork, NEW n \in nets'
             PROVE  Secured(n)'
  BY DEF NetHeld
<1>1. CASE BodyStep /\ phase = "body"
  BY <1>1, NetHeldBody, BodyMoves DEF Framed, Shape
<1>2. CASE Unwind
  BY <1>2, NetHeldUnwind, UnwindFrame
<1>3. CASE Begun
  BY <1>3 DEF Begun, Framed, Places
<1>4. CASE ((\E b \in Boxes : Landed(b)) \/ Untouched) /\ Own
  <2>1. /\ UNCHANGED <<phase, pc, failed, body, nets>> /\ Prog' = Prog
        /\ \A op, x : OnStack(op, x)' <=> OnStack(op, x)
    BY <1>4, Idle
  <2>2. Secured(n)
    BY <1>4, <2>1 DEF NetHeld
  <2>3. CASE ~Pinned(n)
    BY <2>1, <2>2, <2>3 DEF Secured, Dropped
  <2>4. ASSUME NEW c \in Boxes, n \in on[c], ~OnStack("rm", c) PROVE Secured(n)'
    <3>1. c \notin starting
      BY <1>4, <2>4, StartingRemoved
    <3>2. on'[c] = on[c]
      BY <1>4, <3>1 DEF Landed, HalfRun, Untouched, Framed, Shape, TypeOK
    <3> QED
      BY <2>1, <2>4, <3>2 DEF Secured, Pinned
  <2> QED
    BY <2>3, <2>4 DEF Pinned
<1> QED
  BY <1>1, <1>2, <1>3, <1>4, Owned

-----------------------------------------------------------------------------
CellHeld ==
  /\ DeferLive /\ NamedLive /\ RidBefore
  /\ Joined /\ BoxHeld /\ MainHeld /\ TagHeld
  /\ Placed /\ Sorted /\ NetHeld

LEMMA CellHeldKept == Framed /\ CellHeld /\ [Next]_vars => CellHeld'
BY DeferLiveKept, NamedLiveKept, RidBeforeKept, JoinedKept, BoxHeldKept, MainHeldKept, TagHeldKept, PlacedKept, SortedKept,
   NetHeldKept DEF CellHeld

LEMMA CellHeldInit == Init => CellHeld
BY DEF Init, CellHeld, DeferLive, NamedLive, RidBefore, Joined, BoxHeld, MainHeld, TagHeld, Placed, Sorted, NetHeld,
       Own, Active, Ended, InBody

(* Whatever way a body ends, what it leaves on the docker host is accounted *)
(* for by a command that answered an error, for every catalog whose bodies  *)
(* defer each removal in front of what it removes, a network's in front of  *)
(* its containers'.                                                         *)
THEOREM CellAsFoundHolds == Spec => []CellAsFound
<1>1. Framed /\ CellHeld => CellAsFound
  <2>1. SUFFICES ASSUME Framed, CellHeld, Ended PROVE CellAsFound
    BY DEF CellAsFound
  <2>2. Own /\ phase = "over"
    BY <2>1 DEF Own, Ended
  <2>3. \A op, x : ~OnStack(op, x)
    BY <2>1, <2>2 DEF Framed, Places, OnStack
  <2>4. starting = {}
    BY <2>1, <2>2, <2>3, StartingRemoved DEF CellHeld
  <2>5. \A c \in Boxes \ {"old"} : on[c] # {} => Stuck(c)
    BY <2>1, <2>2, <2>3 DEF CellHeld, BoxHeld, Held, InHand
  <2>6. body \notin LeavesItsNetwork => \A n \in nets : <<"down", n>> \in failed \/ ~Free(n)
    BY <2>1, <2>2, <2>3 DEF CellHeld, NetHeld, Secured, Dropped, Pinned, Free
  <2>7. main # "up" => <<"told", Main>> \in failed
    BY <2>1, <2>2, <2>3 DEF CellHeld, MainHeld
  <2>8. plugin = "previous" => found.plugin = "previous" \/ verdict # "PASS"
    BY <2>1 DEF CellHeld, TagHeld, TagKept
  <2> QED
    BY <2>4, <2>5, <2>6, <2>7, <2>8 DEF CellAsFound, Stuck
<1>2. Framed /\ CellHeld /\ [Next]_vars => (Framed /\ CellHeld)'
  BY FramedKept, CellHeldKept
<1> QED
  BY <1>1, <1>2, CellHeldInit, InitFramed, PTL DEF Spec

=============================================================================
