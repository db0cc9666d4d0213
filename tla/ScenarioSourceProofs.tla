---- MODULE ScenarioSourceProofs ----
(***************************************************************************)
(* Proofs about ScenarioBodies: what a body leaves of the source.          *)
(***************************************************************************)
EXTENDS ScenarioBodiesProofs

(* The places of a change's restores on a stack.                           *)
Restores(q, x) == {d \in DOMAIN q : q[d].op \in {"quiet", "told"} /\ q[d].x = x}

(* A restore of the change is on the stack and will do something.          *)
Live(x) == x \notin done /\ Restores(defers, x) # {}

-----------------------------------------------------------------------------
(* Restores come and go at the top of the stack.                           *)

LEMMA RestoresPush ==
  ASSUME NEW q \in Seq(Cleanups), NEW e \in Cleanups, NEW x
  PROVE  /\ Restores(q, x) \subseteq 1..Len(q) /\ Len(q) \in Nat
         /\ e.op \in {"quiet", "told"} /\ e.x = x => Restores(Append(q, e), x) = Restores(q, x) \cup {Len(q) + 1}
         /\ ~(e.op \in {"quiet", "told"} /\ e.x = x) => Restores(Append(q, e), x) = Restores(q, x)
<1> DEFINE a == Append(q, e)
<1>1. /\ a[Len(q) + 1] = e /\ DOMAIN q = 1..Len(q) /\ DOMAIN a = 1..(Len(q) + 1) /\ Len(q) \in Nat
      /\ \A d \in DOMAIN q : a[d] = q[d]
  BY AppendIs
<1>2. DOMAIN a = DOMAIN q \cup {Len(q) + 1}
  BY <1>1
<1> HIDE DEF a
<1>3. Restores(q, x) \subseteq 1..Len(q)
  BY <1>1 DEF Restores
<1>4. ASSUME e.op \in {"quiet", "told"}, e.x = x PROVE Restores(a, x) = Restores(q, x) \cup {Len(q) + 1}
  BY <1>1, <1>2, <1>4 DEF Restores
<1>5. ASSUME ~(e.op \in {"quiet", "told"} /\ e.x = x) PROVE Restores(a, x) = Restores(q, x)
  BY <1>1, <1>2, <1>5 DEF Restores
<1> QED
  BY <1>1, <1>3, <1>4, <1>5 DEF a

LEMMA RestoresPop ==
  ASSUME NEW q \in Seq(Cleanups), q # <<>>, NEW x
  PROVE  /\ Restores(q, x) \subseteq 1..Len(q) /\ Len(q) \in Nat
         /\ Restores(SubSeq(q, 1, Len(q) - 1), x) = Restores(q, x) \ {Len(q)}
         /\ Len(q) \in Restores(q, x) <=> q[Len(q)].op \in {"quiet", "told"} /\ q[Len(q)].x = x
<1> DEFINE r == SubSeq(q, 1, Len(q) - 1)
<1>1. /\ Len(q) \in Nat /\ Len(q) \in DOMAIN q /\ DOMAIN q = 1..Len(q) /\ DOMAIN r = 1..(Len(q) - 1)
      /\ \A e \in DOMAIN r : e \in DOMAIN q /\ e < Len(q) /\ r[e] = q[e]
  BY PopLeaves
<1>2. DOMAIN r = DOMAIN q \ {Len(q)}
  BY <1>1
<1> HIDE DEF r
<1>3. Restores(r, x) = Restores(q, x) \ {Len(q)}
  BY <1>1, <1>2 DEF Restores
<1>4. Restores(q, x) \subseteq 1..Len(q)
  BY <1>1 DEF Restores
<1>5. Len(q) \in Restores(q, x) <=> q[Len(q)].op \in {"quiet", "told"} /\ q[Len(q)].x = x
  BY <1>1 DEF Restores
<1> QED
  BY <1>1, <1>3, <1>4, <1>5 DEF r

(* A body pushes a restore with a change it has made or, of a stop, has    *)
(* begun; what it defers by itself is the end of an actor.                 *)
Pushes(y) == Restores(defers, y)' = Restores(defers, y) \cup {Len(defers) + 1}

LEMMA BodyStack ==
  ASSUME Framed, BodyStep, NEW y \in Changes
  PROVE  /\ Restores(defers, y) \subseteq 1..Len(defers) /\ Len(defers) \in Nat
         /\ \/ Restores(defers, y)' = Restores(defers, y)
            \/ Pushes(y) /\ At("later") /\ y \in Actors
            \/ Pushes(y) /\ At("change") /\ Cur.x = y /\ ~Refuses(src, y) /\ (ChangeMade \/ y \in DeferredFirst)
         /\ ChangeMade /\ Cur.x = y => Pushes(y)
<1>1. defers \in Seq(Cleanups)
  BY DEF Framed, Shape, TypeOK
<1>2. Restores(defers, y) \subseteq 1..Len(defers) /\ Len(defers) \in Nat
  BY <1>1, RestoresPush, PushedIs DEF Framed, Shape
<1>3. CASE defers' = defers /\ (At("change") => ~ChangeMade)
  BY <1>2, <1>3 DEF ChangeMade
<1>4. CASE At("later") /\ defers' = Append(defers, [op |-> Cur.y, x |-> Cur.x])
  <2>1. [op |-> Cur.y, x |-> Cur.x] \in Cleanups
    BY <1>4, PushedIs DEF Framed, Shape
  <2>2. Cur \in Steps /\ Cur.op = "later"
    BY <1>4, CurIs DEF At, Cur, Framed, Shape
  <2>3. ~ChangeMade
    BY <2>2 DEF ChangeMade, At, Cur
  <2>4. Cur.x \in Changes => Cur.x \in Actors
    BY <2>2, StepTypes
  <2>5. CASE Cur.y \in {"quiet", "told"} /\ Cur.x = y
    BY <1>1, <1>2, <1>4, <2>1, <2>3, <2>4, <2>5, RestoresPush DEF Pushes
  <2>6. CASE ~(Cur.y \in {"quiet", "told"} /\ Cur.x = y)
    BY <1>1, <1>2, <1>4, <2>1, <2>3, <2>6, RestoresPush
  <2> QED
    BY <2>5, <2>6
<1>5. CASE At("change") /\ defers' = Append(defers, [op |-> Cur.y, x |-> Cur.x])
  <2>1. [op |-> Cur.y, x |-> Cur.x] \in Cleanups
    BY <1>5, PushedIs DEF Framed, Shape
  <2>2. Cur \in Steps /\ Cur.op = "change"
    BY <1>5, CurIs DEF At, Cur, Framed, Shape
  <2>3. Cur.y \in {"quiet", "told"}
    BY <2>2, StepTypes
  <2>4. ~Refuses(src, Cur.x) /\ (ChangeMade \/ Cur.x \in DeferredFirst)
    <3>1. ChangeMade \/ ChangeFailed
      BY <1>5, StepIs
    <3>2. CASE ChangeFailed
      <4>1. defers # defers'
        BY <1>1, <1>5, <2>1, AppendIs
      <4> QED
        BY <3>2, <4>1 DEF ChangeFailed
    <3>3. CASE ChangeMade
      BY <3>3 DEF ChangeMade
    <3> QED
      BY <3>1, <3>2, <3>3
  <2>5. CASE Cur.x = y
    BY <1>1, <1>2, <1>5, <2>1, <2>3, <2>4, <2>5, RestoresPush DEF Pushes
  <2>6. CASE Cur.x # y
    BY <1>1, <1>2, <1>5, <2>1, <2>6, RestoresPush
  <2> QED
    BY <2>5, <2>6
<1>6. CASE At("enter") /\ defers' = Append(defers, [op |-> "mark", x |-> ""])
  <2>1. [op |-> "mark", x |-> ""] \in Cleanups
    BY PushedIs DEF Framed, Shape
  <2>2. ~ChangeMade
    BY <1>6 DEF ChangeMade, At
  <2> QED
    BY <1>1, <1>2, <1>6, <2>1, <2>2, RestoresPush
<1> QED
  BY <1>3, <1>4, <1>5, <1>6, BodyPushes

LEMMA PopStack ==
  ASSUME Framed, Popping, NEW y \in Changes
  PROVE  /\ Restores(defers, y) \subseteq 1..Len(defers) /\ Len(defers) \in Nat
         /\ Restores(defers, y)' = Restores(defers, y) \ {Len(defers)}
         /\ Len(defers) \in Restores(defers, y) <=> Top.op \in {"quiet", "told"} /\ Top.x = y
BY RestoresPop DEF Framed, Shape, TypeOK, Popping, Pop, Top

-----------------------------------------------------------------------------
(* What the rule that edits nest says of a place, and of the next one.     *)

MadeOnce(p, q, x) == \E i \in 1..(q - 1) : Is(p, i, "change", x)
MadeOn(p, q, x, y) == \E i, j \in 1..(q - 1) : i < j /\ Is(p, i, "change", x) /\ Is(p, j, "change", y)

LEMMA MadeLeads ==
  ASSUME NEW p \in Seq(Steps), NEW i, NEW q, Leads(p, i, q), NEW x, NEW y
  PROVE  /\ MadeOnce(p, i, x) => MadeOnce(p, q, x)
         /\ Is(p, i, "change", x) => MadeOnce(p, q, x)
         /\ MadeOn(p, i, x, y) => MadeOn(p, q, x, y)
         /\ MadeOnce(p, i, x) /\ Is(p, i, "change", y) => MadeOn(p, q, x, y)
<1>1. i \in Nat /\ q \in Nat /\ i < q /\ i \in 1..(q - 1)
  BY LeadsIs
<1>2. \A m \in 1..(i - 1) : m \in 1..(q - 1) /\ m < i
  BY <1>1
<1>3. MadeOnce(p, i, x) => MadeOnce(p, q, x)
  BY <1>2 DEF MadeOnce
<1>4. Is(p, i, "change", x) => MadeOnce(p, q, x)
  BY <1>1 DEF MadeOnce
<1>5. MadeOn(p, i, x, y) => MadeOn(p, q, x, y)
  BY <1>2 DEF MadeOn
<1>6. MadeOnce(p, i, x) /\ Is(p, i, "change", y) => MadeOn(p, q, x, y)
  BY <1>1, <1>2 DEF MadeOn, MadeOnce
<1> QED
  BY <1>3, <1>4, <1>5, <1>6

(* An edit another one was made on is neither made again nor taken back.   *)
LEMMA NotUnder ==
  ASSUME NEW p, EditsNest(p, Edits), NEW i \in DOMAIN p, DOMAIN p \subseteq Nat,
         NEW x \in Edits, NEW y \in Edits, x # y, MadeOn(p, i, x, y)
  PROVE  ~(p[i].op \in {"change", "undo"} /\ p[i].x = x)
<1>1. PICK a, b \in 1..(i - 1) : a < b /\ Is(p, a, "change", x) /\ Is(p, b, "change", y)
  BY DEF MadeOn
<1>2. a \in DOMAIN p /\ b \in DOMAIN p /\ MakesEdit(p, a, Edits) /\ MakesEdit(p, b, Edits) /\ p[a].x # p[b].x /\ p[a].x = x
  BY <1>1 DEF MakesEdit, Is
<1>3. b < i
  BY <1>1
<1> QED
  BY <1>1, <1>2, <1>3 DEF EditsNest

LEMMA ChangedLeads ==
  ASSUME NEW p \in Seq(Steps), NEW i, NEW q, Leads(p, i, q), NEW x, Changed(p, q, x)
  PROVE  Is(p, i, "change", x) \/ (Changed(p, i, x) /\ p[i].op # "return" /\ ~Is(p, i, "undo", x))
<1>1. /\ i \in 1..Len(p) /\ q \in Nat /\ i < q
      /\ \A k \in Always(p) : k < q => k \in 1..Len(p) /\ k <= i
  BY LeadsIs
<1>2. PICK k \in Always(p) : /\ k < q /\ Is(p, k, "change", x)
                             /\ \A r \in (k + 1)..(q - 1) : p[r].op # "return" /\ ~Is(p, r, "undo", x)
  BY DEF Changed
<1>3. k \in 1..Len(p) /\ k <= i
  BY <1>1, <1>2
<1>4. CASE k = i
  BY <1>2, <1>4
<1>5. CASE k < i
  <2>1. i \in (k + 1)..(q - 1)
    BY <1>1, <1>3, <1>5
  <2>2. \A r \in (k + 1)..(i - 1) : r \in (k + 1)..(q - 1)
    BY <1>1, <1>3
  <2>3. Changed(p, i, x)
    BY <1>2, <1>5, <2>2 DEF Changed
  <2> QED
    BY <1>2, <2>1, <2>3
<1> QED
  BY <1>1, <1>3, <1>4, <1>5

-----------------------------------------------------------------------------
(* Restores of edits lie on the stack in the order their edits were made   *)
(* in, none of one edit between two of another.                            *)
Offers == Active => \A x \in Edits \cup Stops : Restores(defers, x) # {} => x \in Offered(src.kind)
Rooted == InBody => \A x \in Edits : Restores(defers, x) # {} => MadeOnce(Prog, pc, x)
Ordered ==
  InBody => \A x, y \in Edits : \A d \in Restores(defers, x), e \in Restores(defers, y) :
              x # y /\ d < e => MadeOn(Prog, pc, x, y)
Uncrossed ==
  Active => \A x, y \in Edits : \A a, c \in Restores(defers, x), b \in Restores(defers, y) :
              a < b /\ b < c => x = y
LiveIsChanging == InBody => \A x \in Edits : Live(x) => Changing(Prog, pc, x)
ChangedIsLive == phase = "body" => \A x \in Changes : Changed(Prog, pc, x) => Live(x)

(* The steps behind which a body, or an inner function's stack, runs.      *)
LEMMA Inside ==
  ASSUME Framed, [Next]_vars, InBody'
  PROVE  /\ Prog' = Prog \/ Begun
         /\ Prog \in Seq(Steps) /\ EditsNest(Prog, Edits) /\ DOMAIN Prog \subseteq Nat
         /\ \/ BodyStep /\ phase = "body" /\ phase' = "body" /\ Leads(Prog, pc, pc')
            \/ BodyStep /\ phase = "body" /\ At("return") /\ pc' = pc /\ phase' = "return"
            \/ Unwind /\ Popping /\ phase = "return" /\ Cur.op = "return" /\ pc \in DOMAIN Prog
               /\ pc' = pc /\ phase' = "return"
            \/ Unwind /\ Popping /\ phase = "return" /\ Cur.op = "return" /\ Leads(Prog, pc, pc') /\ phase' = "body"
            \/ Begun
            \/ InBody /\ UNCHANGED <<pc, phase, defers, done>>
<1>1. Prog \in Seq(Steps) /\ EditsNest(Prog, Edits) /\ DOMAIN Prog \subseteq Nat
  BY RulesAre DEF Framed, Shape
<1>2. Own'
  BY DEF Own, Active, InBody
<1>3. CASE BodyStep /\ phase = "body"
  <2>1. CASE phase' = "body"
    BY <1>1, <1>3, <2>1, GoesOn
  <2>2. CASE phase' = "return"
    BY <1>1, <1>3, <2>2, BodyMoves DEF Onward, Out, Ending, At, Cur, Prog, Framed, Shape
  <2> QED
    BY <2>1, <2>2 DEF InBody
<1>4. CASE Unwind /\ phase \in {"return", "unwind"}
  <2>1. CASE phase' = "body"
    BY <1>1, <1>4, <2>1, ComesBack DEF Cur
  <2>2. CASE phase' = "return"
    BY <1>1, <1>4, <2>2, UnwindMoves DEF Popping, Over, Resumes, Prog, Framed, Places
  <2> QED
    BY <2>1, <2>2 DEF InBody
<1>5. CASE ((\E c \in Boxes : Landed(c)) \/ Untouched) /\ Own
  <2>1. UNCHANGED <<pc, phase, defers>> /\ Prog' = Prog
    BY <1>5, Idle
  <2>2. done' = done
    BY <1>5 DEF Landed, Untouched, source
  <2> QED
    BY <1>1, <2>1, <2>2 DEF InBody
<1> QED
  BY <1>1, <1>2, <1>3, <1>4, <1>5, Owned

(* A body that goes on behind a change has made it, behind an undo has     *)
(* undone it.                                                              *)
LEMMA BodyDone ==
  ASSUME Framed, BodyStep, InBody'
  PROVE  \/ done' = done /\ ~At("change") /\ ~At("undo")
         \/ ChangeMade /\ At("change") /\ Cur.x \in Changes /\ done' = done \ {Cur.x}
         \/ At("undo") /\ Cur.x \in Changes /\ done' = done \cup {Cur.x}
<1>1. \A op \in {"change", "undo"} : At(op) => Cur.x \in Changes /\ pc \in DOMAIN Prog /\ phase = "body"
  BY CurIs, StepTypes DEF At, Cur, Framed, Shape
<1>2. CASE At("change")
  <2>1. ~ChangeFailed
    BY DEF ChangeFailed, End, InBody
  <2>2. ChangeMade
    BY <1>2, <2>1, StepIs
  <2> QED
    BY <1>1, <1>2, <2>2 DEF ChangeMade
<1>3. CASE At("undo")
  <2>1. UndoNow
    BY <1>3, StepIs
  <2> QED
    BY <1>1, <1>3, <2>1 DEF UndoNow, End, InBody
<1> QED
  BY <1>2, <1>3, BodyFrame

(* At a pop only the top goes, and what is done stays done.                *)
LEMMA PopDone ==
  ASSUME Unwind
  PROVE  done \subseteq done'
BY UnwindFrame DEF PopQuiet, PopTold, PopRestore

LEMMA BeginsBare ==
  ASSUME Framed, Begun
  PROVE  pc' = 1 /\ phase' = "body" /\ \A x : Restores(defers, x)' = {}
BY DEF Framed, Places, Begun, Begin, Restores

LEMMA RootedKept == Framed /\ Rooted /\ [Next]_vars => Rooted'
<1> SUFFICES ASSUME Framed, Rooted, [Next]_vars, InBody', NEW x \in Edits, Restores(defers, x)' # {}
             PROVE  MadeOnce(Prog, pc, x)'
  BY DEF Rooted
<1>0. x \in Changes /\ x \notin Actors /\ x \notin DeferredFirst
  BY DEF Changes, Edits, Actors, DeferredFirst, Features, Features4, Features6, Adverts
<1>1. CASE BodyStep /\ phase = "body" /\ phase' = "body" /\ Leads(Prog, pc, pc') /\ Prog' = Prog
  <2>1. Restores(defers, x) # {} \/ (At("change") /\ Cur.x = x)
    BY <1>0, <1>1, BodyStack
  <2>2. CASE Restores(defers, x) # {}
    BY <1>1, <2>2, Inside, MadeLeads DEF Rooted, InBody
  <2>3. CASE At("change") /\ Cur.x = x
    <3>1. Is(Prog, pc, "change", x)
      BY <2>3 DEF At, Cur, Is
    <3> QED
      BY <1>1, <3>1, Inside, MadeLeads
  <2> QED
    BY <2>1, <2>2, <2>3
<1>2. CASE BodyStep /\ phase = "body" /\ At("return") /\ pc' = pc /\ phase' = "return" /\ Prog' = Prog
  <2>1. Restores(defers, x) # {}
    BY <1>0, <1>2, BodyStack DEF At
  <2> QED
    BY <1>2, <2>1 DEF Rooted, InBody
<1>3. CASE Unwind /\ Popping /\ phase = "return" /\ pc' = pc /\ phase' = "return" /\ Prog' = Prog
  BY <1>0, <1>3, PopStack DEF Rooted, InBody
<1>4. CASE Unwind /\ Popping /\ phase = "return" /\ Leads(Prog, pc, pc') /\ phase' = "body" /\ Prog' = Prog
  BY <1>0, <1>4, PopStack, Inside, MadeLeads DEF Rooted, InBody
<1>5. CASE Begun
  BY <1>5, BeginsBare
<1>6. CASE InBody /\ UNCHANGED <<pc, phase, defers, done>> /\ Prog' = Prog
  BY <1>6 DEF Rooted, Restores
<1> QED
  BY <1>1, <1>2, <1>3, <1>4, <1>5, <1>6, Inside

LEMMA OrderedKept == Framed /\ Rooted /\ Ordered /\ [Next]_vars => Ordered'
<1> SUFFICES ASSUME Framed, Rooted, Ordered, [Next]_vars, InBody', NEW x \in Edits, NEW y \in Edits,
                    NEW d \in Restores(defers, x)', NEW e \in Restores(defers, y)', x # y, d < e
             PROVE  MadeOn(Prog, pc, x, y)'
  BY DEF Ordered
<1>0. /\ x \in Changes /\ x \notin Actors /\ x \notin DeferredFirst
      /\ y \in Changes /\ y \notin Actors /\ y \notin DeferredFirst
  BY DEF Changes, Edits, Actors, DeferredFirst, Features, Features4, Features6, Adverts
<1>1. CASE BodyStep /\ phase = "body" /\ phase' = "body" /\ Leads(Prog, pc, pc') /\ Prog' = Prog
  <2>1. CASE d \in Restores(defers, x) /\ e \in Restores(defers, y)
    BY <1>1, <2>1, Inside, MadeLeads DEF Ordered, InBody
  <2>2. CASE d \in Restores(defers, x) /\ e \notin Restores(defers, y)
    <3>1. At("change") /\ Cur.x = y
      BY <1>0, <1>1, <2>2, BodyStack
    <3>2. Is(Prog, pc, "change", y)
      BY <3>1 DEF At, Cur, Is
    <3>3. MadeOnce(Prog, pc, x)
      BY <1>1, <2>2 DEF Rooted, InBody
    <3> QED
      BY <1>1, <3>2, <3>3, Inside, MadeLeads
  <2>3. CASE d \notin Restores(defers, x)
    <3>1. d = Len(defers) + 1 /\ Len(defers) \in Nat
      BY <1>0, <1>1, <2>3, BodyStack DEF Pushes
    <3>2. e \in 1..(Len(defers) + 1)
      BY <1>0, <1>1, BodyStack DEF Pushes
    <3> QED
      BY <3>1, <3>2
  <2> QED
    BY <2>1, <2>2, <2>3
<1>2. CASE BodyStep /\ phase = "body" /\ At("return") /\ pc' = pc /\ phase' = "return" /\ Prog' = Prog
  <2>1. Restores(defers, x)' = Restores(defers, x) /\ Restores(defers, y)' = Restores(defers, y)
    BY <1>0, <1>2, BodyStack DEF At
  <2> QED
    BY <1>2, <2>1 DEF Ordered, InBody
<1>3. CASE Unwind /\ Popping /\ phase = "return" /\ pc' = pc /\ phase' = "return" /\ Prog' = Prog
  BY <1>0, <1>3, PopStack DEF Ordered, InBody
<1>4. CASE Unwind /\ Popping /\ phase = "return" /\ Leads(Prog, pc, pc') /\ phase' = "body" /\ Prog' = Prog
  <2>1. d \in Restores(defers, x) /\ e \in Restores(defers, y)
    BY <1>0, <1>4, PopStack
  <2> QED
    BY <1>4, <2>1, Inside, MadeLeads DEF Ordered, InBody
<1>5. CASE Begun
  BY <1>5, BeginsBare
<1>6. CASE InBody /\ UNCHANGED <<pc, phase, defers, done>> /\ Prog' = Prog
  BY <1>6 DEF Ordered, Restores
<1> QED
  BY <1>1, <1>2, <1>3, <1>4, <1>5, <1>6, Inside

LEMMA UncrossedKept == Framed /\ Rooted /\ Ordered /\ Uncrossed /\ [Next]_vars => Uncrossed'
<1> SUFFICES ASSUME Framed, Rooted, Ordered, Uncrossed, [Next]_vars, Active', NEW x \in Edits, NEW y \in Edits,
                    NEW a \in Restores(defers, x)', NEW b \in Restores(defers, y)', NEW c \in Restores(defers, x)',
                    a < b, b < c
             PROVE  x = y
  BY DEF Uncrossed
<1>0. /\ x \in Changes /\ x \notin Actors /\ x \notin DeferredFirst
      /\ y \in Changes /\ y \notin Actors /\ y \notin DeferredFirst
  BY DEF Changes, Edits, Actors, DeferredFirst, Features, Features4, Features6, Adverts
<1>1. CASE BodyStep /\ phase = "body"
  <2>1. /\ a \in 1..(Len(defers) + 1) /\ b \in 1..(Len(defers) + 1) /\ c \in 1..(Len(defers) + 1)
        /\ Len(defers) \in Nat
    BY <1>0, <1>1, BodyStack DEF Pushes
  <2>2. a # Len(defers) + 1 /\ b # Len(defers) + 1
    BY <2>1
  <2>3. a \in Restores(defers, x) /\ b \in Restores(defers, y)
    BY <1>0, <1>1, <2>2, BodyStack DEF Pushes
  <2>4. CASE c \in Restores(defers, x)
    BY <1>1, <2>3, <2>4 DEF Uncrossed, Active
  <2>5. CASE c \notin Restores(defers, x) /\ x # y
    <3>1. At("change") /\ Cur.x = x
      BY <1>0, <1>1, <2>5, BodyStack
    <3>2. pc \in DOMAIN Prog /\ Prog[pc].op = "change" /\ Prog[pc].x = x
      BY <3>1 DEF At, Cur
    <3>3. MadeOn(Prog, pc, x, y)
      BY <1>1, <2>3, <2>5 DEF Ordered, InBody
    <3>4. EditsNest(Prog, Edits) /\ DOMAIN Prog \subseteq Nat
      BY RulesAre DEF Framed, Shape
    <3> QED
      BY <2>5, <3>2, <3>3, <3>4, NotUnder
  <2> QED
    BY <2>4, <2>5
<1>2. CASE Unwind /\ phase \in {"return", "unwind"}
  <2>1. Popping
    BY <1>2, UnwindMoves DEF Over, Active
  <2> QED
    BY <1>0, <1>2, <2>1, PopStack DEF Uncrossed, Active
<1>3. CASE Begun
  BY <1>3, BeginsBare
<1>4. CASE ((\E k \in Boxes : Landed(k)) \/ Untouched) /\ Own
  BY <1>4, Idle DEF Uncrossed, Restores, Active
<1>5. Own'
  BY DEF Own
<1> QED
  BY <1>1, <1>2, <1>3, <1>4, <1>5, Owned

LEMMA OffersKept == Framed /\ Offers /\ [Next]_vars => Offers'
<1> SUFFICES ASSUME Framed, Offers, [Next]_vars, Active', NEW x \in Edits \cup Stops, Restores(defers, x)' # {}
             PROVE  x \in Offered(src'.kind)
  BY DEF Offers
<1>0. x \in Changes /\ x \notin Actors
  BY DEF Changes, Edits, Stops, Actors, Features, Features4, Features6, Adverts
<1>1. CASE BodyStep /\ phase = "body"
  <2>1. src'.kind = src.kind
    <3>1. found' = found /\ found'.src.kind = src'.kind /\ found.src.kind = src.kind
      BY <1>1, BodyFrame, FramedKept DEF Framed, Shape, TypeOK
    <3> QED
      BY <3>1
  <2>2. CASE Restores(defers, x) # {}
    BY <1>1, <2>1, <2>2 DEF Offers, Active
  <2>3. CASE ~Refuses(src, x)
    BY <2>1, <2>3 DEF Refuses
  <2> QED
    BY <1>0, <1>1, <2>2, <2>3, BodyStack
<1>2. CASE Unwind /\ phase \in {"return", "unwind"}
  <2>1. Popping
    BY <1>2, UnwindMoves DEF Over, Active
  <2>2. src'.kind = src.kind
    <3>1. found' = found /\ found'.src.kind = src'.kind /\ found.src.kind = src.kind
      BY <1>2, UnwindFrame, FramedKept DEF Framed, Shape, TypeOK
    <3> QED
      BY <3>1
  <2> QED
    BY <1>0, <1>2, <2>1, <2>2, PopStack DEF Offers, Active
<1>3. CASE Begun
  BY <1>3, BeginsBare
<1>4. CASE ((\E k \in Boxes : Landed(k)) \/ Untouched) /\ Own
  <2>1. src' = src
    BY <1>4 DEF Landed, Untouched, source
  <2> QED
    BY <1>4, <2>1, Idle DEF Offers, Restores, Active
<1>5. Own'
  BY DEF Own
<1> QED
  BY <1>1, <1>2, <1>3, <1>4, <1>5, Owned

LEMMA LiveIsChangingKept == Framed /\ LiveIsChanging /\ [Next]_vars => LiveIsChanging'
<1> SUFFICES ASSUME Framed, LiveIsChanging, [Next]_vars, InBody', NEW x \in Edits, Live(x)'
             PROVE  Changing(Prog, pc, x)'
  BY DEF LiveIsChanging
<1>0. x \in Changes /\ x \notin Actors /\ x \notin DeferredFirst
  BY DEF Changes, Edits, Actors, DeferredFirst, Features, Features4, Features6, Adverts
<1>1. CASE BodyStep /\ phase = "body" /\ phase' = "body" /\ Leads(Prog, pc, pc') /\ Prog' = Prog
  <2>1. CASE At("change") /\ Cur.x = x
    <3>1. Is(Prog, pc, "change", x)
      BY <2>1 DEF At, Cur, Is
    <3> QED
      BY <1>1, <3>1, Inside, ChangingLeads
  <2>2. CASE ~(At("change") /\ Cur.x = x)
    <3>1. x \notin done
      BY <1>1, <2>2, BodyDone DEF Live
    <3>2. Restores(defers, x) # {}
      BY <1>0, <1>1, <2>2, BodyStack DEF Live
    <3>3. ~Is(Prog, pc, "undo", x)
      <4>1. ASSUME Is(Prog, pc, "undo", x) PROVE x \in done'
        <5>1. At("undo") /\ Cur.x = x /\ ~At("change")
          BY <1>1, <4>1 DEF Is, At, Cur
        <5> QED
          BY <1>1, <5>1, BodyDone
      <4> QED
        BY <4>1 DEF Live
    <3> QED
      BY <1>1, <3>1, <3>2, <3>3, Inside, ChangingLeads DEF LiveIsChanging, InBody, Live
  <2> QED
    BY <2>1, <2>2
<1>2. CASE BodyStep /\ phase = "body" /\ At("return") /\ pc' = pc /\ phase' = "return" /\ Prog' = Prog
  <2>1. Live(x)
    BY <1>0, <1>2, BodyStack, BodyDone DEF At, Live
  <2> QED
    BY <1>2, <2>1 DEF LiveIsChanging, InBody
<1>3. CASE Unwind /\ Popping /\ phase = "return" /\ pc' = pc /\ phase' = "return" /\ Prog' = Prog
  BY <1>0, <1>3, PopStack, PopDone DEF LiveIsChanging, InBody, Live
<1>4. CASE Unwind /\ Popping /\ phase = "return" /\ Cur.op = "return" /\ Leads(Prog, pc, pc') /\ phase' = "body" /\ Prog' = Prog
  <2>1. Live(x) /\ ~Is(Prog, pc, "undo", x)
    BY <1>0, <1>4, PopStack, PopDone DEF Live, Is, Cur
  <2> QED
    BY <1>4, <2>1, Inside, ChangingLeads DEF LiveIsChanging, InBody
<1>5. CASE Begun
  BY <1>5, BeginsBare DEF Live
<1>6. CASE InBody /\ UNCHANGED <<pc, phase, defers, done>> /\ Prog' = Prog
  BY <1>6 DEF LiveIsChanging, Live, Restores
<1> QED
  BY <1>1, <1>2, <1>3, <1>4, <1>5, <1>6, Inside

LEMMA ChangedIsLiveKept == Framed /\ ChangedIsLive /\ [Next]_vars => ChangedIsLive'
<1> SUFFICES ASSUME Framed, ChangedIsLive, [Next]_vars, phase' = "body", NEW x \in Changes, Changed(Prog, pc, x)'
             PROVE  Live(x)'
  BY DEF ChangedIsLive
<1>0. InBody'
  BY DEF InBody
<1>1. CASE BodyStep /\ phase = "body" /\ phase' = "body" /\ Leads(Prog, pc, pc') /\ Prog' = Prog
  <2>1. CASE Is(Prog, pc, "change", x)
    <3>1. At("change") /\ ~At("undo") /\ Cur.x = x
      BY <1>1, <2>1 DEF Is, At, Cur
    <3>2. ChangeMade
      BY <1>0, <1>1, <3>1, BodyDone
    <3> QED
      BY <1>1, <3>1, <3>2, BodyStack DEF Live, Pushes, ChangeMade
  <2>2. CASE Changed(Prog, pc, x) /\ ~Is(Prog, pc, "undo", x) /\ ~Is(Prog, pc, "change", x)
    <3>1. ~(At("undo") /\ Cur.x = x) /\ ~(At("change") /\ Cur.x = x) /\ Live(x)
      BY <1>1, <2>2 DEF Is, At, Cur, ChangedIsLive
    <3>2. x \notin done'
      BY <1>0, <1>1, <3>1, BodyDone DEF Live
    <3>3. Restores(defers, x)' # {}
      BY <1>1, <3>1, BodyStack DEF Live, Pushes
    <3> QED
      BY <3>2, <3>3 DEF Live
  <2>3. Changed(Prog, pc', x)
    BY <1>1
  <2> QED
    BY <1>0, <1>1, <2>1, <2>2, <2>3, Inside, ChangedLeads
<1>2. CASE Unwind /\ Popping /\ phase = "return" /\ Cur.op = "return" /\ Leads(Prog, pc, pc') /\ phase' = "body" /\ Prog' = Prog
  <2>1. Changed(Prog, pc', x)
    BY <1>2
  <2>2. Is(Prog, pc, "change", x) \/ Prog[pc].op # "return"
    BY <1>0, <1>2, <2>1, Inside, ChangedLeads
  <2> QED
    BY <1>2, <2>2 DEF Is, Cur
<1>3. CASE Begun
  <2>1. pc' = 1 /\ Prog' = Prog
    BY <1>3, BeginsBare DEF Begun, Begin, Prog
  <2>2. Changed(Prog, 1, x)
    BY <2>1
  <2>3. \A k \in Always(Prog) : k \in DOMAIN Prog
    BY DEF Always
  <2>4. DOMAIN Prog = 1..Len(Prog)
    BY <1>0, Inside
  <2> QED
    BY <2>2, <2>3, <2>4 DEF Changed
<1>4. CASE InBody /\ UNCHANGED <<pc, phase, defers, done>> /\ Prog' = Prog
  BY <1>4 DEF ChangedIsLive, Live, Restores
<1> QED
  BY <1>0, <1>1, <1>2, <1>3, <1>4, Inside

Nested == Offers /\ Rooted /\ Ordered /\ Uncrossed /\ LiveIsChanging /\ ChangedIsLive

LEMMA NestedKept == Framed /\ Nested /\ [Next]_vars => Nested'
BY OffersKept, RootedKept, OrderedKept, UncrossedKept, LiveIsChangingKept, ChangedIsLiveKept DEF Nested

LEMMA NestedInit == Init => Nested
BY DEF Init, Nested, Offers, Rooted, Ordered, Uncrossed, LiveIsChanging, ChangedIsLive, Active, InBody

-----------------------------------------------------------------------------
(* What a step of a body or of its stack does to the source, and what it   *)
(* leaves to be restored.                                                  *)

(* The restores of the change are as they were.                            *)
Keeps(y) == (y \in done' <=> y \in done) /\ Restores(defers, y)' = Restores(defers, y)
Others(x) == \A y \in Changes \ {x} : Keeps(y)

(* No other edit was made on top of this one.                              *)
OnTop(x) == \A y \in Edits \ {x} : \A e \in Restores(defers, y), d \in Restores(defers, x) : e < d

Aside ==
  /\ UNCHANGED <<src, was, done, base>>
  /\ \A y \in Changes : /\ Restores(defers, y) \subseteq Restores(defers, y)'
                        /\ y \notin Actors => Restores(defers, y)' = Restores(defers, y)

(* A command about the change has answered an error.                       *)
Tried(x) ==
  /\ Others(x) /\ UNCHANGED <<was, base>> /\ Troubled({x})'
  /\ src' = src \/ ((x \in Actors \/ x \in Offered(src.kind)) /\ Touches(src, src', x))

Forward(x) ==
  /\ Others(x) /\ UNCHANGED base /\ ~Refuses(src, x)
  /\ src' = Set(src, x)
  /\ was' = IF IsEdit(src.kind, x) THEN [was EXCEPT ![x] = Captured(src, x)] ELSE was
  /\ x \notin done' /\ Restores(defers, x)' = Restores(defers, x) \cup {Len(defers) + 1}
  /\ x \in Edits => ~Live(x) /\ OnTop(x)'

Back(x) ==
  /\ Others(x) /\ UNCHANGED <<was, base>>
  /\ Live(x) /\ x \in done' /\ src' = Restored(src, x, Was(x))
  /\ x \in Actors \/ x \in Offered(src.kind)
  /\ x \in Edits => OnTop(x)

(* A restore already called is taken from the stack.                       *)
Passed(x) == Others(x) /\ UNCHANGED <<src, was, base>> /\ x \in done /\ x \in done'

Cleared ==
  /\ UNCHANGED <<was, base>> /\ \A y \in Changes : Keeps(y)
  /\ src' = LeasesReset(src) \/ (src' \in ResetFailed(src) /\ Troubled({"source"})')

Reserving ==
  /\ UNCHANGED was /\ \A y \in Changes : Keeps(y)
  /\ \A x \in Edits : ~Live(x)
  /\ \E by \in {"mac", "id"} :
       \/ src' = Reserved(src, by) /\ base' = Reread(src, base, by)
       \/ src' \in ReserveFailed(src, by) /\ UNCHANGED base /\ Troubled({"source"})'

Effect ==
  \/ Aside \/ Cleared \/ Reserving
  \/ \E x \in Changes : Tried(x) \/ Forward(x) \/ Back(x) \/ Passed(x)

(* At a place that makes or takes back an edit, nothing is above it.       *)
LEMMA NoneAbove ==
  ASSUME Framed, Nested, InBody, pc \in DOMAIN Prog, Prog[pc].op \in {"change", "undo"}, NEW x \in Edits, Prog[pc].x = x,
         NEW y \in Edits \ {x}, NEW e \in Restores(defers, y), NEW d \in Restores(defers, x)
  PROVE  e < d
<1>1. EditsNest(Prog, Edits) /\ DOMAIN Prog \subseteq Nat
  BY RulesAre DEF Framed, Shape
<1>2. ~MadeOn(Prog, pc, x, y)
  BY <1>1, NotUnder
<1>3. ~(d < e)
  BY <1>2 DEF Nested, Ordered
<1>4. d # e
  BY DEF Restores
<1>5. d \in DOMAIN defers /\ e \in DOMAIN defers /\ DOMAIN defers \subseteq Nat
  BY DEF Restores, Framed, Shape, TypeOK
<1> QED
  BY <1>3, <1>4, <1>5

LEMMA NotedIs ==
  ASSUME NEW op, NEW x, Note(op, x)
  PROVE  Troubled({x})'
<1>1. <<op, x>> \in failed' /\ <<op, x>>[2] \in {x}
  BY DEF Note
<1> QED
  BY <1>1 DEF Troubled

LEMMA ChangeEffect ==
  ASSUME Framed, Nested, BodyStep, At("change"), NEW x, x = Cur.x
  PROVE  x \in Changes /\ (Tried(x) \/ Forward(x))
<1>1. x \in Changes /\ pc \in DOMAIN Prog /\ phase = "body" /\ ~At("later") /\ Prog[pc].op = "change" /\ Prog[pc].x = x
  BY CurIs, StepTypes DEF At, Cur, Framed, Shape
<1>2. \A y \in Changes \ {x} : Restores(defers, y)' = Restores(defers, y)
  BY <1>1, BodyStack
<1>3. done' = done \ {x}
  BY StepIs DEF ChangeMade, ChangeFailed
<1>4. Others(x)
  BY <1>2, <1>3 DEF Others, Keeps
<1>5. CASE ChangeMade
  <2>1. /\ ~Refuses(src, x) /\ src' = Set(src, x) /\ UNCHANGED base
        /\ was' = IF IsEdit(src.kind, x) THEN [was EXCEPT ![x] = Captured(src, x)] ELSE was
    BY <1>5 DEF ChangeMade
  <2>2. Restores(defers, x)' = Restores(defers, x) \cup {Len(defers) + 1}
    BY <1>1, <1>5, BodyStack DEF Pushes
  <2>3. ASSUME x \in Edits PROVE ~Live(x)
    <3>1. EditsNest(Prog, Edits) /\ MakesEdit(Prog, pc, Edits)
      BY <1>1, <2>3, RulesAre DEF Framed, Shape, MakesEdit
    <3>2. ~Changing(Prog, pc, x)
      BY <1>1, <3>1 DEF EditsNest
    <3> QED
      BY <1>1, <2>3, <3>2 DEF Nested, LiveIsChanging, InBody
  <2>4. ASSUME x \in Edits, NEW y \in Edits \ {x}, NEW e \in Restores(defers, y)', NEW d \in Restores(defers, x)'
        PROVE  e < d
    <3>1. y \in Changes /\ e \in Restores(defers, y)
      BY <1>2, <2>4 DEF Changes
    <3>2. e \in 1..Len(defers) /\ Len(defers) \in Nat
      BY <3>1, BodyStack
    <3>3. CASE d = Len(defers) + 1
      BY <3>2, <3>3
    <3>4. CASE d \in Restores(defers, x)
      BY <1>1, <2>4, <3>1, <3>4, NoneAbove DEF InBody
    <3> QED
      BY <2>2, <2>4, <3>3, <3>4
  <2>5. x \in Edits => OnTop(x)'
    BY <2>4 DEF OnTop
  <2> QED
    BY <1>1, <1>3, <1>4, <2>1, <2>2, <2>3, <2>5 DEF Forward
<1>6. CASE ChangeFailed
  <2>1. UNCHANGED <<was, base>> /\ Troubled({x})'
    <3>1. Note("set", x)
      BY <1>6 DEF ChangeFailed, Lost
    <3> QED
      BY <1>6, <3>1, NotedIs DEF ChangeFailed
  <2>2. src' = src \/ (~Refuses(src, x) /\ src' \in SetFailed(src, x) \cup SetFailedTwice(src, x))
    BY <1>6 DEF ChangeFailed
  <2>3. src' = src \/ (x \in Offered(src.kind) /\ Touches(src, src', x))
    BY <1>1, <2>2, ChangedIs DEF Refuses, Framed
  <2> QED
    BY <1>1, <1>4, <2>1, <2>3 DEF Tried
<1> QED
  BY <1>5, <1>6, StepIs

LEMMA UndoEffect ==
  ASSUME Framed, Nested, BodyStep, At("undo"), NEW x, x = Cur.x
  PROVE  x \in Changes /\ (Tried(x) \/ Back(x))
<1>1. /\ x \in Changes /\ pc \in DOMAIN Prog /\ phase = "body" /\ ~At("later") /\ ~At("change")
      /\ Prog[pc].op = "undo" /\ Prog[pc].x = x /\ UndoNow
  BY CurIs, StepTypes, StepIs DEF At, Cur, Framed, Shape
<1>2. \A y \in Changes : Restores(defers, y)' = Restores(defers, y)
  BY <1>1, BodyStack
<1>3. done' \in {done, done \cup {x}} /\ UNCHANGED <<was, base>>
  BY <1>1 DEF UndoNow
<1>4. Others(x)
  BY <1>2, <1>3 DEF Others, Keeps
<1>5. Live(x)
  <2>1. EditsNest(Prog, Edits)
    BY RulesAre DEF Framed, Shape
  <2>2. Changed(Prog, pc, x)
    BY <1>1, <2>1 DEF EditsNest
  <2> QED
    BY <1>1, <2>2 DEF Nested, ChangedIsLive
<1>6. x \in Actors \/ x \in Offered(src.kind)
  BY <1>1, <1>5 DEF Nested, Offers, Active, Live, Changes
<1>7. CASE src' = Restored(src, x, Was(x)) /\ done' = done \cup {x}
  <2>1. x \in Edits => OnTop(x)
    BY <1>1, NoneAbove DEF OnTop, InBody
  <2> QED
    BY <1>1, <1>3, <1>4, <1>5, <1>6, <1>7, <2>1 DEF Back
<1>8. CASE Lost("undo", x) /\ src' \in RestoreLost(src, x, Was(x))
  <2>1. Troubled({x})'
    BY <1>8, NotedIs DEF Lost
  <2>2. src' = src \/ Touches(src, src', x)
    BY <1>1, <1>8, ChangedIs DEF Framed
  <2> QED
    BY <1>1, <1>3, <1>4, <1>6, <2>1, <2>2 DEF Tried
<1> QED
  BY <1>1, <1>7, <1>8 DEF UndoNow

LEMMA BodyEffect ==
  ASSUME Framed, Nested, BodyStep
  PROVE  Effect
<1>0. phase = "body" /\ InBody
  BY BodyMoves DEF InBody, Framed, Shape
<1>1. CASE At("change")
  <2>1. PICK x : x = Cur.x
    OBVIOUS
  <2> QED
    BY <1>1, <2>1, ChangeEffect DEF Effect
<1>2. CASE At("undo")
  <2>1. PICK x : x = Cur.x
    OBVIOUS
  <2> QED
    BY <1>2, <2>1, UndoEffect DEF Effect
<1>3. CASE ~At("change") /\ ~At("undo")
  <2>1. done' = done /\ was' = was
    BY <1>3, BodyFrame
  <2>2. \A y \in Changes : /\ Restores(defers, y) \subseteq Restores(defers, y)'
                           /\ y \notin Actors => Restores(defers, y)' = Restores(defers, y)
    BY <1>3, BodyStack DEF Pushes
  <2>3. ~At("later") => \A y \in Changes : Restores(defers, y)' = Restores(defers, y)
    BY <1>3, BodyStack
  <2>4. CASE At("do")
    <3>1. Disturb /\ ~At("later") /\ UNCHANGED base
      BY <2>4, StepIs, BodyFrame DEF At
    <3>2. CASE src' = src
      BY <2>1, <2>2, <3>1, <3>2 DEF Aside, Effect
    <3>3. CASE src' = LeasesReset(src)
      BY <2>1, <2>3, <3>1, <3>3 DEF Cleared, Keeps, Effect
    <3>4. CASE Cur.x = "source" /\ Note("do", Cur.x) /\ src' \in ResetFailed(src)
      <4>1. Troubled({"source"})'
        BY <3>4, NotedIs
      <4> QED
        BY <2>1, <2>3, <3>1, <3>4, <4>1 DEF Cleared, Keeps, Effect
    <3>5. src' = src \/ src' = LeasesReset(src) \/ (Cur.x = "source" /\ Note("do", Cur.x) /\ src' \in ResetFailed(src))
      BY <3>1 DEF Disturb
    <3> QED
      BY <3>2, <3>3, <3>4, <3>5
  <2>5. CASE At("reserve")
    <3>1. PICK by : by = Cur.x
      OBVIOUS
    <3>2. /\ Reserve /\ ~At("later") /\ by \in {"mac", "id"}
          /\ pc \in DOMAIN Prog /\ Prog[pc].op = "reserve"
      BY <1>0, <2>5, <3>1, StepIs, CurIs, StepTypes DEF At, Cur, Framed, Shape
    <3>3. ASSUME NEW x \in Edits PROVE ~Live(x)
      <4>1. EditsNest(Prog, Edits)
        BY RulesAre DEF Framed, Shape
      <4>2. \A j \in 1..(pc - 1) : ~MakesEdit(Prog, j, Edits)
        BY <3>2, <4>1 DEF EditsNest
      <4>3. ~MadeOnce(Prog, pc, x)
        BY <3>3, <4>2 DEF MadeOnce, Is, MakesEdit
      <4> QED
        BY <1>0, <3>3, <4>3 DEF Nested, Rooted, Live
    <3>4. CASE src' = Reserved(src, by) /\ base' = Reread(src, base, by)
      BY <2>1, <2>3, <3>2, <3>3, <3>4 DEF Reserving, Keeps, Effect
    <3>5. CASE Lost("reserve", "source") /\ src' \in ReserveFailed(src, by) /\ UNCHANGED base
      <4>1. Troubled({"source"})'
        BY <3>5, NotedIs DEF Lost
      <4> QED
        BY <2>1, <2>3, <3>2, <3>3, <3>5, <4>1 DEF Reserving, Keeps, Effect
    <3>6. CASE UNCHANGED <<src, base>>
      BY <2>1, <2>2, <3>6 DEF Aside, Effect
    <3> QED
      BY <3>1, <3>2, <3>4, <3>5, <3>6 DEF Reserve
  <2>6. CASE ~At("do") /\ ~At("reserve")
    BY <1>3, <2>1, <2>2, <2>6, BodyFrame DEF Aside, Effect
  <2> QED
    BY <2>4, <2>5, <2>6
<1> QED
  BY <1>1, <1>2, <1>3

(* A restore taken from the stack was the last one made.                   *)
LEMMA TopIsLast ==
  ASSUME Framed, Nested, Popping, NEW x \in Edits, Top.op \in {"quiet", "told"}, Top.x = x
  PROVE  OnTop(x)
<1>1. /\ Len(defers) \in Restores(defers, x) /\ Len(defers) \in Nat
      /\ Restores(defers, x) \subseteq 1..Len(defers)
  BY PopStack DEF Changes
<1>2. ASSUME NEW y \in Edits \ {x}, NEW e \in Restores(defers, y), NEW d \in Restores(defers, x)
      PROVE  e < d
  <2>1. e \in 1..Len(defers) /\ d \in 1..Len(defers)
    BY <1>1, PopStack DEF Changes
  <2>2. e # d /\ e # Len(defers)
    BY <1>1 DEF Restores
  <2>3. ~(d < e /\ e < Len(defers))
    BY <1>1 DEF Nested, Uncrossed, Active, Popping
  <2> QED
    BY <1>1, <2>1, <2>2, <2>3
<1> QED
  BY <1>2 DEF OnTop

LEMMA RestoreEffect ==
  ASSUME Framed, Nested, Popping, NEW op \in {"quiet", "told"}, PopRestore(op), NEW x, x = Top.x
  PROVE  x \in Changes /\ (Tried(x) \/ Back(x) \/ Passed(x))
<1>1. x \in Changes /\ Top.op = op /\ phase \in {"return", "unwind"} /\ UNCHANGED <<was, base>> /\ done' = done \cup {x}
  BY DEF PopRestore, Next1, Popping
<1>2. /\ Len(defers) \in Restores(defers, x)
      /\ \A y \in Changes \ {x} : Restores(defers, y)' = Restores(defers, y)
  BY <1>1, PopStack
<1>3. Others(x)
  BY <1>1, <1>2 DEF Others, Keeps
<1>4. x \in Actors \/ x \in Offered(src.kind)
  BY <1>1, <1>2 DEF Nested, Offers, Active, Changes
<1>5. CASE x \in done /\ UNCHANGED src
  BY <1>1, <1>3, <1>5 DEF Passed
<1>6. CASE x \notin done /\ src' = Restored(src, x, Was(x))
  <2>1. x \in Edits => OnTop(x)
    BY <1>1, TopIsLast
  <2>2. Live(x)
    BY <1>2, <1>6 DEF Live
  <2> QED
    BY <1>1, <1>3, <1>4, <1>6, <2>1, <2>2 DEF Back
<1>7. CASE Lost(op, x) /\ src' \in RestoreLost(src, x, Was(x))
  <2>1. Troubled({x})'
    BY <1>7, NotedIs DEF Lost
  <2>2. src' = src \/ Touches(src, src', x)
    BY <1>1, <1>7, ChangedIs DEF Framed
  <2> QED
    BY <1>1, <1>3, <1>4, <2>1, <2>2 DEF Tried
<1> QED
  BY <1>1, <1>5, <1>6, <1>7 DEF PopRestore

LEMMA UnwindEffect ==
  ASSUME Framed, Nested, Unwind
  PROVE  Effect
<1>1. UNCHANGED <<was, base>>
  BY UnwindFrame
<1>2. CASE Over
  BY <1>2 DEF Over, source, Effect, Aside, Restores
<1>3. CASE Popping /\ (PopQuiet \/ PopTold)
  <2>1. PICK x : x = Top.x
    OBVIOUS
  <2>2. PICK op \in {"quiet", "told"} : PopRestore(op)
    BY <1>3 DEF PopQuiet, PopTold
  <2> QED
    BY <1>3, <2>1, <2>2, RestoreEffect DEF Effect
<1>4. CASE Popping /\ ~(PopQuiet \/ PopTold)
  <2>1. ~(Top.op \in {"quiet", "told"} /\ Top.x \in Changes)
    <3>1. Main \notin Changes
      BY DEF Main, Changes, Edits, Features, Features4, Features6, Adverts, Actors, Stops
    <3> QED
      BY <1>4, <3>1, PopIs DEF Popping
  <2>2. \A y \in Changes : Restores(defers, y)' = Restores(defers, y)
    BY <1>4, <2>1, PopStack
  <2>3. UNCHANGED <<src, done>>
    BY <1>4, UnwindFrame
  <2> QED
    BY <1>1, <2>2, <2>3 DEF Effect, Aside
<1> QED
  BY <1>2, <1>3, <1>4, UnwindMoves

(* Every step behind which a source is looked after.                       *)
LEMMA Effects ==
  ASSUME Framed, Nested, [Next]_vars, Own'
  PROVE  \/ Begun
         \/ Own /\ found' = found /\ failed \subseteq failed' /\ src'.kind = src.kind /\ Effect
<1>0. src'.kind = found'.src.kind /\ src.kind = found.src.kind
  BY FramedKept DEF Framed, Shape, TypeOK
<1>1. CASE BodyStep /\ phase = "body"
  BY <1>0, <1>1, BodyEffect, BodyFrame, FailedGrows DEF Own, Active
<1>2. CASE Unwind /\ phase \in {"return", "unwind"}
  BY <1>0, <1>2, UnwindEffect, UnwindFrame, FailedGrows DEF Own, Active
<1>3. CASE ((\E c \in Boxes : Landed(c)) \/ Untouched) /\ Own
  <2>1. UNCHANGED <<src, was, done, base, defers, found, failed>>
    BY <1>3, Idle DEF Landed, Untouched, source
  <2> QED
    BY <1>3, <2>1 DEF Effect, Aside, Restores
<1> QED
  BY <1>1, <1>2, <1>3, Owned

-----------------------------------------------------------------------------
(* What a body has found, and what has become of it.                       *)

(* A scenario begins on a ready source, with the copy of the process.      *)
Ground ==
  Own => /\ found.src.up = FilesOf(src.kind) /\ found.src.actors = {}
         /\ base.taken /\ base.addr = found.src.addr
         /\ Appliance(src.kind) => base.disk = found.src.disk

(* An actor, a moved address, a stopped unit: its restore is to come, or a *)
(* command about it has answered an error.                                 *)
ActorsHeld == Own => \A a \in src.actors : Troubled({a}) \/ Live(a)

AddrHeld ==
  Own => \A m \in Moving :
           \/ Troubled({m})
           \/ IF Live(m) THEN was[m].addr = found.src.addr \cap {m} ELSE m \in src.addr <=> m \in found.src.addr

Halts(x, f) == x \in Changes /\ ~IsEdit(src.kind, x) /\ f \in Stopped(src.kind, x)

UpHeld ==
  Own => /\ src.up \subseteq FilesOf(src.kind)
         /\ \A f \in FilesOf(src.kind) \ src.up :
              Troubled(Touching(f) \cup {"source"}) \/ \E x : Live(x) /\ Halts(x, f)

LEMMA BegunIs ==
  ASSUME Framed, Begun
  PROVE  /\ src' = src /\ found'.src = src /\ failed' = {} /\ base'.taken
         /\ src.up = FilesOf(src.kind) /\ src.actors = {}
         /\ base'.disk = src.disk /\ base'.addr = src.addr
         /\ \A x : ~Live(x)'
<1>1. src' = src /\ found'.src = src /\ failed' = {} /\ base' = Baseline(src, base)
  BY DEF Begun, Begin
<1>2. \A x : ~Live(x)'
  BY BeginsBare DEF Live
<1> QED
  BY <1>1, <1>2 DEF Begun, Ready, Same, Baseline

LEMMA TroubleStays ==
  ASSUME failed \subseteq failed', NEW xs, Troubled(xs)
  PROVE  Troubled(xs)'
BY DEF Troubled

LEMMA TroubleIs ==
  ASSUME NEW x, NEW xs, x \in xs, Troubled({x})'
  PROVE  Troubled(xs)'
BY DEF Troubled

(* A change moves nothing but what is its own.                             *)
LEMMA MovesOwn ==
  ASSUME Framed, NEW x \in Changes, Tried(x) \/ Forward(x) \/ Back(x) \/ Passed(x)
  PROVE  src' = src \/ ((x \in Actors \/ x \in Offered(src.kind)) /\ Touches(src, src', x))
<1>1. Forward(x) => x \in Offered(src.kind)
  BY DEF Forward, Refuses
<1>2. CASE Forward(x) \/ Back(x)
  BY <1>1, <1>2, ChangedIs DEF Forward, Back, Framed
<1> QED
  BY <1>2 DEF Tried, Passed

LEMMA OthersLive ==
  ASSUME NEW x \in Changes, Others(x), NEW y \in Changes \ {x}
  PROVE  Live(y)' <=> Live(y)
BY DEF Others, Keeps, Live

LEMMA SameLive ==
  ASSUME NEW y \in Changes, Keeps(y)
  PROVE  Live(y)' <=> Live(y)
BY DEF Keeps, Live

LEMMA AsideLive ==
  ASSUME Aside, NEW y \in Changes
  PROVE  /\ Live(y) => Live(y)'
         /\ y \notin Actors => (Live(y)' <=> Live(y))
BY DEF Aside, Live

LEMMA GroundKept == Framed /\ Nested /\ Ground /\ [Next]_vars => Ground'
<1> SUFFICES ASSUME Framed, Nested, Ground, [Next]_vars, Own'
             PROVE  /\ found'.src.up = FilesOf(src'.kind) /\ found'.src.actors = {}
                    /\ base'.taken /\ base'.addr = found'.src.addr
                    /\ Appliance(src'.kind) => base'.disk = found'.src.disk
  BY DEF Ground
<1>1. CASE Begun
  BY <1>1, BegunIs
<1>2. CASE Own /\ found' = found /\ src'.kind = src.kind /\ UNCHANGED base
  BY <1>2 DEF Ground
<1>3. CASE Own /\ found' = found /\ src'.kind = src.kind /\ \E by \in {"mac", "id"} : base' = Reread(src, base, by)
  <2>1. PICK by \in {"mac", "id"} : base' = Reread(src, base, by)
    BY <1>3
  <2>2. base \in Copies
    BY Shapes DEF Framed, Shape, SourceOK
  <2>3. base'.taken = base.taken /\ base'.addr = base.addr
    BY <2>1, <2>2 DEF Reread, Copies
  <2>4. Appliance(src.kind) => base'.disk = base.disk
    <3>1. Appliance(src.kind) => ReservedIn(src.kind, by) = {}
      BY DEF Appliance, ReservedIn
    <3>2. base.disk = [f \in Files |-> base.disk[f]]
      BY <2>2 DEF Copies
    <3>3. base'.disk = [f \in Files |-> IF f \in {g \in ReservedIn(src.kind, by) : src.kind = "openwrt" => base.disk[g] = src.disk[g]}
                                        THEN Reserved(src, by).disk[f] ELSE base.disk[f]]
      BY <2>1, <2>2 DEF Reread, Copies
    <3> QED
      BY <3>1, <3>2, <3>3
  <2> QED
    BY <1>3, <2>3, <2>4 DEF Ground
<1> QED
  BY <1>1, <1>2, <1>3, Effects DEF Effect, Aside, Cleared, Reserving, Tried, Forward, Back, Passed

LEMMA ActorsHeldKept == Framed /\ Nested /\ ActorsHeld /\ [Next]_vars => ActorsHeld'
<1> SUFFICES ASSUME Framed, Nested, ActorsHeld, [Next]_vars, Own', NEW a \in src'.actors
             PROVE  Troubled({a})' \/ Live(a)'
  BY DEF ActorsHeld
<1>1. CASE Begun
  BY <1>1, BegunIs
<1>2. ASSUME Own, failed \subseteq failed', a \in src.actors, Live(a) => Live(a)' PROVE Troubled({a})' \/ Live(a)'
  BY <1>2, TroubleStays DEF ActorsHeld
<1>3. src \in Sources /\ src' \in Sources /\ a \in Actors /\ a \in Changes
  <2>1. src \in Sources /\ src' \in Sources
    BY FramedKept DEF Framed, Shape, TypeOK
  <2> QED
    BY <2>1 DEF Sources, Changes
<1>4. CASE Own /\ failed \subseteq failed' /\ Aside
  BY <1>2, <1>3, <1>4, AsideLive DEF Aside
<1>5. CASE Own /\ failed \subseteq failed' /\ (Cleared \/ Reserving)
  <2>1. src'.actors = src.actors
    <3>1. CASE Cleared
      BY <1>3, <3>1, ResetWithin DEF Cleared, Within
    <3>2. CASE Reserving
      BY <1>3, <3>2, ReserveWithin DEF Reserving, Within
    <3> QED
      BY <1>5, <3>1, <3>2
  <2> QED
    BY <1>2, <1>3, <1>5, <2>1, SameLive DEF Cleared, Reserving
<1>6. CASE Own /\ failed \subseteq failed' /\ \E x \in Changes : Tried(x) \/ Forward(x) \/ Back(x) \/ Passed(x)
  <2>1. PICK x \in Changes : Tried(x) \/ Forward(x) \/ Back(x) \/ Passed(x)
    BY <1>6
  <2>2. CASE a # x
    <3>1. a \in src.actors
      <4>1. CASE x \in Actors /\ Touches(src, src', x)
        <5>1. PICK as \in SUBSET Actors : src' = [src EXCEPT !.actors = as] /\ as \ {x} = src.actors \ {x}
          BY <4>1 DEF Touches
        <5>2. src'.actors = as
          BY <1>3, <5>1 DEF Sources
        <5> QED
          BY <2>2, <5>1, <5>2
      <4>2. CASE x \notin Actors /\ Touches(src, src', x)
        BY <4>2 DEF Touches, Within
      <4> QED
        BY <2>1, <4>1, <4>2, MovesOwn
    <3> QED
      BY <1>2, <1>3, <1>6, <2>1, <2>2, <3>1, OthersLive DEF Tried, Forward, Back, Passed
  <2>3. CASE a = x
    <3>1. CASE Tried(x)
      BY <2>3, <3>1 DEF Tried
    <3>2. CASE Forward(x)
      BY <2>3, <3>2 DEF Forward, Live
    <3>3. CASE Back(x)
      BY <1>3, <2>3, <3>3, ActorIs DEF Back
    <3>4. CASE Passed(x)
      <4>1. a \in src.actors /\ ~Live(a)
        BY <2>3, <3>4 DEF Passed, Live
      <4> QED
        BY <1>2, <1>6, <4>1
    <3> QED
      BY <2>1, <3>1, <3>2, <3>3, <3>4
  <2> QED
    BY <2>2, <2>3
<1> QED
  BY <1>1, <1>4, <1>5, <1>6, Effects DEF Effect

LEMMA AddrHeldKept == Framed /\ Nested /\ AddrHeld /\ [Next]_vars => AddrHeld'
<1> DEFINE Fine(m) == IF Live(m) THEN was[m].addr = found.src.addr \cap {m} ELSE m \in src.addr <=> m \in found.src.addr
<1> SUFFICES ASSUME Framed, Nested, AddrHeld, [Next]_vars, Own', NEW m \in Moving
             PROVE  Troubled({m})' \/ Fine(m)'
  BY DEF AddrHeld
<1>0. m \in Changes /\ m \in Edits /\ m \notin Actors /\ IsEdit(src.kind, m)
  BY DEF Moving, Changes, Edits, Actors, Features, Features4, Features6, Adverts, IsEdit, IsStop, Stops
<1>1. CASE Begun
  BY <1>0, <1>1, BegunIs
<1>2. ASSUME Own, failed \subseteq failed', found' = found, Live(m)' <=> Live(m), was'[m] = was[m],
             m \in src'.addr <=> m \in src.addr
      PROVE  Troubled({m})' \/ Fine(m)'
  <2>1. Troubled({m}) \/ Fine(m)
    BY <1>2 DEF AddrHeld
  <2>2. Fine(m) => Fine(m)'
    BY <1>2
  <2> QED
    BY <1>2, <2>1, <2>2, TroubleStays
<1>3. src \in Sources /\ src' \in Sources /\ was \in [Edits -> Captures]
  BY FramedKept DEF Framed, Shape, TypeOK
<1>4. CASE Own /\ failed \subseteq failed' /\ found' = found /\ Aside
  BY <1>0, <1>2, <1>4, AsideLive DEF Aside
<1>5. CASE Own /\ failed \subseteq failed' /\ found' = found /\ (Cleared \/ Reserving)
  <2>1. src'.addr = src.addr
    <3>1. CASE Cleared
      BY <1>3, <3>1, ResetWithin DEF Cleared, Within
    <3>2. CASE Reserving
      BY <1>3, <3>2, ReserveWithin DEF Reserving, Within
    <3> QED
      BY <1>5, <3>1, <3>2
  <2> QED
    BY <1>0, <1>2, <1>5, <2>1, SameLive DEF Cleared, Reserving
<1>6. CASE Own /\ failed \subseteq failed' /\ found' = found /\ \E x \in Changes : Tried(x) \/ Forward(x) \/ Back(x) \/ Passed(x)
  <2>1. PICK x \in Changes : Tried(x) \/ Forward(x) \/ Back(x) \/ Passed(x)
    BY <1>6
  <2>2. CASE m # x
    <3>1. m \in src'.addr <=> m \in src.addr
      <4>1. CASE x \in Actors /\ Touches(src, src', x)
        <5>1. PICK as \in SUBSET Actors : src' = [src EXCEPT !.actors = as]
          BY <4>1 DEF Touches
        <5> QED
          BY <1>3, <5>1 DEF Sources
      <4>2. CASE x \notin Actors /\ Touches(src, src', x)
        BY <2>2, <4>2 DEF Touches, Within
      <4> QED
        BY <2>1, <4>1, <4>2, MovesOwn
    <3>2. was'[m] = was[m]
      BY <1>0, <1>3, <2>1, <2>2 DEF Tried, Forward, Back, Passed
    <3> QED
      BY <1>0, <1>2, <1>6, <2>1, <2>2, <3>1, <3>2, OthersLive DEF Tried, Forward, Back, Passed
  <2>3. CASE m = x
    <3>1. CASE Tried(x)
      BY <2>3, <3>1 DEF Tried
    <3>2. CASE Forward(x)
      <4>1. ~Live(m) /\ Live(m)'
        BY <1>0, <2>3, <3>2 DEF Forward, Live
      <4>2. was'[m] = Captured(src, m)
        BY <1>0, <1>3, <2>3, <3>2 DEF Forward
      <4>3. was'[m].addr = src.addr \cap {m}
        BY <4>2 DEF Captured
      <4>4. Troubled({m}) \/ Fine(m)
        BY <1>6 DEF AddrHeld
      <4>5. Fine(m) => Fine(m)'
        BY <1>6, <4>1, <4>3
      <4> QED
        BY <1>6, <4>4, <4>5, TroubleStays
    <3>3. CASE Back(x)
      <4>1. Live(m) /\ ~Live(m)'
        BY <2>3, <3>3 DEF Back, Live
      <4>2. src' = Restored(src, m, was[m]) /\ was[m] \in Captures
        BY <1>0, <1>3, <2>3, <3>3 DEF Back, Was
      <4>3. src'.addr = (src.addr \ {m}) \cup was[m].addr
        BY <1>0, <1>3, <4>2, EditTakenBack
      <4>4. Troubled({m}) \/ Fine(m)
        BY <1>6 DEF AddrHeld
      <4>5. Fine(m) => Fine(m)'
        BY <1>6, <4>1, <4>3
      <4> QED
        BY <1>6, <4>4, <4>5, TroubleStays
    <3>4. CASE Passed(x)
      <4>1. ~Live(m) /\ ~Live(m)'
        BY <2>3, <3>4 DEF Passed, Live
      <4> QED
        BY <1>2, <1>6, <3>4, <4>1 DEF Passed
    <3> QED
      BY <2>1, <3>1, <3>2, <3>3, <3>4
  <2> QED
    BY <2>2, <2>3
<1> QED
  BY <1>1, <1>4, <1>5, <1>6, Effects DEF Effect

LEMMA TouchingIs ==
  ASSUME NEW x \in Changes, x \notin Actors, x \in Offered(src.kind), src.kind \in Kinds, NEW f, f \in Cycled(src.kind, x)
  PROVE  x \in Touching(f)
<1>1. CASE IsEdit(src.kind, x)
  <2>1. x \in Edits /\ f \in Ran(src.kind, x)
    BY <1>1 DEF Cycled, IsEdit
  <2> QED
    BY <1>1, <2>1 DEF Ran, Units, Touching
<1>2. CASE ~IsEdit(src.kind, x)
  <2>1. f \in Stopped(src.kind, x) \cup Units(src.kind, Stopped(src.kind, x))
    BY <1>2 DEF Cycled, Halted
  <2>2. f \in Units(src.kind, Stopped(src.kind, x))
    BY <2>1, StoppedAre DEF Units
  <2> QED
    BY <2>2 DEF Units, Touching
<1> QED
  BY <1>1, <1>2

LEMMA UpHeldKept == Framed /\ Nested /\ UpHeld /\ [Next]_vars => UpHeld'
<1> SUFFICES ASSUME Framed, Nested, UpHeld, [Next]_vars, Own'
             PROVE  /\ src'.up \subseteq FilesOf(src'.kind)
                    /\ \A f \in FilesOf(src'.kind) \ src'.up :
                         Troubled(Touching(f) \cup {"source"})' \/ \E x : Live(x)' /\ Halts(x, f)'
  BY DEF UpHeld
<1>0. src \in Sources /\ src' \in Sources /\ src.kind \in Kinds
  <2>1. src \in Sources /\ src' \in Sources
    BY FramedKept DEF Framed, Shape, TypeOK
  <2> QED
    BY <2>1 DEF Sources
<1>1. CASE Begun
  BY <1>1, BegunIs
<1>2. CASE Own /\ failed \subseteq failed' /\ src'.kind = src.kind /\ Effect
  <2>1. src.up \subseteq FilesOf(src.kind)
    BY <1>2 DEF UpHeld
  <2>2. ASSUME NEW f, Troubled(Touching(f) \cup {"source"}) PROVE Troubled(Touching(f) \cup {"source"})'
    <3>1. Touching(f)' = Touching(f)
      BY <1>2 DEF Touching
    <3> QED
      BY <1>2, <2>2, <3>1 DEF Troubled
  <2>3. ASSUME NEW f, NEW x, x \in Touching(f) \cup {"source"}, Troubled({x})'
        PROVE  Troubled(Touching(f) \cup {"source"})'
    <3>1. Touching(f)' = Touching(f)
      BY <1>2 DEF Touching
    <3> QED
      BY <2>3, <3>1 DEF Troubled
  <2>4. \A x, f : Halts(x, f)' <=> Halts(x, f)
    BY <1>2 DEF Halts
  <2>5. ASSUME src.up \subseteq src'.up, src'.up \subseteq FilesOf(src.kind),
               \A x, f : Live(x) /\ Halts(x, f) => Live(x)' \/ f \in src'.up \/ Troubled({x})'
        PROVE  /\ src'.up \subseteq FilesOf(src.kind)
               /\ \A f \in FilesOf(src.kind) \ src'.up :
                    Troubled(Touching(f) \cup {"source"})' \/ \E x : Live(x)' /\ Halts(x, f)'
    <3> SUFFICES ASSUME NEW f \in FilesOf(src.kind) \ src'.up
                 PROVE  Troubled(Touching(f) \cup {"source"})' \/ \E x : Live(x)' /\ Halts(x, f)'
      BY <2>5
    <3>1. CASE Troubled(Touching(f) \cup {"source"})
      BY <2>2, <3>1
    <3>2. CASE ~Troubled(Touching(f) \cup {"source"})
      <4>1. PICK x : Live(x) /\ Halts(x, f)
        BY <1>2, <2>5, <3>2 DEF UpHeld
      <4>2. x \notin Actors
        BY <1>0, <4>1, ActorIs DEF Halts
      <4>3. x \in Touching(f)
        <5>1. x \in Changes /\ f \in Stopped(src.kind, x) /\ FilesOf(src.kind) \subseteq Files
          BY <1>0, <4>1, UnitsAre DEF Halts
        <5>2. f \in Unit(src.kind, f)
          BY <1>0, UnitsAre
        <5> QED
          BY <5>1, <5>2 DEF Touching
      <4> QED
        BY <2>3, <2>4, <2>5, <4>1, <4>3
    <3> QED
      BY <3>1, <3>2
  <2>6. CASE Aside
    BY <1>2, <2>1, <2>5, <2>6, AsideLive DEF Aside, Halts
  <2>7. CASE Cleared
    <3>1. \A y \in Changes : Live(y) => Live(y)'
      BY <2>7, SameLive DEF Cleared
    <3>2. src'.up \subseteq FilesOf(src.kind)
      BY <1>0, <2>1, <2>7, ResetWithin, CycledIs DEF Cleared, Within
    <3>3. CASE src' = LeasesReset(src)
      BY <1>0, <1>2, <2>5, <3>1, <3>2, <3>3, LeasesResetUp DEF Halts
    <3>4. CASE Troubled({"source"})'
      BY <1>2, <2>3, <3>2, <3>4
    <3> QED
      BY <2>7, <3>3, <3>4 DEF Cleared
  <2>8. CASE Reserving
    <3>1. \A y \in Changes : Live(y) => Live(y)'
      BY <2>8, SameLive DEF Reserving
    <3>2. src'.up \subseteq FilesOf(src.kind)
      <4>1. "conf" \in FilesOf(src.kind)
        BY DEF FilesOf
      <4>2. Units(src.kind, {"conf"}) \subseteq FilesOf(src.kind)
        BY <1>0, <4>1, UnitsAre DEF Units
      <4> QED
        BY <1>0, <2>1, <2>8, <4>2, ReserveWithin DEF Reserving, Within
    <3>3. CASE \E by \in {"mac", "id"} : src' = Reserved(src, by)
      BY <1>0, <1>2, <2>5, <3>1, <3>2, <3>3, ReservedIs DEF Halts
    <3>4. CASE Troubled({"source"})'
      BY <1>2, <2>3, <3>2, <3>4
    <3> QED
      BY <2>8, <3>3, <3>4 DEF Reserving
  <2>9. CASE \E x \in Changes : Tried(x) \/ Forward(x) \/ Back(x) \/ Passed(x)
    <3>1. PICK x \in Changes : Tried(x) \/ Forward(x) \/ Back(x) \/ Passed(x)
      BY <2>9
    <3>2. \A y \in Changes \ {x} : Live(y)' <=> Live(y)
      BY <3>1, OthersLive DEF Tried, Forward, Back, Passed
    <3>3. /\ src'.up \subseteq FilesOf(src.kind)
          /\ \A f \in src.up \ src'.up : x \notin Actors /\ x \in Offered(src.kind) /\ f \in Cycled(src.kind, x)
      <4>1. CASE x \in Actors /\ Touches(src, src', x)
        <5>1. PICK as \in SUBSET Actors : src' = [src EXCEPT !.actors = as]
          BY <4>1 DEF Touches
        <5>2. src'.up = src.up
          BY <1>0, <5>1 DEF Sources
        <5> QED
          BY <2>1, <5>2
      <4>2. CASE x \notin Actors /\ x \in Offered(src.kind) /\ Touches(src, src', x)
        <5>1. src.up \ src'.up \subseteq Cycled(src.kind, x) /\ src'.up \ src.up \subseteq Cycled(src.kind, x)
          BY <4>2 DEF Touches, Within
        <5>2. Cycled(src.kind, x) \subseteq FilesOf(src.kind)
          BY <1>0, <4>2, CycledIs
        <5> QED
          BY <2>1, <4>2, <5>1, <5>2
      <4> QED
        BY <2>1, <3>1, <4>1, <4>2, MovesOwn
    <3>4. CASE Tried(x)
      <4> SUFFICES ASSUME NEW f \in FilesOf(src.kind) \ src'.up
                   PROVE  Troubled(Touching(f) \cup {"source"})' \/ \E y : Live(y)' /\ Halts(y, f)'
        BY <1>2, <3>3
      <4>1. CASE f \in src.up
        BY <1>0, <2>3, <3>3, <3>4, <4>1, TouchingIs DEF Tried
      <4>2. CASE f \notin src.up /\ ~Troubled(Touching(f) \cup {"source"})
        <5>1. PICK y : Live(y) /\ Halts(y, f)
          BY <1>2, <4>2 DEF UpHeld
        <5>2. CASE y = x
          <6>1. x \in Touching(f)
            <7>1. f \in Unit(src.kind, f)
              BY <1>0, UnitsAre
            <7> QED
              BY <5>1, <5>2, <7>1 DEF Halts, Touching
          <6> QED
            BY <2>3, <3>4, <6>1 DEF Tried
        <5> QED
          BY <2>4, <3>2, <5>1, <5>2 DEF Halts
      <4> QED
        BY <2>2, <4>1, <4>2
    <3>5. CASE Forward(x) \/ Back(x)
      <4>1. CASE IsEdit(src.kind, x)
        <5>1. src.up \subseteq src'.up
          <6>1. Was(x) \in Captures
            BY WasIs DEF Framed
          <6> QED
            BY <1>0, <3>5, <4>1, <6>1, EditMade, EditTakenBack DEF Forward, Back
        <5>2. \A y, f : Live(y) /\ Halts(y, f) => Live(y)'
          BY <3>2, <4>1 DEF Halts
        <5> QED
          BY <1>2, <2>5, <3>3, <5>1, <5>2
      <4>2. CASE x \in Actors
        <5>1. src.up \subseteq src'.up
          BY <1>0, <3>5, <4>2, ActorIs DEF Forward, Back
        <5>2. \A y, f : Live(y) /\ Halts(y, f) => Live(y)'
          BY <1>0, <3>2, <4>2, ActorIs DEF Halts
        <5> QED
          BY <1>2, <2>5, <3>3, <5>1, <5>2
      <4>3. CASE ~IsEdit(src.kind, x) /\ x \notin Actors /\ Forward(x)
        <5>1. src'.up = src.up \ Stopped(src.kind, x) /\ Live(x)'
          BY <1>0, <4>3, StopIs DEF Forward, Refuses, Live
        <5> SUFFICES ASSUME NEW f \in FilesOf(src.kind) \ src'.up, ~Troubled(Touching(f) \cup {"source"})
                     PROVE  \E y : Live(y)' /\ Halts(y, f)'
          BY <1>2, <2>2, <3>3
        <5>2. CASE f \in src.up
          BY <2>4, <4>3, <5>1, <5>2 DEF Halts
        <5>3. CASE f \notin src.up
          <6>1. PICK y : Live(y) /\ Halts(y, f)
            BY <1>2, <5>3 DEF UpHeld
          <6> QED
            BY <2>4, <3>2, <5>1, <6>1 DEF Halts
        <5> QED
          BY <5>2, <5>3
      <4>4. CASE ~IsEdit(src.kind, x) /\ x \notin Actors /\ Back(x)
        <5>1. src.up \cup Stopped(src.kind, x) \subseteq src'.up
          BY <1>0, <4>4, StopIs DEF Back
        <5>2. \A y, f : Live(y) /\ Halts(y, f) => Live(y)' \/ f \in src'.up
          BY <3>2, <5>1 DEF Halts
        <5> QED
          BY <1>2, <2>5, <3>3, <5>1, <5>2
      <4> QED
        BY <3>5, <4>1, <4>2, <4>3, <4>4
    <3>6. CASE Passed(x)
      <4>1. src' = src /\ ~Live(x)
        BY <3>6 DEF Passed, Live
      <4> QED
        BY <1>2, <2>1, <2>5, <3>2, <4>1 DEF Halts
    <3> QED
      BY <3>1, <3>4, <3>5, <3>6
  <2> QED
    BY <1>2, <2>6, <2>7, <2>8, <2>9 DEF Effect
<1> QED
  BY <1>1, <1>2, Effects

-----------------------------------------------------------------------------
(* What a step does to one file, when no command about the file's edits or *)
(* about the source has answered an error.                                 *)
Off(f) == Troubled(EditsOf(f) \cup {"source"})
LiveFor(f) == {x \in EditsOf(f) : Live(x)}

Unmoved(ys) == \A y \in ys : /\ Live(y)' <=> Live(y)
                             /\ Live(y) => Restores(defers, y)' = Restores(defers, y)
                             /\ was'[y] = was[y]

FileKept(f) ==
  /\ src'.disk[f] = src.disk[f] /\ src'.serves[f] \in {src.serves[f], src.disk[f]}
  /\ base'.disk[f] = base.disk[f] /\ Unmoved(EditsOf(f))

FileReserved(f) ==
  /\ src'.disk[f] = src.disk[f] \cup {Reservation} /\ src'.serves[f] = src'.disk[f]
  /\ base.disk[f] = src.disk[f] => base'.disk[f] = src'.disk[f]
  /\ Unmoved(EditsOf(f)) /\ LiveFor(f) = {} /\ ~Appliance(src.kind)

FileChanged(f, x) ==
  /\ x \in EditsOf(f) /\ ~Live(x) /\ Live(x)' /\ OnTop(x)'
  /\ src'.disk[f] = src.disk[f] \cup {x} /\ src'.serves[f] = src'.disk[f]
  /\ was'[x] = Captured(src, x)
  /\ base'.disk[f] = base.disk[f] /\ Unmoved(EditsOf(f) \ {x})

FileRestored(f, x) ==
  /\ x \in EditsOf(f) /\ Live(x) /\ ~Live(x)' /\ OnTop(x)
  /\ src'.disk[f] = Former(src, x, was[x])[f] /\ src'.serves[f] = src'.disk[f]
  /\ base'.disk[f] = base.disk[f] /\ Unmoved(EditsOf(f) \ {x})

FileEffect(f) == FileKept(f) \/ FileReserved(f) \/ \E x \in Changes : FileChanged(f, x) \/ FileRestored(f, x)

LEMMA KeepsUnmoved ==
  ASSUME NEW ys, \A y \in ys : Keeps(y) /\ was'[y] = was[y]
  PROVE  Unmoved(ys)
BY DEF Unmoved, Keeps, Live

LEMMA EditsOfAre ==
  ASSUME NEW f, NEW x
  PROVE  x \in EditsOf(f) => x \in Changes /\ x \in Edits /\ x \notin Actors /\ IsEdit(src.kind, x) /\ f \in HomeFiles(src.kind, x)
BY DEF EditsOf, Changes, Edits, Actors, Features, Features4, Features6, Adverts

LEMMA ReservedHere ==
  ASSUME NEW s \in Sources, NEW copy \in Copies, NEW by \in {"mac", "id"}, NEW f \in Files
  PROVE  /\ f \notin ReservedIn(s.kind, by) => Reread(s, copy, by).disk[f] = copy.disk[f]
         /\ f \in ReservedIn(s.kind, by) =>
              /\ ~Appliance(s.kind)
              /\ copy.disk[f] = s.disk[f] => Reread(s, copy, by).disk[f] = Reserved(s, by).disk[f]
<1> DEFINE fs == {g \in ReservedIn(s.kind, by) : s.kind = "openwrt" => copy.disk[g] = s.disk[g]}
<1>1. Reread(s, copy, by).disk = [g \in Files |-> IF g \in fs THEN Reserved(s, by).disk[g] ELSE copy.disk[g]]
  BY DEF Reread, Copies
<1>2. Reread(s, copy, by).disk[f] = IF f \in fs THEN Reserved(s, by).disk[f] ELSE copy.disk[f]
  BY <1>1
<1>3. f \in ReservedIn(s.kind, by) => ~Appliance(s.kind)
  BY DEF ReservedIn, Appliance
<1> QED
  BY <1>2, <1>3

LEMMA FileEffects ==
  ASSUME Framed, Nested, [Next]_vars, Own', NEW f \in Files, ~(Off(f)')
  PROVE  \/ Begun
         \/ /\ Own /\ found' = found /\ failed \subseteq failed' /\ src'.kind = src.kind /\ EditsOf(f)' = EditsOf(f)
            /\ ~Off(f) /\ FileEffect(f)
<1>1. CASE Own /\ found' = found /\ failed \subseteq failed' /\ src'.kind = src.kind /\ Effect
  <2>1. EditsOf(f)' = EditsOf(f)
    BY <1>1 DEF EditsOf
  <2>2. ~Off(f)
    BY <1>1, <2>1 DEF Off, Troubled
  <2>3. ASSUME NEW x, Troubled({x})' PROVE x \notin EditsOf(f) /\ x # "source"
    BY <2>1, <2>3, TroubleIs DEF Off
  <2>4. /\ src \in Sources /\ src' \in Sources /\ was \in [Edits -> Captures] /\ base \in Copies
    BY FramedKept, Shapes DEF Framed, Shape, TypeOK, SourceOK
  <2>5. \A y \in EditsOf(f) : y \in Changes /\ y \in Edits /\ y \notin Actors
    BY EditsOfAre
  <2>6. CASE Aside
    <3>1. Unmoved(EditsOf(f))
      BY <2>5, <2>6, AsideLive DEF Aside, Unmoved
    <3>2. FileKept(f)
      BY <2>6, <3>1 DEF Aside, FileKept
    <3> QED
      BY <1>1, <2>1, <2>2, <3>2 DEF FileEffect
  <2>7. CASE Cleared
    <3>1. Unmoved(EditsOf(f))
      BY <2>5, <2>7, KeepsUnmoved DEF Cleared
    <3>2. Within(src, src', {}, Halted(src.kind, "service"), {})
      BY <2>4, <2>7, ResetWithin DEF Cleared
    <3>3. FileKept(f)
      BY <2>7, <3>1, <3>2 DEF Cleared, FileKept, Within
    <3> QED
      BY <1>1, <2>1, <2>2, <3>3 DEF FileEffect
  <2>8. CASE Reserving
    <3>1. Unmoved(EditsOf(f))
      BY <2>5, <2>8, KeepsUnmoved DEF Reserving
    <3>2. PICK by \in {"mac", "id"} : src' = Reserved(src, by) /\ base' = Reread(src, base, by)
      BY <2>3, <2>8 DEF Reserving
    <3>3. CASE f \in ReservedIn(src.kind, by)
      <4>1. src'.disk[f] = src.disk[f] \cup {Reservation} /\ src'.serves[f] = src'.disk[f]
        BY <2>4, <3>2, <3>3, ReservedIs
      <4>2. ~Appliance(src.kind) /\ (base.disk[f] = src.disk[f] => base'.disk[f] = src'.disk[f])
        BY <2>4, <3>2, <3>3, ReservedHere
      <4>3. LiveFor(f) = {}
        BY <2>5, <2>8 DEF Reserving, LiveFor
      <4> QED
        BY <1>1, <2>1, <2>2, <3>1, <4>1, <4>2, <4>3 DEF FileEffect, FileReserved
    <3>4. CASE f \notin ReservedIn(src.kind, by)
      <4>1. src'.disk[f] = src.disk[f] /\ src'.serves[f] \in {src.serves[f], src.disk[f]}
        BY <2>4, <3>2, <3>4, ReserveWithin DEF Within
      <4>2. base'.disk[f] = base.disk[f]
        BY <2>4, <3>2, <3>4, ReservedHere
      <4> QED
        BY <1>1, <2>1, <2>2, <3>1, <4>1, <4>2 DEF FileEffect, FileKept
    <3> QED
      BY <3>3, <3>4
  <2>9. CASE \E x \in Changes : Tried(x) \/ Forward(x) \/ Back(x) \/ Passed(x)
    <3>1. PICK x \in Changes : Tried(x) \/ Forward(x) \/ Back(x) \/ Passed(x)
      BY <2>9
    <3>2. base' = base /\ Others(x)
      BY <3>1 DEF Tried, Forward, Back, Passed
    <3>3. \A y \in EditsOf(f) \ {x} : was'[y] = was[y]
      BY <2>4, <2>5, <3>1 DEF Tried, Forward, Back, Passed
    <3>4. Unmoved(EditsOf(f) \ {x})
      BY <2>5, <3>2, <3>3, KeepsUnmoved DEF Others
    <3>5. ASSUME x \notin EditsOf(f) PROVE FileKept(f)
      <4>1. Unmoved(EditsOf(f))
        BY <3>4, <3>5 DEF Unmoved
      <4>2. src'.disk[f] = src.disk[f] /\ src'.serves[f] \in {src.serves[f], src.disk[f]}
        <5>1. CASE x \in Actors /\ Touches(src, src', x)
          <6>1. PICK as \in SUBSET Actors : src' = [src EXCEPT !.actors = as]
            BY <5>1 DEF Touches
          <6> QED
            BY <2>4, <6>1 DEF Sources
        <5>2. CASE x \notin Actors /\ Touches(src, src', x)
          <6>1. f \notin Wrote(src.kind, x)
            BY <3>5 DEF Wrote, EditsOf, IsEdit
          <6> QED
            BY <5>2, <6>1 DEF Touches, Within
        <5> QED
          BY <3>1, <5>1, <5>2, MovesOwn
      <4> QED
        BY <3>2, <4>1, <4>2 DEF FileKept
    <3>6. ASSUME x \in EditsOf(f), Forward(x) PROVE FileChanged(f, x)
      <4>1. x \in Edits /\ IsEdit(src.kind, x) /\ f \in HomeFiles(src.kind, x)
        BY <3>6, EditsOfAre
      <4>2. src'.disk[f] = src.disk[f] \cup {x} /\ src'.serves[f] = src'.disk[f]
        BY <2>4, <3>6, <4>1, EditMade DEF Forward
      <4>3. was'[x] = Captured(src, x)
        BY <2>4, <3>6, <4>1 DEF Forward
      <4>4. ~Live(x) /\ Live(x)' /\ OnTop(x)'
        BY <3>6, <4>1 DEF Forward, Live
      <4> QED
        BY <3>2, <3>4, <3>6, <4>2, <4>3, <4>4 DEF FileChanged
    <3>7. ASSUME x \in EditsOf(f), Back(x) PROVE FileRestored(f, x)
      <4>1. x \in Edits /\ IsEdit(src.kind, x) /\ f \in HomeFiles(src.kind, x)
        BY <3>7, EditsOfAre
      <4>2. src' = Restored(src, x, was[x]) /\ was[x] \in Captures
        BY <2>4, <3>7, <4>1 DEF Back, Was
      <4>3. src'.disk[f] = Former(src, x, was[x])[f] /\ src'.serves[f] = src'.disk[f]
        BY <2>4, <4>1, <4>2, EditTakenBack
      <4>4. Live(x) /\ ~Live(x)' /\ OnTop(x)
        BY <3>7, <4>1 DEF Back, Live
      <4> QED
        BY <3>2, <3>4, <3>7, <4>3, <4>4 DEF FileRestored
    <3>8. ASSUME x \in EditsOf(f), Passed(x) PROVE FileKept(f)
      <4>1. ~Live(x) /\ ~Live(x)' /\ src' = src /\ was' = was
        BY <3>8 DEF Passed, Live
      <4>2. Unmoved(EditsOf(f))
        BY <3>4, <4>1 DEF Unmoved
      <4> QED
        BY <3>2, <4>1, <4>2 DEF FileKept
    <3>9. ~(x \in EditsOf(f) /\ Tried(x))
      BY <2>3 DEF Tried
    <3>10. FileKept(f) \/ FileChanged(f, x) \/ FileRestored(f, x)
      <4>1. FileChanged(f, x) \/ FileRestored(f, x) \/ FileKept(f) \/ x \notin EditsOf(f)
        BY <3>1, <3>6, <3>7, <3>8, <3>9
      <4> QED
        BY <3>5, <4>1
    <3> QED
      BY <1>1, <2>1, <2>2, <3>10 DEF FileEffect
  <2> QED
    BY <1>1, <2>6, <2>7, <2>8, <2>9 DEF Effect
<1> QED
  BY <1>1, Effects

-----------------------------------------------------------------------------
(* A daemon serves what it served when the body began, or what is on disk. *)
ServesHeld == Own => \A f \in Files : Off(f) \/ src.serves[f] \in {found.src.serves[f], src.disk[f]}

LEMMA ServesHeldKept == Framed /\ Nested /\ ServesHeld /\ [Next]_vars => ServesHeld'
<1> SUFFICES ASSUME Framed, Nested, ServesHeld, [Next]_vars, Own', NEW f \in Files, ~(Off(f)')
             PROVE  src'.serves[f] \in {found'.src.serves[f], src'.disk[f]}
  BY DEF ServesHeld
<1>1. CASE Begun
  BY <1>1, BegunIs
<1>2. CASE Own /\ found' = found /\ ~Off(f) /\ FileEffect(f)
  <2>1. src.serves[f] \in {found.src.serves[f], src.disk[f]}
    BY <1>2 DEF ServesHeld
  <2> QED
    BY <1>2, <2>1 DEF FileEffect, FileKept, FileReserved, FileChanged, FileRestored
<1> QED
  BY <1>1, <1>2, FileEffects

-----------------------------------------------------------------------------
(* The bytes of a file: those the first of its edits was made on, which is *)
(* the one every other one's restore lies above, are what its restore will *)
(* put back.                                                               *)
Bottom(f, x) ==
  /\ x \in LiveFor(f)
  /\ \A y \in LiveFor(f) \ {x} : \A e \in Restores(defers, y) : \E d \in Restores(defers, x) : d < e

Grounded(f, goal) ==
  /\ LiveFor(f) = {} => src.disk[f] \in goal
  /\ \A x \in EditsOf(f) : Bottom(f, x) => was[x].conf[f] \in goal

Likes(f) == {c \in Contents : Plain(c) = Plain(found.src.disk[f])}

(* What is on the disk once nothing is left to restore is what was found,  *)
(* but for reservations; it is the copy's when nothing has gone wrong.     *)
DiskHeld ==
  Own /\ ~Appliance(src.kind) =>
    \A f \in Files : Off(f) \/ (Grounded(f, Likes(f)) /\ (failed = {} => Grounded(f, {base.disk[f]})))

LEMMA RestoresAreNat ==
  ASSUME NEW q \in Seq(Cleanups), NEW x
  PROVE  \A d \in Restores(q, x) : d \in Nat
<1>1. DOMAIN q = 1..Len(q) /\ Len(q) \in Nat
  OBVIOUS
<1> QED
  BY <1>1 DEF Restores

LEMMA UnmovedLive ==
  ASSUME NEW f, EditsOf(f)' = EditsOf(f), Unmoved(EditsOf(f))
  PROVE  LiveFor(f)' = LiveFor(f) /\ \A x \in EditsOf(f) : Bottom(f, x)' <=> Bottom(f, x)
<1>1. LiveFor(f)' = LiveFor(f)
  BY DEF LiveFor, Unmoved
<1>2. \A y \in LiveFor(f) : Restores(defers, y)' = Restores(defers, y)
  BY DEF LiveFor, Unmoved
<1>3. ASSUME NEW x \in EditsOf(f) PROVE Bottom(f, x)' <=> Bottom(f, x)
  BY <1>1, <1>2 DEF Bottom
<1> QED
  BY <1>1, <1>3

LEMMA ChangedLive ==
  ASSUME NEW f, NEW x, EditsOf(f)' = EditsOf(f), FileChanged(f, x)
  PROVE  LiveFor(f)' = LiveFor(f) \cup {x} /\ x \notin LiveFor(f)
BY DEF LiveFor, Unmoved, FileChanged

LEMMA RestoredLive ==
  ASSUME NEW f, NEW x, EditsOf(f)' = EditsOf(f), FileRestored(f, x)
  PROVE  LiveFor(f)' = LiveFor(f) \ {x} /\ x \in LiveFor(f)
BY DEF LiveFor, Unmoved, FileRestored

LEMMA GroundedKept ==
  ASSUME Framed, [Next]_vars, NEW f \in Files, EditsOf(f)' = EditsOf(f), FileKept(f), NEW goal, Grounded(f, goal)
  PROVE  Grounded(f, goal)'
<1>1. Unmoved(EditsOf(f))
  BY DEF FileKept
<1>2. \A x \in EditsOf(f) : was'[x] = was[x]
  BY <1>1 DEF Unmoved
<1>3. (LiveFor(f) = {} => src.disk[f] \in goal)'
  BY <1>1, UnmovedLive DEF Grounded, FileKept
<1>4. ASSUME NEW x \in EditsOf(f), Bottom(f, x)' PROVE was'[x].conf[f] \in goal
  BY <1>1, <1>2, <1>4, UnmovedLive DEF Grounded
<1> QED
  BY <1>3, <1>4 DEF Grounded

LEMMA GroundedReserved ==
  ASSUME NEW f, EditsOf(f)' = EditsOf(f), FileReserved(f), NEW goal, src'.disk[f] \in goal
  PROVE  Grounded(f, goal)'
<1>1. LiveFor(f)' = {}
  BY UnmovedLive DEF FileReserved
<1>2. ASSUME NEW x \in EditsOf(f), Bottom(f, x)' PROVE FALSE
  BY <1>1, <1>2 DEF Bottom
<1> QED
  BY <1>2 DEF Grounded

LEMMA GroundedChanged ==
  ASSUME Framed, [Next]_vars, NEW f \in Files, EditsOf(f)' = EditsOf(f), NEW x, FileChanged(f, x), ~Appliance(src.kind),
         NEW goal, Grounded(f, goal)
  PROVE  Grounded(f, goal)'
<1>1. LiveFor(f)' = LiveFor(f) \cup {x} /\ x \notin LiveFor(f)
  BY ChangedLive
<1>2. LiveFor(f)' # {}
  BY <1>1
<1>3. ASSUME NEW y \in EditsOf(f), Bottom(f, y)' PROVE was'[y].conf[f] \in goal
  <2>1. CASE y # x
    <3>1. y \in LiveFor(f) /\ was'[y] = was[y]
      BY <1>1, <1>3, <2>1 DEF Bottom, FileChanged, Unmoved
    <3>2. \A z \in LiveFor(f) : Restores(defers, z)' = Restores(defers, z)
      BY <1>1 DEF FileChanged, Unmoved, LiveFor
    <3>3. Bottom(f, y)
      BY <1>1, <1>3, <3>1, <3>2 DEF Bottom
    <3> QED
      BY <3>1, <3>3 DEF Grounded
  <2>2. CASE y = x /\ LiveFor(f) = {}
    <3>1. src.disk[f] \in goal /\ was'[y] = Captured(src, x)
      BY <2>2 DEF Grounded, FileChanged
    <3>2. Captured(src, x).conf[f] = src.disk[f]
      BY DEF Captured, Appliance
    <3> QED
      BY <3>1, <3>2
  <2>3. CASE y = x /\ LiveFor(f) # {}
    <3>1. PICK z : z \in LiveFor(f)
      BY <2>3
    <3>2. z # x /\ z \in LiveFor(f)' /\ Live(z)'
      BY <1>1, <3>1 DEF LiveFor, FileChanged, Unmoved
    <3>3. PICK e : e \in Restores(defers, z)'
      BY <3>2 DEF Live
    <3>4. PICK d \in Restores(defers, x)' : d < e
      BY <1>3, <2>3, <3>2, <3>3 DEF Bottom
    <3>5. z \in Edits \ {x}
      BY <3>1, <3>2 DEF LiveFor, EditsOf
    <3>6. e < d
      BY <3>3, <3>4, <3>5 DEF FileChanged, OnTop
    <3>7. defers' \in Seq(Cleanups)
      BY FramedKept DEF Framed, Shape, TypeOK
    <3>8. e \in Nat /\ d \in Nat
      BY <3>3, <3>4, <3>7, RestoresAreNat
    <3> QED
      BY <3>4, <3>6, <3>8
  <2> QED
    BY <2>1, <2>2, <2>3
<1> QED
  BY <1>2, <1>3 DEF Grounded

LEMMA GroundedRestored ==
  ASSUME NEW f \in Files, EditsOf(f)' = EditsOf(f), NEW x, FileRestored(f, x), ~Appliance(src.kind),
         NEW goal, Grounded(f, goal)
  PROVE  Grounded(f, goal)'
<1>1. LiveFor(f)' = LiveFor(f) \ {x} /\ x \in LiveFor(f) /\ x \in EditsOf(f)
  BY RestoredLive DEF FileRestored
<1>2. ASSUME LiveFor(f)' = {} PROVE src'.disk[f] \in goal
  <2>1. Bottom(f, x)
    BY <1>1, <1>2 DEF Bottom
  <2>2. src'.disk[f] = was[x].conf[f]
    BY DEF FileRestored, Former
  <2> QED
    BY <1>1, <2>1, <2>2 DEF Grounded
<1>3. ASSUME NEW y \in EditsOf(f), Bottom(f, y)' PROVE was'[y].conf[f] \in goal
  <2>1. y \in LiveFor(f) /\ y # x /\ was'[y] = was[y]
    BY <1>1, <1>3 DEF Bottom, FileRestored, Unmoved
  <2>2. \A z \in LiveFor(f) \ {x} : Restores(defers, z)' = Restores(defers, z)
    BY DEF FileRestored, Unmoved, LiveFor
  <2>3. \A z \in LiveFor(f) \ {x, y} : \A e \in Restores(defers, z) : \E d \in Restores(defers, y) : d < e
    BY <1>1, <1>3, <2>1, <2>2 DEF Bottom
  <2>4. \A e \in Restores(defers, x) : \E d \in Restores(defers, y) : d < e
    <3>1. y \in Edits \ {x} /\ Restores(defers, y) # {}
      BY <2>1 DEF LiveFor, EditsOf, Live
    <3> QED
      BY <3>1 DEF FileRestored, OnTop
  <2>5. Bottom(f, y)
    BY <2>1, <2>3, <2>4 DEF Bottom
  <2> QED
    BY <2>1, <2>5 DEF Grounded
<1> QED
  BY <1>2, <1>3 DEF Grounded

LEMMA GroundedEffect ==
  ASSUME Framed, [Next]_vars, NEW f \in Files, EditsOf(f)' = EditsOf(f), ~Appliance(src.kind), FileEffect(f),
         NEW goal, Grounded(f, goal), FileReserved(f) => src'.disk[f] \in goal
  PROVE  Grounded(f, goal)'
BY GroundedKept, GroundedReserved, GroundedChanged, GroundedRestored DEF FileEffect

LEMMA ReservedLike ==
  ASSUME NEW c \in Contents
  PROVE  c \cup {Reservation} \in Contents /\ Plain(c \cup {Reservation}) = Plain(c)
BY DEF Plain, Contents

LEMMA DiskHeldKept == Framed /\ Nested /\ DiskHeld /\ [Next]_vars => DiskHeld'
<1> SUFFICES ASSUME Framed, Nested, DiskHeld, [Next]_vars, Own', ~Appliance(src'.kind), NEW f \in Files, ~(Off(f)')
             PROVE  (Grounded(f, Likes(f)) /\ (failed = {} => Grounded(f, {base.disk[f]})))'
  BY DEF DiskHeld
<1>0. src \in Sources /\ src' \in Sources /\ src.disk[f] \in Contents
  <2>1. src \in Sources /\ src' \in Sources
    BY FramedKept DEF Framed, Shape, TypeOK
  <2> QED
    BY <2>1 DEF Sources
<1>1. CASE Begun
  <2>1. \A y : ~Live(y)'
    BY <1>1, BegunIs
  <2>2. LiveFor(f)' = {} /\ \A y : ~(Bottom(f, y)')
    BY <2>1 DEF LiveFor, Bottom
  <2>3. src'.disk[f] \in Likes(f)' /\ src'.disk[f] \in {base'.disk[f]}
    BY <1>0, <1>1, BegunIs DEF Likes
  <2> QED
    BY <2>2, <2>3 DEF Grounded
<1>2. CASE /\ Own /\ found' = found /\ failed \subseteq failed' /\ src'.kind = src.kind /\ EditsOf(f)' = EditsOf(f)
           /\ ~Off(f) /\ FileEffect(f)
  <2>1. Grounded(f, Likes(f)) /\ (failed = {} => Grounded(f, {base.disk[f]}))
    BY <1>2 DEF DiskHeld
  <2>2. Grounded(f, Likes(f))'
    <3>1. PICK goal : goal = Likes(f)
      OBVIOUS
    <3>2. Likes(f)' = goal
      BY <1>2, <3>1 DEF Likes
    <3>3. FileReserved(f) => src'.disk[f] \in goal
      <4>1. SUFFICES ASSUME FileReserved(f) PROVE src'.disk[f] \in goal
        OBVIOUS
      <4>2. src.disk[f] \in Likes(f)
        BY <2>1, <4>1 DEF Grounded, FileReserved
      <4>3. src'.disk[f] \in Likes(f)
        BY <1>0, <4>1, <4>2, ReservedLike DEF Likes, FileReserved
      <4> QED
        BY <3>1, <4>3
    <3>4. Grounded(f, goal)'
      BY <1>2, <2>1, <3>1, <3>3, GroundedEffect
    <3> QED
      BY <3>2, <3>4 DEF Grounded
  <2>3. ASSUME failed' = {} PROVE Grounded(f, {base.disk[f]})'
    <3>1. Grounded(f, {base.disk[f]})
      BY <1>2, <2>1, <2>3
    <3>2. PICK goal : goal = {base'.disk[f]}
      OBVIOUS
    <3>3. CASE FileReserved(f)
      <4>1. base.disk[f] = src.disk[f]
        BY <3>1, <3>3 DEF Grounded, FileReserved
      <4>2. src'.disk[f] \in goal
        BY <3>2, <3>3, <4>1 DEF FileReserved
      <4>3. Grounded(f, goal)'
        BY <1>2, <3>3, <4>2, GroundedReserved
      <4> QED
        BY <3>2, <4>3 DEF Grounded
    <3>4. CASE ~FileReserved(f)
      <4>1. goal = {base.disk[f]}
        BY <1>2, <3>2, <3>4 DEF FileEffect, FileKept, FileChanged, FileRestored
      <4>2. Grounded(f, goal)
        BY <3>1, <4>1
      <4>3. Grounded(f, goal)'
        BY <1>2, <3>4, <4>2, GroundedEffect
      <4> QED
        BY <3>2, <4>3 DEF Grounded
    <3> QED
      BY <3>3, <3>4
  <2> QED
    BY <2>2, <2>3
<1> QED
  BY <1>1, <1>2, FileEffects

-----------------------------------------------------------------------------
(* An appliance carries what it was found with and the edits in force; what*)
(* a restore of one edit will leave of another is not more than that.  The *)
(* file Windows imports behind a renumbering carries a lease time set      *)
(* before, whose restore then lies below.                                  *)
Imports(x) == src.kind = "windows" /\ x = "renumber"
LiesUnder(x, y) == \E a \in Restores(defers, x), b \in Restores(defers, y) : a < b

Carries(f, x) ==
  IF Imports(x)
  THEN /\ was[x].conf[f] \subseteq found.src.disk[f] \cup {"lease"}
       /\ "lease" \in was[x].conf[f] \ found.src.disk[f] => Live("lease") /\ LiesUnder("lease", x)
  ELSE was[x].conf[f] \cap {x} \subseteq found.src.disk[f]

ListHeld ==
  Own /\ Appliance(src.kind) =>
    \A f \in Files : Off(f) \/ ( /\ src.disk[f] \subseteq found.src.disk[f] \cup LiveFor(f)
                                 /\ \A x \in LiveFor(f) : Carries(f, x) )

LEMMA ImportedWith ==
  ASSUME NEW f, NEW x, x \in EditsOf(f), Imports(x)
  PROVE  "lease" \in EditsOf(f)
BY FewHomes DEF EditsOf, Imports, HomeFiles, Homes, PlainHomes, IsEdit, IsStop, Stops, Edits, Features6, Adverts

LEMMA ListHeldKept == Framed /\ Nested /\ ListHeld /\ [Next]_vars => ListHeld'
<1> SUFFICES ASSUME Framed, Nested, ListHeld, [Next]_vars, Own', Appliance(src'.kind), NEW f \in Files, ~(Off(f)')
             PROVE  /\ src'.disk[f] \subseteq found'.src.disk[f] \cup LiveFor(f)'
                    /\ \A x \in LiveFor(f)' : Carries(f, x)'
  BY DEF ListHeld
<1>1. CASE Begun
  <2>1. LiveFor(f)' = {}
    BY <1>1, BegunIs DEF LiveFor
  <2> QED
    BY <1>1, <2>1, BegunIs
<1>2. CASE /\ Own /\ found' = found /\ src'.kind = src.kind /\ EditsOf(f)' = EditsOf(f)
           /\ ~Off(f) /\ FileEffect(f)
  <2>1. src.disk[f] \subseteq found.src.disk[f] \cup LiveFor(f) /\ \A x \in LiveFor(f) : Carries(f, x)
    BY <1>2 DEF ListHeld
  <2>2. \A x : Imports(x)' <=> Imports(x)
    BY <1>2 DEF Imports
  <2>3. LiveFor(f) \subseteq EditsOf(f) /\ \A x \in EditsOf(f) : x \in LiveFor(f) <=> Live(x)
    BY DEF LiveFor
  <2>4. defers \in Seq(Cleanups) /\ defers' \in Seq(Cleanups)
    BY FramedKept DEF Framed, Shape, TypeOK
  <2>5. ASSUME NEW ys, Unmoved(ys), NEW x \in ys, x \in LiveFor(f), Imports(x) => "lease" \in ys
        PROVE  Carries(f, x)'
    <3>1. Carries(f, x) /\ was'[x] = was[x] /\ Restores(defers, x)' = Restores(defers, x)
      BY <2>1, <2>3, <2>5 DEF Unmoved
    <3>2. ASSUME Imports(x), Live("lease") PROVE Live("lease")' /\ Restores(defers, "lease")' = Restores(defers, "lease")
      BY <2>5, <3>2 DEF Unmoved
    <3> QED
      BY <1>2, <2>2, <3>1, <3>2 DEF Carries, LiesUnder
  <2>6. CASE FileKept(f)
    <3>1. LiveFor(f)' = LiveFor(f) /\ Unmoved(EditsOf(f))
      BY <1>2, <2>6, UnmovedLive DEF FileKept
    <3> QED
      BY <1>2, <2>1, <2>3, <2>5, <2>6, <3>1, ImportedWith DEF FileKept
  <2>7. ~FileReserved(f)
    BY <1>2 DEF FileReserved
  <2>8. ASSUME NEW x, FileChanged(f, x)
        PROVE  /\ src'.disk[f] \subseteq found'.src.disk[f] \cup LiveFor(f)'
               /\ \A y \in LiveFor(f)' : Carries(f, y)'
    <3>1. LiveFor(f)' = LiveFor(f) \cup {x} /\ x \notin LiveFor(f) /\ x \in EditsOf(f)
      BY <1>2, <2>8, ChangedLive DEF FileChanged
    <3>2. src'.disk[f] \subseteq found'.src.disk[f] \cup LiveFor(f)'
      BY <1>2, <2>1, <2>8, <3>1 DEF FileChanged
    <3>3. ASSUME Imports(x) PROVE Carries(f, x)'
      <4>1. was'[x].conf[f] = WindowsImports(src.disk[f])
        BY <2>8, <3>3 DEF FileChanged, Captured, Imports, Features, Features4, Features6
      <4>2. was'[x].conf[f] \subseteq {"lease"} /\ was'[x].conf[f] \subseteq src.disk[f]
        BY <4>1 DEF WindowsImports
      <4>3. ASSUME "lease" \in was'[x].conf[f] \ found'.src.disk[f] PROVE Live("lease")' /\ LiesUnder("lease", x)'
        <5>1. "lease" \in LiveFor(f) /\ "lease" # x
          BY <1>2, <2>1, <3>1, <4>2, <4>3
        <5>2. Live("lease")' /\ "lease" \in Edits \ {x}
          BY <2>3, <2>8, <5>1 DEF FileChanged, Unmoved, EditsOf, LiveFor
        <5>3. PICK a : a \in Restores(defers, "lease")'
          BY <5>2 DEF Live
        <5>4. PICK b : b \in Restores(defers, x)'
          BY <2>8 DEF FileChanged, Live
        <5>5. a < b
          BY <2>8, <5>2, <5>3, <5>4 DEF FileChanged, OnTop
        <5> QED
          BY <5>2, <5>3, <5>4, <5>5 DEF LiesUnder
      <4> QED
        BY <2>2, <3>3, <4>2, <4>3 DEF Carries
    <3>4. ASSUME ~Imports(x) PROVE Carries(f, x)'
      <4>1. was'[x].conf[f] \in {src.disk[f], src.disk[f] \ {x}}
        BY <2>8, <3>4 DEF FileChanged, Captured, Imports
      <4>2. src.disk[f] \cap {x} \subseteq found.src.disk[f]
        BY <2>1, <3>1
      <4> QED
        BY <1>2, <2>2, <3>4, <4>1, <4>2 DEF Carries
    <3>5. ASSUME NEW y \in LiveFor(f), y # x PROVE Carries(f, y)'
      <4>1. CASE Imports(y) => x # "lease"
        BY <2>3, <2>5, <2>8, <3>5, <4>1, ImportedWith DEF FileChanged
      <4>2. CASE Imports(y) /\ x = "lease"
        <5>1. was[y].conf[f] \subseteq found.src.disk[f] /\ was'[y] = was[y]
          BY <2>1, <2>3, <2>8, <3>5, <4>2 DEF Carries, FileChanged, Unmoved
        <5> QED
          BY <1>2, <2>2, <4>2, <5>1 DEF Carries
      <4> QED
        BY <4>1, <4>2
    <3> QED
      BY <3>1, <3>2, <3>3, <3>4, <3>5
  <2>9. ASSUME NEW x, FileRestored(f, x)
        PROVE  /\ src'.disk[f] \subseteq found'.src.disk[f] \cup LiveFor(f)'
               /\ \A y \in LiveFor(f)' : Carries(f, y)'
    <3>1. LiveFor(f)' = LiveFor(f) \ {x} /\ x \in LiveFor(f) /\ Carries(f, x)
      BY <1>2, <2>1, <2>9, RestoredLive
    <3>2. ASSUME Imports(x) PROVE src'.disk[f] \subseteq found'.src.disk[f] \cup LiveFor(f)'
      <4>1. src'.disk[f] = was[x].conf[f]
        BY <2>9, <3>2 DEF FileRestored, Former, Imports
      <4>2. "lease" \in was[x].conf[f] \ found.src.disk[f] => "lease" \in LiveFor(f) /\ "lease" # x
        BY <2>3, <3>1, <3>2, ImportedWith DEF Carries, Imports
      <4> QED
        BY <1>2, <2>2, <3>1, <3>2, <4>1, <4>2 DEF Carries
    <3>3. ASSUME ~Imports(x) PROVE src'.disk[f] \subseteq found'.src.disk[f] \cup LiveFor(f)'
      <4>1. src'.disk[f] = (src.disk[f] \ {x}) \cup (was[x].conf[f] \cap {x})
        BY <1>2, <2>9, <3>3 DEF FileRestored, Former, Imports
      <4> QED
        BY <1>2, <2>1, <3>1, <3>3, <4>1 DEF Carries
    <3>4. ASSUME NEW y \in LiveFor(f), y # x PROVE Carries(f, y)'
      <4>1. CASE Imports(y) => x # "lease"
        BY <2>3, <2>5, <2>9, <3>4, <4>1, ImportedWith DEF FileRestored
      <4>2. CASE Imports(y) /\ x = "lease"
        <5>1. ~LiesUnder(x, y)
          <6>1. SUFFICES ASSUME NEW a \in Restores(defers, x), NEW b \in Restores(defers, y), a < b PROVE FALSE
            BY DEF LiesUnder
          <6>2. y \in Edits \ {x}
            BY <2>3, <3>4 DEF EditsOf
          <6>3. b < a
            BY <2>9, <6>2 DEF FileRestored, OnTop
          <6>4. a \in Nat /\ b \in Nat
            BY <2>4, RestoresAreNat
          <6> QED
            BY <6>1, <6>3, <6>4
        <5>2. was[y].conf[f] \subseteq found.src.disk[f] /\ was'[y] = was[y]
          BY <2>1, <2>3, <2>9, <3>4, <4>2, <5>1 DEF Carries, FileRestored, Unmoved
        <5> QED
          BY <1>2, <2>2, <4>2, <5>2 DEF Carries
      <4> QED
        BY <4>1, <4>2
    <3> QED
      BY <3>1, <3>2, <3>3, <3>4
  <2> QED
    BY <1>2, <2>6, <2>7, <2>8, <2>9 DEF FileEffect
<1> QED
  BY <1>1, <1>2, FileEffects

-----------------------------------------------------------------------------
SourceHeld ==
  /\ Nested /\ Ground /\ ActorsHeld /\ AddrHeld /\ UpHeld
  /\ ServesHeld /\ DiskHeld /\ ListHeld

LEMMA SourceHeldKept == Framed /\ SourceHeld /\ [Next]_vars => SourceHeld'
BY NestedKept, GroundKept, ActorsHeldKept, AddrHeldKept, UpHeldKept, ServesHeldKept, DiskHeldKept, ListHeldKept
   DEF SourceHeld

LEMMA SourceHeldInit == Init => SourceHeld
BY NestedInit DEF Init, SourceHeld, Ground, ActorsHeld, AddrHeld, UpHeld, ServesHeld, DiskHeld, ListHeld,
       Own, Active, Ended

(* Whatever way a body ends and whatever commands answered an error, the   *)
(* source is as the body found it in every part no such command was about, *)
(* for every catalog whose bodies restore each change and nest their edits.*)
THEOREM SourceAsFoundHolds == Spec => []SourceAsFound
<1>1. Framed /\ SourceHeld => SourceAsFound
  <2>1. SUFFICES ASSUME Framed, SourceHeld, Ended PROVE SourceAsFound
    BY DEF SourceAsFound
  <2>2. Own /\ \A x : ~Live(x)
    <3>1. Own /\ defers = <<>>
      BY <2>1 DEF Own, Ended, Framed, Places
    <3>2. DOMAIN defers = {}
      BY <3>1
    <3>3. \A x : Restores(defers, x) = {}
      BY <3>2 DEF Restores
    <3> QED
      BY <3>1, <3>3 DEF Live
  <2>3. src \in Sources /\ found.src \in Sources /\ found.src.kind = src.kind /\ base \in Copies
    BY <2>1, Shapes DEF Framed, Shape, TypeOK, SourceOK
  <2>4. ASSUME NEW f \in Files, ~Off(f)
        PROVE  /\ src.serves[f] \in {found.src.serves[f], src.disk[f]}
               /\ Appliance(src.kind) => src.disk[f] \subseteq found.src.disk[f]
               /\ ~Appliance(src.kind) => Plain(src.disk[f]) = Plain(found.src.disk[f])
               /\ ~Appliance(src.kind) /\ failed = {} => src.disk[f] = base.disk[f]
    <3>1. LiveFor(f) = {}
      BY <2>2 DEF LiveFor
    <3>2. src.serves[f] \in {found.src.serves[f], src.disk[f]}
      BY <2>1, <2>2, <2>4 DEF SourceHeld, ServesHeld
    <3>3. Appliance(src.kind) => src.disk[f] \subseteq found.src.disk[f]
      BY <2>1, <2>2, <2>4, <3>1 DEF SourceHeld, ListHeld
    <3>4. ASSUME ~Appliance(src.kind)
          PROVE  Plain(src.disk[f]) = Plain(found.src.disk[f]) /\ (failed = {} => src.disk[f] = base.disk[f])
      <4>1. src.disk[f] \in Likes(f) /\ (failed = {} => src.disk[f] \in {base.disk[f]})
        BY <2>1, <2>2, <2>4, <3>1, <3>4 DEF SourceHeld, DiskHeld, Grounded
      <4> QED
        BY <4>1 DEF Likes
    <3> QED
      BY <3>2, <3>3, <3>4
  <2>5. ~FoundEdited /\ Appliance(src.kind) => \A f \in Files : found.src.disk[f] = {}
    BY DEF FoundEdited
  <2>6. ASSUME NEW f \in Files PROVE AsFound(f) \/ Troubled(EditsOf(f) \cup {"source"})
    <3>1. SUFFICES ASSUME ~Off(f) PROVE AsFound(f)
      BY DEF Off
    <3>2. CASE FoundEdited
      BY <2>4, <3>1, <3>2 DEF AsFound, FoundEdited
    <3>3. CASE ~FoundEdited /\ Appliance(src.kind)
      <4>1. src.disk[f] = found.src.disk[f]
        BY <2>4, <2>5, <3>1, <3>3
      <4> QED
        BY <2>4, <3>1, <3>3, <4>1 DEF AsFound
    <3>4. CASE ~FoundEdited /\ ~Appliance(src.kind)
      BY <2>4, <3>1, <3>4 DEF AsFound
    <3> QED
      BY <3>2, <3>3, <3>4
  <2>7. \A m \in Moving : Troubled({m}) \/ (m \in src.addr <=> m \in found.src.addr)
    BY <2>1, <2>2 DEF SourceHeld, AddrHeld
  <2>8. src.addr \subseteq Moving /\ found.src.addr \subseteq Moving
    BY <2>3 DEF Sources
  <2>9. src.addr # found.src.addr => Troubled(Moving)
    BY <2>7, <2>8 DEF Troubled
  <2>10. \A a \in src.actors : Troubled({a})
    BY <2>1, <2>2 DEF SourceHeld, ActorsHeld
  <2>11. found.src.up = FilesOf(src.kind) /\ src.up \subseteq FilesOf(src.kind)
    BY <2>1, <2>2 DEF SourceHeld, Ground, UpHeld
  <2>12. \A f \in found.src.up \ src.up : Troubled(Touching(f) \cup {"source"})
    BY <2>1, <2>2, <2>11 DEF SourceHeld, UpHeld
  <2>13. ASSUME failed = {}, ~FoundEdited PROVE Ready(src, base)
    <3>1. \A xs : ~Troubled(xs)
      BY <2>13 DEF Troubled
    <3>2. src.up = FilesOf(src.kind) /\ src.actors = {} /\ src.addr = found.src.addr
      BY <2>9, <2>10, <2>11, <2>12, <3>1
    <3>3. base.addr = found.src.addr /\ (Appliance(src.kind) => base.disk = found.src.disk)
      BY <2>1, <2>2 DEF SourceHeld, Ground
    <3>4. ASSUME NEW f \in Files PROVE src.disk[f] = base.disk[f]
      BY <2>4, <2>5, <2>13, <3>1, <3>3 DEF Off
    <3>5. src.disk = base.disk
      BY <2>3, <3>4 DEF Sources, Copies
    <3> QED
      BY <3>2, <3>3, <3>5 DEF Ready, Same
  <2> QED
    BY <2>6, <2>9, <2>10, <2>12, <2>13 DEF SourceAsFound
<1>2. Framed /\ SourceHeld /\ [Next]_vars => (Framed /\ SourceHeld)'
  BY FramedKept, SourceHeldKept
<1> QED
  BY <1>1, <1>2, SourceHeldInit, InitFramed, PTL DEF Spec

=============================================================================
