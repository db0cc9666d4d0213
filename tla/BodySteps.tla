---- MODULE BodySteps ----
(***************************************************************************)
(* The vocabulary in which a scenario body is written down: what it puts   *)
(* on its cleanup stack, what it starts, changes and reads, and with which *)
(* verdicts each step may end the body.  A body is a sequence of steps;    *)
(* ScenarioBodies says what each step does.                                *)
(***************************************************************************)
EXTENDS Naturals, Sequences

(* The verdicts a step may end its body with.                              *)
FAIL == {"FAIL"}
BLOCKED == {"BLOCKED"}
FAILBLOCKED == {"FAIL", "BLOCKED"}
NA == {"N/A"}
NEVER == {}

(* The shape's own network, which every body finds and none may lose.      *)
Main == "main"

Step(op, x, y, ends) == <<[op |-> op, x |-> x, y |-> y, ends |-> ends, skip |-> 0]>>

(* A condition or a read that may end the body.                            *)
Ask(ends) == Step("ask", "", "", ends)

(* A read of what the scenario is about: the source's lease table, the     *)
(* captured exchange, the links.                                           *)
Look(ends) == Step("look", "", "", ends)

(* A read whose verdict is kept and returned at the body's end.            *)
Judge(ends) == Step("judge", "", "", ends)

(* A kept verdict other than PASS ends the body here.                      *)
Settle == Step("settle", "", "", NEVER)

(* The body's last step when it has no way to pass.                        *)
Only(ends) == Step("only", "", "", ends)

(* A deferred cleanup.                                                     *)
Later(op, x) == Step("later", x, op, NEVER)

(* docker run, after removing what had the name.                           *)
Start(c, n, ends) == Step("start", c, n, ends)

Run(c, n, ends) == Later("rm", c) \o Start(c, n, ends)

(* docker run with a bound, whose exit status the body judges.             *)
Try(c, n, ends) == Step("try", c, n, ends)

(* docker run in a goroutine, and the wait for its answer.                 *)
Go(c, n) == Later("rm", c) \o Step("go", c, n, NEVER)
Await(c, ends) == Step("await", c, "", ends)

Attach(c, n, ends) == Step("attach", c, n, ends)
Remove(c, ends) == Step("remove", c, "", ends)

(* A link of the docker host's own, removed like a container.              *)
Link(x, ends) == Step("link", x, "", ends)

(* A container named in a list the body removes at its end.                *)
List(c) == Step("list", c, "", NEVER)
Unlist(c) == Step("unlist", c, "", NEVER)

(* An extra network; its removal is deferred before it is created.         *)
Create(n, ends) == Step("create", n, "", ends)
Net(n, ends) == Later("down", n) \o Create(n, ends)
Drop(n) == Step("drop", n, "", NEVER)

(* A creation the body judges: refused or not, it goes on.                 *)
Attempt(n) == Step("trynet", n, "", NEVER)
TryNet(n) == Later("down", n) \o Attempt(n)

(* The main network removed and created again with another option.         *)
Swap(ends) == Later("told", Main) \o Step("swap", Main, "", ends)

(* A change of the source with its deferred restore, whose error is thrown *)
(* away or replaces the verdict.                                           *)
Quiet(x, ends) == Step("change", x, "quiet", ends)
Told(x, ends) == Step("change", x, "told", ends)

(* The restore called in the middle of the body; the deferred one is       *)
(* skipped when this one answered nil, or (once) whatever it answered.     *)
Undo(x, ends) == Step("undo", x, "", ends)
UndoOnce(x, ends) == Step("undo", x, "once", ends)

(* An address reserved on the source, by "mac" or by "id".                 *)
ReserveBy(by, ends) == Step("reserve", by, "", ends)

(* A disturbance of a container, docker, the plugin, the host, the source. *)
Do(what, ends) == Step("do", what, "", ends)

(* The steps of an inner function with cleanups of its own.                *)
Inner(p) == Step("enter", "", "", NEVER) \o p \o Step("return", "", "", NEVER)

(* Steps taken in some cells only.                                         *)
Maybe(p) == <<[op |-> "maybe", x |-> "", y |-> "", ends |-> NEVER, skip |-> Len(p)]>> \o p
=============================================================================
