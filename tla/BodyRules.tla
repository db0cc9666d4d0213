---- MODULE BodyRules ----
(***************************************************************************)
(* The rules the scenario bodies are written by, as conditions on the      *)
(* sequence of a body's steps alone: what is deferred before a container,  *)
(* a network or the shape's own network is touched, what is read before a  *)
(* body passes, what is lifted before it waits.                            *)
(***************************************************************************)
EXTENDS BodySteps

(* The places no run of the body skips.                                    *)
Always(p) == {k \in DOMAIN p : \A m \in 1..(k - 1) : p[m].op = "maybe" => k > m + p[m].skip}

Is(p, i, op, x) == i \in DOMAIN p /\ p[i].op = op /\ p[i].x = x

(* A cleanup deferred on every way to place i, and in the same function.   *)
Defers(p, i, op, x) ==
  \E k \in Always(p) :
    /\ k < i /\ p[k].op = "later" /\ p[k].y = op /\ p[k].x = x
    /\ \A r \in (k + 1)..(i - 1) : p[r].op # "return"

(* A change made on some way to place i that not every way takes back.     *)
Changing(p, i, x) ==
  \E m \in 1..(i - 1) :
    /\ Is(p, m, "change", x)
    /\ \A u \in (m + 1)..(i - 1) : ~(u \in Always(p) /\ Is(p, u, "undo", x))

-----------------------------------------------------------------------------
(* A body judges what it reads, or reads once more behind everything it    *)
(* does, with no docker run on its way.                                    *)
Reads == {"ask", "look", "judge", "settle", "only", "list", "unlist", "later", "enter", "await", "maybe"}

Awaited(p, j, i) == \E k \in (j + 1)..(i - 1) : k \in Always(p) /\ Is(p, k, "await", p[j].x)
Running(p, i) == {j \in 1..(i - 1) : p[j].op = "go" /\ ~Awaited(p, j, i)}

LooksLast(p, i) == p[i].op = "look" /\ Running(p, i) = {} /\ \A j \in i..Len(p) : p[j].op \in Reads

Measures(p) == \E i \in Always(p) : p[i].op = "judge" \/ LooksLast(p, i)

-----------------------------------------------------------------------------
(* Every way out lifts an impairment of the segment before it waits for a  *)
(* docker run.                                                             *)
Impaired(p, i) == Changing(p, i, "netem")

LiftsFirst(p) ==
  \A i \in DOMAIN p :
    /\ p[i].op = "later" /\ p[i].y = "join" => Is(p, i + 1, "later", "netem") /\ p[i + 1].y = "quiet"
    /\ p[i].op = "await" => ~Impaired(p, i)

-----------------------------------------------------------------------------
(* The removal of a container is deferred before it is started, or it is   *)
(* in a list whose removal is; or it is put in such a list next.           *)
Named(p, i, c) ==
  \E k \in Always(p) : k < i /\ Is(p, k, "list", c) /\ \A u \in (k + 1)..(i - 1) : ~Is(p, u, "unlist", c)
InList(p, i, c) == Defers(p, i, "listed", "") /\ Named(p, i, c)

ListedNext(p, i, c) == Is(p, i + 1, "list", c) /\ Defers(p, i, "listed", "") /\ p[i].op \in {"start", "link"}

Puts == {"start", "try", "link", "attach"}

RemovesBoxes(p) ==
  \A i \in DOMAIN p :
    LET c == p[i].x IN
    /\ p[i].op \in Puts => Defers(p, i, "rm", c) \/ InList(p, i, c) \/ ListedNext(p, i, c)
    /\ p[i].op = "go" => Defers(p, i, "rm", c) /\ Is(p, i + 1, "later", c) /\ p[i + 1].y = "join"
    /\ p[i].op = "unlist" => Is(p, i + 1, "remove", c) \/ (i - 1 \in Always(p) /\ Is(p, i - 1, "remove", c))

(* The networks a body puts a container on.                                *)
PutOn(p, c) == {p[j].y : j \in {k \in DOMAIN p : p[k].op \in Puts /\ p[k].x = c}}

(* The removal of a network is deferred before it is created, and before   *)
(* anything is done to a container on it; a network that may be refused    *)
(* may be removed at once instead, when no container is ever on it.        *)
Handles(s, c) == s.x = c /\ (s.op \in Puts \cup {"remove"} \/ (s.op = "later" /\ s.y = "rm"))

RemovesNets(p) ==
  \A i \in DOMAIN p :
    LET n == p[i].x IN
    /\ p[i].op = "create" => Defers(p, i, "down", n)
    /\ p[i].op = "trynet" => Defers(p, i, "down", n)
                             \/ (Is(p, i + 1, "drop", n) /\ \A j \in DOMAIN p : p[j].y # n)

NetsFirst(p, nets) ==
  \A i \in DOMAIN p : \A n \in nets :
    /\ Handles(p[i], p[i].x) /\ n \in PutOn(p, p[i].x) => Defers(p, i, "down", n)
    /\ p[i].op = "list" => n \notin PutOn(p, p[i].x)

(* The shape's own network is put back, and the plugin's tag is, on every  *)
(* way to a pass.                                                          *)
PutsMainBack(p) == \A i \in DOMAIN p : p[i].op = "swap" => Defers(p, i, "told", Main)

OnPrevious(p, i) ==
  \E m \in 1..(i - 1) :
    /\ Is(p, m, "do", "install-previous")
    /\ \A u \in (m + 1)..(i - 1) : ~(u \in Always(p) /\ Is(p, u, "do", "upgrade-plugin"))

Upgrades(p) == ~OnPrevious(p, Len(p) + 1)

-----------------------------------------------------------------------------
(* Edits of config files nest: their restores write whole files back, so   *)
(* an edit another one was made on top of is left to its deferred restore, *)
(* and one in force is not made again.  A restore called in the body is of *)
(* a change the same function has made.  A reservation, which is not taken *)
(* back, comes before any edit.                                            *)
Changed(p, i, x) ==
  \E k \in Always(p) :
    /\ k < i /\ Is(p, k, "change", x)
    /\ \A r \in (k + 1)..(i - 1) : p[r].op # "return" /\ ~Is(p, r, "undo", x)

MakesEdit(p, i, edits) == i \in DOMAIN p /\ p[i].op = "change" /\ p[i].x \in edits

EditsNest(p, edits) ==
  /\ \A i, j, k \in DOMAIN p :
       i < j /\ j < k /\ MakesEdit(p, i, edits) /\ MakesEdit(p, j, edits) /\ p[i].x # p[j].x =>
         ~(p[k].op \in {"change", "undo"} /\ p[k].x = p[i].x)
  /\ \A i \in DOMAIN p :
       /\ MakesEdit(p, i, edits) => ~Changing(p, i, p[i].x)
       /\ p[i].op = "undo" => Changed(p, i, p[i].x)
       /\ p[i].op = "reserve" => \A j \in 1..(i - 1) : ~MakesEdit(p, j, edits)
=============================================================================
