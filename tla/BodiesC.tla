---- MODULE BodiesC ----
(***************************************************************************)
(* Group C: outages of the source, failover pairs, a hostile segment, an   *)
(* impaired one, and the relay cell.                                       *)
(***************************************************************************)
EXTENDS BodySteps

(* A container bound under a shortened lease time.                         *)
StartBound == Quiet("lease", BLOCKED) \o Run("c", Main, FAIL) \o Ask(FAIL)
              \o Look(BLOCKED) \o Look(FAILBLOCKED)

(* The source stopped at one moment and started at another; every way out  *)
(* starts it, once.                                                        *)
Outage(during) == Ask(BLOCKED) \o Quiet("service", BLOCKED) \o during \o Ask(BLOCKED)
                  \o UndoOnce("service", BLOCKED) \o Ask(BLOCKED)

C1 == Ask(NA) \o Net("n1", FAIL) \o Later("rm", "c1") \o Net("n2", FAIL) \o Later("rm", "c2")
      \o Quiet("service", BLOCKED) \o Try("c1", "n1", BLOCKED) \o Try("c2", "n2", BLOCKED)
      \o Undo("service", BLOCKED) \o Ask(BLOCKED) \o Look(FAILBLOCKED) \o Ask(FAILBLOCKED)

C2 == StartBound \o Outage(<<>>) \o Look(FAILBLOCKED) \o Ask(FAIL) \o Look(FAIL)

C3 == StartBound \o Outage(Ask(FAILBLOCKED)) \o Look(FAILBLOCKED)

C4 == StartBound \o Do("source", BLOCKED) \o Look(BLOCKED) \o Look(FAILBLOCKED)

-----------------------------------------------------------------------------
(* One peer of a failover pair stopped; its restart is not waited for.     *)
C5 == Ask(BLOCKED) \o StartBound \o Ask(BLOCKED) \o Quiet("peer", BLOCKED) \o Look(FAILBLOCKED)

PeerOutage == Later("rm", "c") \o Quiet("peer", BLOCKED) \o Ask(BLOCKED)
              \o Try("c", Main, FAILBLOCKED) \o Look(FAILBLOCKED)

C5b == Ask(BLOCKED) \o PeerOutage

C5c == Ask(BLOCKED) \o Quiet("lease", BLOCKED) \o PeerOutage \o Undo("peer", BLOCKED)
       \o Ask(BLOCKED) \o Look(FAILBLOCKED) \o Run("c2", Main, FAIL) \o Look(FAILBLOCKED)

C5d == Ask(BLOCKED) \o Later("listed", "") \o List("c1") \o Start("c1", Main, FAIL)
       \o Quiet("peer", BLOCKED) \o Ask(BLOCKED) \o List("c2") \o Start("c2", Main, FAIL)
       \o Undo("peer", BLOCKED) \o Ask(BLOCKED) \o List("c3") \o Start("c3", Main, FAIL)
       \o Ask(FAIL) \o Look(FAILBLOCKED)

-----------------------------------------------------------------------------
C6 == Ask(NA) \o Ask(BLOCKED) \o ReserveBy("id", BLOCKED) \o Quiet("squatter", BLOCKED) \o Net("n", BLOCKED)
      \o Later("rm", "c") \o Try("c", "n", BLOCKED) \o Look(FAILBLOCKED) \o Ask(FAIL)

C6b == Ask(NA) \o Net("n", BLOCKED) \o Run("c", "n", FAIL) \o Ask(FAIL)
       \o Quiet("squatter", BLOCKED) \o Look({"FAIL", "BLOCKED", "N/A"})

RogueLeg(c, n) == Net(n, BLOCKED) \o Run(c, n, FAIL) \o Look(FAILBLOCKED)

C7 == Ask(NA) \o Ask(BLOCKED) \o Quiet("rogue", BLOCKED) \o RogueLeg("c1", "n1") \o RogueLeg("c2", "n2")

(* The pool of two is filled, a third container finds none, the pool is    *)
(* widened again.                                                          *)
C8 == Ask(NA) \o Ask(BLOCKED) \o Quiet("pool", BLOCKED)
      \o Run("c1", Main, FAIL) \o Run("c2", Main, FAIL) \o Ask(BLOCKED)
      \o Net("n", BLOCKED) \o Ask(BLOCKED)
      \o Later("rm", "c3") \o Try("c3", "n", BLOCKED) \o Look(FAILBLOCKED) \o Ask(FAILBLOCKED)
      \o Undo("pool", BLOCKED) \o Look(FAILBLOCKED)
      \o Run("c4", Main, FAIL) \o Look(FAILBLOCKED)

(* The judgement is made on the renumbered subnet and returned once the    *)
(* subnet is back and the leases of both are cleared.                      *)
C9 == Ask(NA) \o Ask(BLOCKED) \o Quiet("lease", BLOCKED) \o Net("n", BLOCKED)
      \o Run("c", "n", FAIL) \o Ask(FAIL) \o Look(BLOCKED)
      \o Quiet("renumber", BLOCKED) \o Judge(FAILBLOCKED)
      \o UndoOnce("renumber", BLOCKED) \o Do("source", BLOCKED)

(* Delayed replies, with cleanups of their own.                            *)
C10Delay == Quiet("netem", BLOCKED) \o Later("rm", "c1") \o Try("c1", Main, FAILBLOCKED)
            \o Look(FAILBLOCKED) \o Undo("netem", BLOCKED) \o Look(FAIL)

(* No replies: docker run waits in a goroutine while the capture is read;  *)
(* every way out lifts the loss and waits for it.                          *)
C10Loss == Quiet("netem", BLOCKED) \o Go("c2", Main)
           \o Later("join", "c2") \o Later("quiet", "netem")
           \o Look(BLOCKED) \o UndoOnce("netem", BLOCKED)
           \o Await("c2", FAILBLOCKED) \o Look(FAILBLOCKED)

C10 == Inner(C10Delay) \o C10Loss

(* A network before the outage, and one that must be refused during it.    *)
C11 == Ask(NA) \o Look(BLOCKED) \o Net("n1", FAILBLOCKED) \o Look(FAILBLOCKED) \o Ask(FAILBLOCKED)
       \o Quiet("service", BLOCKED) \o TryNet("n2") \o Ask(FAILBLOCKED) \o Look(FAILBLOCKED)

-----------------------------------------------------------------------------
RelayLeg(c, n) == Run(c, n, FAIL) \o Ask(FAIL) \o Look(BLOCKED) \o Look(FAILBLOCKED)

C12 == Ask(NA) \o Ask(BLOCKED) \o RelayLeg("c1", Main) \o Net("n", BLOCKED) \o RelayLeg("c2", "n")

C12b == Ask(BLOCKED) \o StartBound \o Ask(BLOCKED) \o Look(FAILBLOCKED)

ProgramsC ==
  [C1 |-> C1, C2 |-> C2, C3 |-> C3, C4 |-> C4, C5 |-> C5, C5b |-> C5b, C5c |-> C5c, C5d |-> C5d,
   C6 |-> C6, C6b |-> C6b, C7 |-> C7, C8 |-> C8, C9 |-> C9, C10 |-> C10, C11 |-> C11,
   C12 |-> C12, C12b |-> C12b]

OrderC == <<"C1", "C2", "C3", "C4", "C5", "C5b", "C5c", "C5d", "C6", "C6b", "C7", "C8", "C9",
            "C10", "C11", "C12", "C12b">>
=============================================================================
