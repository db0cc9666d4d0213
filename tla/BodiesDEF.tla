---- MODULE BodiesDEF ----
(***************************************************************************)
(* Groups D (DHCPv6 and router advertisements), F (source features) and E  *)
(* (audit, metrics, links, soak).                                          *)
(***************************************************************************)
EXTENDS BodySteps

(* A dhcp network with an IPv6 option: the shape's own one is made again   *)
(* with the option where Docker's IPAM allows no second one.               *)
DNetwork(n) == IF n = Main THEN Swap(FAILBLOCKED) ELSE Net(n, FAIL)

(* The container, read at its start and again once it has settled.         *)
DCollect(n) == Start("c", n, FAIL) \o Look(BLOCKED)

DHCP6Row(n) == DNetwork(n) \o Later("rm", "c") \o DCollect(n)

Gate6 == Ask(NA) \o Ask(BLOCKED)

D1(n) == Gate6 \o DHCP6Row(n) \o Look(FAILBLOCKED)

(* No router advertisements: docker run's own refusal is judged.           *)
NoRARow == Gate6 \o Told("ra-off", BLOCKED) \o Net("n", FAIL)
           \o Later("rm", "c") \o Try("c", "n", NEVER) \o Ask(BLOCKED) \o Look(FAILBLOCKED)

D2(n) == Gate6 \o DHCP6Row(n) \o Look(FAILBLOCKED)

(* The wanted answer of an ipvlan cell is a refused network.               *)
Refused(n) == Attempt(n) \o Drop(n) \o Judge(FAILBLOCKED)

D2ipvlan == Gate6 \o TryNet("n") \o Judge(FAILBLOCKED)

D3(ra) == Gate6 \o Told(ra, BLOCKED) \o Net("n", FAIL) \o Later("rm", "c") \o DCollect("n")
          \o Look(FAILBLOCKED)

D3cAutoLeg == Ask(BLOCKED) \o Net("n", FAIL) \o Later("rm", "c") \o DCollect("n") \o Ask(FAILBLOCKED)
              \o Judge(FAILBLOCKED)

D3cFailLeg == Net("n", FAIL) \o Later("rm", "c") \o Try("c", "n", NEVER) \o Ask(BLOCKED)
              \o Judge(FAILBLOCKED)

D3c == Gate6 \o Ask(NA) \o Told("dhcp6", BLOCKED)
       \o Inner(D3cAutoLeg) \o Settle
       \o Inner(D3cFailLeg) \o Settle \o Inner(D3cFailLeg)

(* The flip back is what is looked at; recorded, never passed.             *)
D3d == D3("ra") \o UndoOnce("ra", BLOCKED) \o Ask(BLOCKED) \o Look(BLOCKED) \o Only({"BLOCKED", "N/A"})

D4(ra) == Gate6 \o Ask(BLOCKED) \o Told(ra, BLOCKED) \o Net("n", FAIL) \o Later("rm", "c") \o DCollect("n")
          \o Look(FAILBLOCKED)

(* The second prefix withdrawn, then advertised as expired.                *)
D4bWithdraw == UndoOnce("ra-second", BLOCKED) \o Look(FAILBLOCKED)
               \o Told("ra-second", BLOCKED) \o Look(FAILBLOCKED)

D4b == D4("ra-second") \o D4bWithdraw

-----------------------------------------------------------------------------
(* The feature is turned on where the source has it.                       *)
F4(n) == Gate6 \o Ask(BLOCKED) \o Maybe(Told("rapid6", BLOCKED)) \o DHCP6Row(n) \o Look(FAILBLOCKED)

F5(n) == Gate6 \o Ask(BLOCKED) \o Maybe(Told("temporary6", BLOCKED)) \o DHCP6Row(n) \o Ask(BLOCKED)
         \o Look(FAILBLOCKED)

F6 == Gate6 \o Ask(BLOCKED) \o Maybe(Told("pd", BLOCKED)) \o DHCP6Row("n") \o Ask(BLOCKED)
      \o Look(FAILBLOCKED)

F1 == Ask(NA) \o Ask(FAILBLOCKED) \o Told("classpool", BLOCKED) \o Net("n", FAIL) \o Run("c", "n", FAIL)
      \o Look(FAILBLOCKED) \o Ask(FAILBLOCKED)

F2a == Told("offer108", BLOCKED) \o Run("c", Main, FAIL) \o Look(FAILBLOCKED)

F2b == Ask(NA) \o Told("force108", BLOCKED) \o Net("n", FAIL) \o Run("c", "n", FAIL) \o Look(FAILBLOCKED)
       \o Run("ctl", Main, FAIL) \o Look(FAILBLOCKED)

F3 == Ask(NA) \o Ask(BLOCKED) \o Maybe(Told("rapid4", BLOCKED)) \o Net("n", FAIL)
      \o Run("c", "n", FAIL) \o Look(FAILBLOCKED)

F7 == Gate6 \o Ask(BLOCKED) \o Net("n", FAIL) \o Run("c", "n", FAIL) \o Look(FAILBLOCKED) \o Ask(BLOCKED)
      \o Maybe(Told("ra", BLOCKED)) \o Look(BLOCKED) \o Run("bind", "n", FAIL) \o Look(FAILBLOCKED)

(* Three forced renewals sent from the source, each looked at; the source  *)
(* is asked whether it is ready after its feature is off again.            *)
SentRenewal == Do("renewal", BLOCKED) \o Ask(BLOCKED) \o Look(BLOCKED)

F8 == Ask(NA) \o Ask(BLOCKED) \o Later("ready", "") \o Told("nonce", BLOCKED) \o Net("n", FAIL)
      \o Run("c", "n", FAIL) \o Look(FAILBLOCKED)
      \o SentRenewal \o SentRenewal \o SentRenewal \o Look(FAILBLOCKED)
      \o Run("ctl", Main, FAIL) \o Look(FAILBLOCKED)

-----------------------------------------------------------------------------
(* The audited network's container, watched until it is idle and stopped;  *)
(* the caller judges what was read.                                        *)
ECollect == Ask(BLOCKED) \o Quiet("lease", FAIL) \o Net("n", FAIL) \o Later("rm", "c")
            \o Ask(FAILBLOCKED) \o Start("c", "n", FAIL) \o Ask(BLOCKED) \o Ask(FAIL) \o Look(FAIL)
            \o Do("container", FAIL) \o Ask(FAILBLOCKED) \o Judge(FAILBLOCKED) \o Ask(FAIL)

E1 == Ask(NA) \o Inner(ECollect)

(* Two legs, each with its links read while the container is up and again  *)
(* once it and its network are gone.                                       *)
E3aLeg == Net("n", FAIL) \o Run("c", "n", FAIL) \o Ask(FAIL) \o Judge(FAILBLOCKED)
          \o Remove("c", NEVER) \o Drop("n") \o Ask(FAIL) \o Judge(FAILBLOCKED)

E3aBridge == Ask(NA) \o Ask(BLOCKED) \o Inner(E3aLeg) \o Ask(BLOCKED) \o Inner(E3aLeg) \o Ask(BLOCKED)

E3aParent == Ask(NA) \o Ask(BLOCKED) \o Net("n", FAIL) \o Run("c", "n", FAIL) \o Ask(BLOCKED)
             \o Judge(FAILBLOCKED) \o TryNet("n2") \o Remove("c", NEVER) \o Drop("n") \o Drop("n2") \o Look(FAILBLOCKED)

(* A link of the host's own is listed for removal once its creation has    *)
(* answered.                                                               *)
E3b == Ask(NA) \o Ask(BLOCKED) \o Later("listed", "") \o Net("n", FAIL) \o Run("c", "n", FAIL)
       \o Ask(FAILBLOCKED) \o Judge(FAILBLOCKED) \o Remove("c", NEVER) \o Drop("n") \o Look(FAILBLOCKED)
       \o Link("vlan", BLOCKED) \o List("vlan") \o TryNet("r1") \o Drop("r1")
       \o Remove("vlan", BLOCKED) \o Unlist("vlan")
       \o Link("dummy", BLOCKED) \o List("dummy") \o TryNet("r2") \o Drop("r2") \o Look(FAILBLOCKED)

(* The fleet holds its leases over the window.                             *)
E5 == Ask(BLOCKED) \o Quiet("lease", FAIL) \o Ask(BLOCKED)
      \o Run("c1", Main, FAIL) \o Ask(BLOCKED) \o Look(FAIL)
      \o Run("c2", Main, FAIL) \o Ask(BLOCKED) \o Look(FAIL)
      \o Ask(FAIL) \o Ask(FAILBLOCKED) \o Look(FAIL) \o Ask(FAIL) \o Look(FAILBLOCKED) \o Ask(FAIL)

ProgramsDEF ==
  [D1 |-> D1("n"), D1ipam |-> D1(Main), D1c |-> NoRARow, D2 |-> D2("n"), D2ipam |-> D2(Main),
   D2ipvlan |-> D2ipvlan, D3a |-> D3("ra"), D3c |-> D3c, D3d |-> D3d, D4 |-> D4("ra-second"),
   D4b |-> D4b, F1 |-> F1, F2a |-> F2a, F2b |-> F2b, F3 |-> F3, F4 |-> F4("n"),
   F4ipam |-> F4(Main), F5 |-> F5("n"), F5ipam |-> F5(Main), F6 |-> F6,
   F6ipvlan |-> Gate6 \o Refused("n"), F7 |-> F7, F8 |-> F8, E1 |-> E1, E3aBridge |-> E3aBridge,
   E3aParent |-> E3aParent, E3b |-> E3b, E5 |-> E5]

OrderDEF == <<"D1", "D1ipam", "D1c", "D2", "D2ipam", "D2ipvlan", "D3a", "D3c", "D3d", "D4", "D4b",
              "F1", "F2a", "F2b", "F3", "F4", "F4ipam", "F5", "F5ipam", "F6", "F6ipvlan", "F7", "F8",
              "E1", "E3aBridge", "E3aParent", "E3b", "E5">>
=============================================================================
