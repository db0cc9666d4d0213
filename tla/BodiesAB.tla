---- MODULE BodiesAB ----
(***************************************************************************)
(* Groups A (restarts, reboots, the plugin's own life) and B (options and  *)
(* reservations), one definition per scenario.                             *)
(***************************************************************************)
EXTENDS BodySteps

A1 == Run("c", Main, FAIL) \o Look(FAIL)

A2 == Ask(BLOCKED) \o Run("c", Main, FAIL) \o Look(FAIL)
      \o Do("container", FAIL) \o Ask(FAIL) \o Look(FAIL)

A3 == Run("c", Main, FAIL) \o Look(FAIL) \o Remove("c", NEVER)
      \o Start("c", Main, FAIL) \o Look(FAIL)

A4 == Run("c", Main, FAIL) \o Look(FAIL) \o Do("docker", FAIL) \o Ask(FAIL) \o Look(FAIL)

(* The reboot's own error is ignored, its wait tells FAIL from BLOCKED.    *)
A5 == Run("c", Main, FAIL) \o Look(FAIL) \o Ask(FAIL) \o Do("host", NEVER)
      \o Ask(FAILBLOCKED) \o Ask(FAIL) \o Look(FAIL)

A5b == Ask(NA) \o Run("c", Main, FAIL) \o Ask(FAIL) \o Look(FAIL) \o Ask(FAIL)
       \o Do("host", NEVER) \o Ask(FAILBLOCKED) \o Ask(FAIL) \o Look(FAIL)

(* The previous plugin tag, a container under it, the upgrade.             *)
A6 == Ask(NA) \o Later("rm", "c")
      \o Do("remove-plugin", NEVER) \o Do("install-previous", FAIL)
      \o Start("c", Main, FAIL) \o Look(FAIL)
      \o Do("disable-plugin", FAIL) \o Do("upgrade-plugin", FAIL) \o Do("enable-plugin", FAIL)
      \o Ask(FAIL) \o Look(FAIL)

A7 == Run("c", Main, FAIL) \o Look(FAIL) \o Ask(FAIL) \o Do("kill-plugin", FAIL)
      \o Ask(FAIL) \o Look(FAIL)

(* A container is named for removal once docker run has answered.          *)
A8 == Later("listed", "") \o Start("c1", Main, FAIL) \o List("c1")
      \o Start("c2", Main, FAIL) \o List("c2") \o Look(FAIL)

A9 == Run("c", Main, FAIL) \o Look(FAIL) \o Do("container", FAIL) \o Ask(FAIL)
      \o Do("container", FAIL) \o Ask(FAIL) \o Look(FAIL)

A10 == Run("c", Main, FAIL) \o Look(FAIL) \o Ask(FAIL) \o Do("container", FAIL)
       \o Ask(FAIL) \o Look(FAIL)

A11 == Run("c", Main, FAIL) \o Look(FAIL) \o Do("container", FAIL)
       \o Do("container", FAIL) \o Look(FAIL)

A12 == Run("c", Main, FAIL) \o Look(FAIL) \o Do("container", FAIL) \o Look(FAIL)
       \o Do("container", FAIL) \o Ask(FAIL) \o Look(FAIL)

(* The network's removal is deferred behind the container's.               *)
A13 == Later("rm", "c") \o Net("internal", FAIL) \o Start("c", Main, FAIL)
       \o Attach("c", "internal", FAIL) \o Ask(FAIL) \o Look(FAIL) \o Ask(FAIL)

A14 == Quiet("lease", FAIL) \o Run("c", Main, FAIL) \o Look(FAIL) \o Ask(FAIL) \o Look(FAIL)

A15 == Later("listed", "") \o Start("c1", Main, FAIL) \o List("c1") \o Look(FAIL)
       \o Start("c2", Main, FAIL) \o List("c2") \o Look(FAIL)
       \o Unlist("c1") \o Remove("c1", NEVER) \o Look(FAIL) \o Ask(FAIL) \o Look(FAIL)

A16 == Run("c", Main, FAIL) \o Look(FAIL) \o Do("container", FAIL) \o Ask(FAIL) \o Look(FAIL)

-----------------------------------------------------------------------------
B1 == Ask(NA) \o Ask(FAIL) \o ReserveBy("mac", FAIL) \o Run("c", Main, FAIL) \o Look(FAIL)

B2 == Ask(NA) \o Ask(FAIL) \o ReserveBy("id", FAIL) \o Net("n", FAIL) \o Run("c", "n", FAIL) \o Look(FAIL)

(* The lease, then the name in the source's DNS.                           *)
B3 == Ask(NA) \o Ask(FAIL) \o Net("n", FAIL) \o Run("c", "n", FAIL) \o Look(FAIL) \o Look(FAIL)

B4 == Ask(NA) \o Run("c", Main, FAIL) \o Look(FAIL) \o Remove("c", NEVER)
      \o Start("c", Main, FAIL) \o Look(FAIL)

B5 == Ask(NA) \o Ask(FAIL) \o Net("n", FAIL) \o Run("c", "n", FAIL) \o Look(FAIL)

(* The option changes on a source whose lease time is short already.       *)
B6 == Ask(NA) \o Ask(FAIL) \o Quiet("lease", FAIL) \o Net("n", FAIL) \o Run("c", "n", FAIL)
      \o Look(FAIL) \o Ask(FAIL) \o Quiet("dns", FAIL) \o Look(FAIL) \o Ask(FAIL)

B7 == Ask(NA) \o Net("n", FAIL) \o Run("c", "n", FAIL) \o Look(FAIL)
      \o Remove("c", NEVER) \o Look(FAIL)

(* Every name is listed before its docker run.                             *)
B8 == Later("listed", "") \o List("c1") \o Start("c1", Main, FAIL)
      \o List("c2") \o Start("c2", Main, FAIL) \o Look(FAIL)

ProgramsAB ==
  [A1 |-> A1, A2 |-> A2, A3 |-> A3, A4 |-> A4, A5 |-> A5, A5b |-> A5b, A6 |-> A6, A7 |-> A7,
   A8 |-> A8, A9 |-> A9, A10 |-> A10, A11 |-> A11, A12 |-> A12, A13 |-> A13, A14 |-> A14,
   A15 |-> A15, A16 |-> A16,
   B1 |-> B1, B2 |-> B2, B3 |-> B3, B4 |-> B4, B5 |-> B5, B6 |-> B6, B7 |-> B7, B8 |-> B8]

OrderAB == <<"A1", "A2", "A3", "A4", "A5", "A5b", "A6", "A7", "A8", "A9", "A10", "A11", "A12",
             "A13", "A14", "A15", "A16", "B1", "B2", "B3", "B4", "B5", "B6", "B7", "B8">>
=============================================================================
