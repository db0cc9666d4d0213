---- MODULE MCHostAccess ----
(* One caller beside the wait.                                             *)
EXTENDS HostAccess
MCOthers == {"cleanup"}
====
