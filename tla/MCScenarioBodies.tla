---- MODULE MCScenarioBodies ----
(* The whole catalog.                                                      *)
EXTENDS ScenarioBodies, BodiesAB, BodiesC, BodiesDEF, TLC

MCPrograms == ProgramsAB @@ ProgramsC @@ ProgramsDEF
MCOrder == OrderAB \o OrderC \o OrderDEF
====
