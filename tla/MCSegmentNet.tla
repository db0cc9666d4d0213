---------------------------- MODULE MCSegmentNet ----------------------------
(* Shape orders for TLC, cut from run-cell.sh's five: ipvlan is macvlan's     *)
(* path through this code.                                                    *)
EXTENDS SegmentNet

ThreeShapes == <<"macvlan", "bridge-ipam", "macvlan-ipam">>
TwoShapes == <<"bridge-ipam", "macvlan-ipam">>
TheIPAM == {"bridge-ipam", "macvlan-ipam"}
IPAMBridge == {"bridge-ipam"}
=============================================================================
