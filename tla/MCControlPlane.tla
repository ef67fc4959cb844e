--------------------------- MODULE MCControlPlane ---------------------------
(* Timelines and console commands of the ControlPlane runs.                *)
EXTENDS ControlPlane

MCTimelines == {<<Link(2, "down"), Rate(5)>>, <<Dup(1), Kill("edge")>>}
MCPosts     == {Topology(1, 1), Topology(2, 1), Topology(2, 2), Reset}
=============================================================================
