----------------------------- MODULE MCPortTabs -----------------------------
(* Two ports, a connection, a restored tab or an empty one, and one more, two scans. *)
EXTENDS PortTabs

CONSTANTS p1, p2

MCPort == {p1, p2}
MCPortOrder == <<p1, p2>>
MCSavedTabs == {<<>>, <<p1>>}
MCResults == {{p1, p2}, {p2}}

=============================================================================
