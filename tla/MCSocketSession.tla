--------------------------- MODULE MCSocketSession ---------------------------
(* An instance of SocketSession for TLC. The text has a false start of the *)
(* separator xy, and separators that span two buffers and three.           *)
EXTENDS SocketSession, TLC

CONSTANTS x, y

MCText == <<x, x, y, x>>
MCSeps == {<<y>>, <<x, y>>, <<y, x>>, <<x, x, y>>}
NodeSymmetry == Permutations(Node)
=============================================================================
