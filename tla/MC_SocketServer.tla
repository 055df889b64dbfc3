--------------------------- MODULE MC_SocketServer ---------------------------
(* Two services, whose threads are interchangeable.                        *)
EXTENDS SocketServer, TLC

CONSTANTS c1, c2

ServiceSymmetry == Permutations({c1, c2})
=============================================================================
