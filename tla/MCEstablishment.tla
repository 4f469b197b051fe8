-------------------------- MODULE MCEstablishment --------------------------
(***************************************************************************)
(* Two calls of start on one listener; a client and a peer of another      *)
(* kind.                                                                   *)
(***************************************************************************)
EXTENDS Establishment

CONSTANTS c1, c2, t1, t2

MCConns == {c1, c2}
MCOneConn == {c1}
MCTasks == {t1, t2}
MCOneTask == {t1}
MCNobody == {}
MCForeign == {c2}
=============================================================================
