--------------------------- MODULE MCServerRouter ---------------------------
(***************************************************************************)
(* Two routes, two names and two tags, and enough add_route calls to       *)
(* register one name twice around a commit.                                *)
(***************************************************************************)
EXTENDS ServerRouter

MCRoutes == {"echo", "chat"}
MCNames == {"A", "B"}
MCSTypes == {"t", "u"}
=============================================================================
