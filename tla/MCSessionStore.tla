--------------------------- MODULE MCSessionStore ---------------------------
(* The sessions table on its own: the instance is in the configuration.    *)
EXTENDS SessionStore
=============================================================================
