---------------------------- MODULE MCPgLibrary ----------------------------
(* One thread that uses libpg_query directly. *)
EXTENDS PgLibrary

MCInputs == {"good", "bad"}
MCAccepts == [i \in MCInputs |-> IF i = "good" THEN {"on", "off"} ELSE {}]
MCFresh(S) == S
=============================================================================
