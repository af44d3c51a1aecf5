----------------------------- MODULE MCPgThread -----------------------------
(* A small instance of PgThread: two scheduler threads, and one input of   *)
(* each kind the properties tell apart.                                    *)
EXTENDS PgThread, TLC

MCInputs == {"bad", "backslash", "malformed"}
MCMessages == {"good", "unknown_node"}
MCMalformed == {"malformed"} \cap Inputs
MCUnreadable == {"unknown_node"} \cap Inputs

(* "backslash" is a literal such as 'a\', which ends the string only under *)
(* standard_conforming_strings.                                            *)
MCAccepts ==
  [i \in Inputs |-> CASE i \in {"good", "unknown_node"} -> {"on", "off"}
                        [] i = "backslash" -> {"on"}
                        [] OTHER -> {}]

(* Contexts are interchangeable, so any fixed choice of a free one will do. *)
MCFresh(S) == IF S = {} THEN {} ELSE {CHOOSE c \in S : \A d \in S : c <= d}

Symmetry == Permutations(Threads)
=============================================================================
