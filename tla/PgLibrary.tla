------------------------------ MODULE PgLibrary ------------------------------
(***************************************************************************)
(* More of libpg_query's interface to a thread: callers other than the     *)
(* NIFs may pass parser options to pg_query_parse_opts,                    *)
(* pg_query_parse_protobuf_opts and pg_query_fingerprint_opts.  Everything *)
(* else is PgThread.                                                       *)
(***************************************************************************)
EXTENDS PgThread

(* A parse or a fingerprint with standard_conforming_strings off. *)
BeginWithOptions(t, k, i) == k \in RawKinds /\ Begin(t, k, i, "off")

OptionsNext ==
  \/ Next
  \/ \E t \in Threads, k \in RawKinds, i \in Inputs : BeginWithOptions(t, k, i)

OptionsSpec == Init /\ [][OptionsNext]_vars

(* pg_query.h:112 says the setting is on unless a call turns it off for     *)
(* itself: a scan or a normalization, which take no options, runs with it  *)
(* on.                                                                     *)
DefaultSettingsInForce ==
  \A t \in Threads :
    call[t].pc = "body" /\ call[t].kind \in {"scan", "normalize"}
      => tls[t].scs = "on"
=============================================================================
