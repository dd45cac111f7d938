------------------------------ MODULE MCSshConnect ----------------------------
(* Small instances of SshConnect for TLC. *)
EXTENDS SshConnect

MCKeyFiles == <<"id_a", "id_b">>
MCSavedSets ==
  {{}, {"password"}, {"key"}, {"agent"}, {"password", "mfa"}, {"key", "values"}, {"blank"}}
=============================================================================
