------------------------------ MODULE MCKeyStore ------------------------------
(* KeyStore for TLC: the command lines that matter, each combination of     *)
(* genkey's options that is refused among them.                             *)
EXTENDS KeyStore

Unset == [cmd |-> "genkey", key |-> "default", list |-> FALSE,
          delete |-> FALSE, client |-> FALSE, force |-> FALSE, psk |-> "unset",
          region |-> 0, fixed |-> FALSE, embed |-> FALSE]

MCJobs ==
  {Unset,
   [Unset EXCEPT !.psk = "false", !.force = TRUE],
   [Unset EXCEPT !.region = 2],
   [Unset EXCEPT !.fixed = TRUE, !.psk = "false"],
   [Unset EXCEPT !.embed = TRUE],
   [Unset EXCEPT !.key = "client-default", !.client = TRUE],
   [Unset EXCEPT !.delete = TRUE],
   [Unset EXCEPT !.delete = TRUE, !.list = TRUE],
   [Unset EXCEPT !.client = TRUE],
   [Unset EXCEPT !.key = "", !.list = TRUE, !.force = TRUE],
   [Unset EXCEPT !.cmd = "serve", !.key = ""],
   [Unset EXCEPT !.cmd = "serve", !.psk = "true"],
   [Unset EXCEPT !.cmd = "client", !.key = ""],
   [Unset EXCEPT !.cmd = "ssh", !.key = "ssh_host_ed25519_key"]}
=============================================================================
