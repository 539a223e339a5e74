-------------------------- MODULE MCIptablesRules --------------------------
(* A small instance of IptablesRules for TLC.                              *)
EXTENDS IptablesRules

(* IPv4 has eight networks, IPv6 one.                                      *)
MCLocal == [ip |-> {"n1", "n2"}, ip6 |-> {"n3"}]
=============================================================================
