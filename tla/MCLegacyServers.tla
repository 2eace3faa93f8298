----------------------------- MODULE MCLegacyServers ----------------------------
(* A small instance of LegacyServers for TLC: two calls, two workers of    *)
(* the compile server and one GPU.                                         *)
EXTENDS LegacyServers

CONSTANTS c1, c2, b1, b2, g1
===============================================================================
