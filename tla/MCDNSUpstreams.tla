---------------------------- MODULE MCDNSUpstreams ----------------------------
(* DNSUpstreams for TLC: lookups are interchangeable. *)
EXTENDS DNSUpstreams, TLC

Symmetry == Permutations(Lookups)
==============================================================================
