---------------------------- MODULE MCProxyServers ----------------------------
(* ProxyServers for TLC: the servers of a run, the SOCKS5 ones first as in   *)
(* startProxies, and connections that are interchangeable.                   *)
EXTENDS ProxyServers, TLC

BothKinds == <<"socks5", "http">>
HTTPOnly == <<"http">>
SOCKS5Only == <<"socks5">>

Symmetry == Permutations(Conns)
==============================================================================
