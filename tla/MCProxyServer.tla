--------------------------- MODULE MCProxyServer ---------------------------
(* ProxyServer for TLC: which client sends what, and to which redis server. *)
EXTENDS ProxyServer, TLC

CONSTANTS c1, c2, r1, r2, r3

\* c1 sends two requests (pipelined), c2 one.
MCconnOf == (r1 :> c1) @@ (r2 :> c1) @@ (r3 :> c2)

\* All keys hash to one server: they compete for its connections.
MCsameServer == (r1 :> 0) @@ (r2 :> 0) @@ (r3 :> 0)

\* The keys of the two clients hash to different servers.
MCtwoServers == (r1 :> 0) @@ (r2 :> 1) @@ (r3 :> 1)

=============================================================================
