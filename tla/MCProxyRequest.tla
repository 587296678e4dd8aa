--------------------------- MODULE MCProxyRequest ---------------------------
(***************************************************************************)
(* Small instances of ProxyRequest for TLC.  The requests: every command,  *)
(* good and bad credentials, no, little and more payload than a segment    *)
(* holds, a request that does not fit into the buffer, one whose payload   *)
(* does not, and one for the DNS service.                                  *)
(***************************************************************************)
EXTENDS ProxyRequest

Host == <<10, 0, 0, 7>>

Request(kind, ok, len, tfo) ==
    [kind |-> kind, ok |-> ok, len |-> len, tfo |-> tfo, addr |-> Host, port |-> 80]

MCRequests ==
    {Request("connect", TRUE, 2, n) : n \in {0, 1, 3}}
        \cup {Request("connect", TRUE, 4, 2), Request("connect", TRUE, 6, 0),
              Request("connect", FALSE, 2, 1)}
        \cup {Request(k, TRUE, 2, 0) : k \in Kinds \ {"connect"}}

DNSRequests == {[Request("connect", TRUE, 2, 0) EXCEPT !.addr = ZeroAddr, !.port = 53]}
=============================================================================
