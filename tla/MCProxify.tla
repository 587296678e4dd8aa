------------------------------ MODULE MCProxify ------------------------------
(***************************************************************************)
(* A small instance of Proxify for TLC: connections without TLS, without   *)
(* and with fast open for less and for more than the request; TLS without  *)
(* early data; and TLS with early data, with and without a ticket.         *)
(***************************************************************************)
EXTENDS Proxify

Setup(t, n, e, k) == [tls |-> t, tfo |-> n, early |-> e, ticket |-> k]

All == {Setup(FALSE, 0, FALSE, FALSE), Setup(FALSE, 1, FALSE, FALSE), Setup(FALSE, 3, FALSE, FALSE),
        Setup(TRUE, 0, FALSE, FALSE), Setup(TRUE, 0, TRUE, TRUE),
        Setup(TRUE, 0, TRUE, FALSE)}
==============================================================================
