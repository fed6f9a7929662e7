------------------------ MODULE MCHttpServerInstance ------------------------
(* Clients that mean to send a good request or a bad one, and may go away   *)
(* at any byte of it.                                                      *)
EXTENDS HttpServerInstance

MCRequests == {[head |-> 2, bad |-> b, fields |-> <<>>] : b \in {0, 1}}
=============================================================================
