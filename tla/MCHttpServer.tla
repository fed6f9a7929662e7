---------------------------- MODULE MCHttpServer ----------------------------
(* Finite requests for HttpServer: heads around the head limit, flaws        *)
(* anywhere in them, up to two header fields, lengths around the body limit. *)
EXTENDS HttpServer

MCFields ==
    {[kind |-> "length", length |-> n] : n \in {0, MaxBody, MaxBody + 1}}
      \cup {[kind |-> k, length |-> 0] : k \in FieldKinds \ {"length"}}

MCHeaders == {<<>>} \cup {<<f>> : f \in MCFields} \cup (MCFields \X MCFields)

MCRequests ==
    {[head |-> h, bad |-> 0, fields |-> s] :
        h \in (MaxHead - 1)..MaxHead, s \in MCHeaders}
      \cup {[head |-> h, bad |-> b, fields |-> <<>>] :
        h \in 1..(MaxHead + 2), b \in 0..(MaxHead + 2)}
MCWellFormed == {r \in MCRequests : IsRequest(r)}
=============================================================================
