-------------------------- MODULE HttpServerInstance --------------------------
(***************************************************************************)
(* The process instances/web/http-server: main() starts the Instance and   *)
(* serves one exchange after another, each answered with 200 and a body.   *)
(* Every `?` in the loop ends main(), and with it the process.  The only   *)
(* other end is the operator's Ctrl+C; nothing calls Instance::stop.       *)
(***************************************************************************)
EXTENDS HttpServer

VARIABLE process  \* "running", "exited" (main returned) or "terminated"

instanceVars == <<vars, process>>

InstanceInit == Init /\ process = "running"

\* The next turn of the loop calls accept_exchange() if the last one went well.
Serve ==
    /\ process = "running"
    /\ \/ result \in {"none", "Ok"} /\ AcceptCall
       \/ Accepted \/ Decode \/ Respond \/ WriteReturns \/ Close
    /\ UNCHANGED process

\* `?`: main returns the error of accept_exchange() or of respond().
Exit ==
    /\ process = "running"
    /\ pc = "idle"
    /\ result \notin {"none", "Ok"}
    /\ process' = "exited"
    /\ UNCHANGED vars

Terminate ==
    /\ process = "running"
    /\ process' = "terminated"
    /\ UNCHANGED vars

Clients == (PeerSends \/ PeerCloses \/ PeerResets) /\ UNCHANGED process

InstanceNext == Serve \/ Exit \/ Terminate \/ Clients

InstanceSpec == InstanceInit /\ [][InstanceNext]_instanceVars

\* "serves requests until the operator terminates the process": the process does
\* not end by itself, whatever clients send, and whenever they go away.
ServesUntilTerminated == process # "exited"
=============================================================================
