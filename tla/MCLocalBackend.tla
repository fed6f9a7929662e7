---------------------------- MODULE MCLocalBackend ----------------------------
(* Two threads that call the example, and one component beside it that logs a   *)
(* warning with a line break in it, a message with the other, or a trace.       *)
EXTENDS LocalBackend

CONSTANTS c1, c2

MCCallers  == {c1, c2}
MCEmitters == {c1, c2, Monitor}
MCPrefix   == <<"app">>
MCWords ==
    {"Trace", "Debug", "Info", "Warn", "Error", "\n", "\r", "\\n", "\\r", "app", "net",
     "lost", "peer", "up", "tick", "local-backend-example", "example stored local data"}
MCRecords ==
    {[level |-> "Warn", target |-> <<"net", "\r">>, message |-> <<"lost", "\n", "peer">>],
     [level |-> "Info", target |-> <<>>, message |-> <<"up", "\n">>],
     [level |-> "Trace", target |-> <<>>, message |-> <<"tick">>]}
=============================================================================
