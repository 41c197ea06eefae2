----------------------------- MODULE MCGateway -----------------------------
(***************************************************************************)
(* Instances of Gateway for TLC.                                           *)
(***************************************************************************)
EXTENDS Gateway

\* One good configuration for pools of one and of two connections, one for each way
\* flag.Parse ends the process, for each thing Load and validate look at one that
\* fails there, and one that they let through and the pool panics of.
Good == [flags |-> "ok", readable |-> TRUE, secrets |-> TRUE, port |-> 8081,
         max_conns |-> 1, min_conns |-> 0, max_retries |-> 5, health_check_period |-> 30]

MCConfigs ==
    {Good,
     [Good EXCEPT !.max_conns = 2, !.min_conns = 2],
     [Good EXCEPT !.flags = "help"],
     [Good EXCEPT !.flags = "bad"],
     [Good EXCEPT !.readable = FALSE],
     [Good EXCEPT !.secrets = FALSE],
     [Good EXCEPT !.port = 0],
     [Good EXCEPT !.port = 65536],
     [Good EXCEPT !.max_conns = 0],
     [Good EXCEPT !.min_conns = -1],
     [Good EXCEPT !.min_conns = 2],
     [Good EXCEPT !.max_retries = -1],
     [Good EXCEPT !.health_check_period = 0]}
=============================================================================
