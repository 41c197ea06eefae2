-------------------------- MODULE MCEndpointAdmin --------------------------
(***************************************************************************)
(* Instances of EndpointAdmin for TLC: a name and a URL the service        *)
(* refuses, some it lets pass, and of max_attempts one that only the       *)
(* schema refuses.                                                         *)
(***************************************************************************)
EXTENDS EndpointAdmin, TLC

Values ==
    [name |-> {"", "billing", "audit"},
     url |-> {"ftp://host", "https://host/a"},
     topics |-> {{"orders"}},
     secret |-> {},
     active |-> BOOLEAN,
     max_attempts |-> {0, 21},
     timeout_ms |-> {5000}]

MCUsableUrls == {"https://host/a"}

IdSymmetry == Permutations(Ids) \cup Permutations(Calls)
=============================================================================
