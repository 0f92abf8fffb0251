------------------------------ MODULE MCOperations ------------------------------
(* Requests for TLC.  On the agent's own stack the first is a self-operation *)
(* and the others, which name no service, are refused; on another stack the  *)
(* first is a compose command like any other.                                *)
EXTENDS Operations

MCRequests ==
    { [command |-> "up", services |-> "agent", credentials |-> TRUE],
      [command |-> "archive", services |-> "none", credentials |-> FALSE],
      [command |-> "backup", services |-> "none", credentials |-> TRUE] }
MCArchiveRequests ==
    { [command |-> "archive", services |-> "none", credentials |-> FALSE] }
================================================================================
