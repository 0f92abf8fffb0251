------------------------------- MODULE MCRestore -------------------------------
(* A stack directory, a bind mount in it and two volumes, of which one was    *)
(* recorded without a definition.                                             *)
EXTENDS Restore
CONSTANTS dir, bind, vol, oldvol, anon

MCKind == [c \in Components |-> CASE c = dir -> "stack-directory"
                                  [] c = bind -> "bind-mount"
                                  [] c = anon -> "anonymous-volume"
                                  [] OTHER -> "volume"]
================================================================================
