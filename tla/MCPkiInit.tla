------------------------------- MODULE MCPkiInit -------------------------------
(* Three runs at once in a directory that may hold any of the four files. *)
EXTENDS PkiInit
===============================================================================
