----------------------------- MODULE MCWorkspace -----------------------------
(* A small instance of Workspace: one text to search for, two pages of rows,   *)
(* one change of the operator and one of somebody else.                        *)
EXTENDS Workspace, TLC

CONSTANTS t
=============================================================================
