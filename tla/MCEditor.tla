------------------------------- MODULE MCEditor -------------------------------
(* Instances of Editor: one or two mounts of the page and openFile calls.*)
EXTENDS Editor

CONSTANTS o1, o2
===============================================================================
