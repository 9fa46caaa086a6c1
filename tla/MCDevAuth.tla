------------------------------ MODULE MCDevAuth ------------------------------
(* Keys of two processes, or of one and the command line, are enough.        *)
EXTENDS DevAuth
=============================================================================
