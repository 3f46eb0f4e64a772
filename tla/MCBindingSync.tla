----------------------------- MODULE MCBindingSync -----------------------------
(* BindingSync for TLC.                                                    *)
EXTENDS BindingSync
===============================================================================
