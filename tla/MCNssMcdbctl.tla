---------------------------- MODULE MCNssMcdbctl ----------------------------
(* Small instances of NssMcdbctl.                                          *)
EXTENDS NssMcdbctl

CONSTANT d1

MCOne == <<d1>>
=============================================================================
