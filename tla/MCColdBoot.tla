----------------------------- MODULE MCColdBoot -----------------------------
(* A driver and an engine on one file. Drivers that take turns differ in    *)
(* nothing, so that one that is booted again stands for any number.         *)
EXTENDS ColdBoot
=============================================================================
