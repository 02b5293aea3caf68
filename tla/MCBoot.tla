------------------------------- MODULE MCBoot -------------------------------
(* Three terminals, the last on display after boot, and blocks for all     *)
(* nine requests of the boot sequence or for any number fewer.             *)
EXTENDS Boot
=============================================================================
