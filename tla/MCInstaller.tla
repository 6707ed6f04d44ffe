----------------------------- MODULE MCInstaller -----------------------------
(* Instance of Installer with one entry of each kind the model tells apart.*)
EXTENDS Installer

CONSTANTS boot, usr, system, var

MCEntry == {boot, usr, system, var}
=============================================================================
