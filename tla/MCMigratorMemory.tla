-------------------------- MODULE MCMigratorMemory --------------------------
(***************************************************************************)
(* A small instance of MigratorMemory for TLC: a megabyte stands for 8     *)
(* bytes, a path for two words.                                            *)
(***************************************************************************)
EXTENDS MigratorMemory
=============================================================================
