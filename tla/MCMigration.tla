---------------------------- MODULE MCMigration ----------------------------
(***************************************************************************)
(* Small instances of Migration for TLC.                                   *)
(***************************************************************************)
EXTENDS Migration

(* Of the shape of the repository's files: a table with an index; two      *)
(* tables, of which the second needs nothing, with an index of the first;  *)
(* a table.                                                                *)
ThreeFiles == <<2, 3, 1>>
TwoFiles   == <<2, 1>>

TableOf(o) ==
  CASE o = <<1, 2>> -> {<<1, 1>>}
    [] o = <<2, 3>> -> {<<2, 1>>}
    [] OTHER        -> {}
NeedsTable == [o \in Objects |-> TableOf(o)]

(* An index that is refused. *)
BadIndex == {<<2, 3>>}
=============================================================================
