-------------------------- MODULE MCNetworkImport --------------------------
(***************************************************************************)
(* A switch with an action-profile member, a group of it, a table entry    *)
(* for the group with its direct counter, and a constant table entry.      *)
(***************************************************************************)
EXTENDS NetworkImport

CONSTANTS member, group, entry, counter, const

MCEntities == {member, group, entry, counter, const}
MCCategoryOf == [e \in MCEntities |->
  CASE e = member  -> "members"
    [] e = group   -> "groups"
    [] e = counter -> "direct"
    [] OTHER       -> "tables"]
MCNeeds == [e \in MCEntities |->
  CASE e = group   -> {member}
    [] e = entry   -> {group}
    [] e = counter -> {entry}
    [] OTHER       -> {}]
MCConstEntries == {const}
=============================================================================
