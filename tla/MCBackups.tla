------------------------------ MODULE MCBackups ------------------------------
(* Two datastores, one of which the token may not audit, and two groups that *)
(* share an id, hence a key.                                                 *)
EXTENDS Backups
CONSTANTS d1, d2
MCGroups == {<<"vm", 100>>, <<"ct", 100>>}
=============================================================================
