------------------------------- MODULE MCRbac -------------------------------
(***************************************************************************)
(* An instance of Rbac for TLC: one administrator.                         *)
(***************************************************************************)
EXTENDS Rbac

OneAdmin == <<"d1">>
=============================================================================
