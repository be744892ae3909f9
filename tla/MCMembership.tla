---------------------------- MODULE MCMembership ----------------------------
(***************************************************************************)
(* The links of the Membership instances.                                  *)
(***************************************************************************)
EXTENDS Membership

CONSTANTS q  \* the peer that shares no LAN with the master

(* The PINGs between q and the master are the ones that may be late. *)
MCSlow == {<<q, Master>>}

=============================================================================
