--------------------------- MODULE MCTenantAccount ---------------------------
(* Instances of TenantAccount for TLC.                                     *)
EXTENDS TenantAccount

(* Everything but the owner's free choice of a status.                     *)
MCGuardedOps == AllOps \ {"update"}
=============================================================================
