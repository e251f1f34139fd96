----------------------------- MODULE MCLeaseUnit -----------------------------
(* Instances of LeaseUnit for TLC: two leases compete for one unit.          *)
EXTENDS LeaseUnit, TLC

CONSTANTS l1, l2, u1

(* Both leases are drafted for the same unit.                                *)
MCUnitOf == (l1 :> u1) @@ (l2 :> u1)

MCUnitOf1 == (l1 :> u1)

(* The endpoints an owner uses who activates leases by hand.                 *)
OwnerOps == {"create", "activate", "pay", "edit", "reserve", "release"}

(* The tenant's way in: pay and sign.                                        *)
TenantOps == {"create", "sign", "pay"}

(* Everything, where the gateway never calls a completed payment failed.    *)
KeptOps == AllOps \ {"fail"}

(* Owners activate and terminate by hand; staff edit other fields.          *)
CloseOps == {"create", "activate", "terminate"}
EditOps == {"create", "terminate", "edit"}

=============================================================================
