---------------------------- MODULE MCBillingRun -----------------------------
(* Small instances of BillingRun for TLC: two leases of one property, the  *)
(* first with a metered utility, or each of a property of its own.         *)
EXTENDS BillingRun

MCOneProperty == [l \in Leases |-> CHOOSE p \in Properties : TRUE]
MCOwnProperty == CHOOSE f \in [Leases -> Properties] :
                   \A k, l \in Leases : k # l => f[k] # f[l]
=============================================================================
