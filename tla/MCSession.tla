------------------------------ MODULE MCSession ------------------------------
(***************************************************************************)
(* Small instances of Session: two tabs or one tab with two axios clients. *)
(***************************************************************************)
EXTENDS Session, TLC

CONSTANTS t1, t2, c1, c2, r1, r2, r3, s1, s2

TwoTabs == (c1 :> t1) @@ (c2 :> t2)
OneTab == (c1 :> t1) @@ (c2 :> t1)
Alone == (c1 :> t1)
Apart == (r1 :> c1) @@ (r3 :> c2)
Split == (r1 :> c1) @@ (r2 :> c1) @@ (r3 :> c2)
Together == (r1 :> c1) @@ (r2 :> c1) @@ (r3 :> c1)
==============================================================================
