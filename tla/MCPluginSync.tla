---------------------------- MODULE MCPluginSync ----------------------------
(* Instances of PluginSync for TLC. *)
EXTENDS PluginSync

\* "categories" is in the full queue only, as in the code; "coupons" in both.
\* Reading either needs WooCommerce, and a single coupon may fail to load.
Both == {"categories", "coupons"}
FullOrder == <<"categories", "coupons">>
IncrementalOrder == <<"coupons">>
SomeCoupons == {"coupons"}

OneCategorySixCoupons == [e \in Both |-> IF e = "coupons" THEN 6 ELSE 1]
OneCategoryFourCoupons == [e \in Both |-> IF e = "coupons" THEN 4 ELSE 1]
==============================================================================
