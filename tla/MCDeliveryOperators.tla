------------------------ MODULE MCDeliveryOperators ------------------------
(***************************************************************************)
(* Instances of DeliveryOperators for TLC.                                 *)
(***************************************************************************)
EXTENDS DeliveryOperators, TLC

YesOrNo == {200, 503}
=============================================================================
