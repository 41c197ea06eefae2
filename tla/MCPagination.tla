---------------------------- MODULE MCPagination ----------------------------
(***************************************************************************)
(* Instances of Pagination for TLC: a handful of rows, two timestamps (so  *)
(* that several rows share one), and limits below, at and above the        *)
(* largest page.                                                           *)
(***************************************************************************)
EXTENDS Pagination

SoundListings == {"ListEndpoints", "ListDeliveriesByEndpoint",
                  "ListDeadLetteredDeliveries"}

\* Two timestamps, and none.
StampsOrNone == {Null, 1, 2}
=============================================================================
