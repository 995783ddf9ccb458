------------------------- MODULE MCSegmentDelivery -------------------------
(* Small instances of SegmentDelivery.                                     *)
EXTENDS SegmentDelivery

CONSTANTS n1, p1
=============================================================================
