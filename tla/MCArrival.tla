------------------------------ MODULE MCArrival ------------------------------
(* CornerArrival for TLC, with the values of MCCorner. *)
EXTENDS CornerArrival
=============================================================================
