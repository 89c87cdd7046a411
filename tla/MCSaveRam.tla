----------------------------- MODULE MCSaveRam -----------------------------
(* Model checking instance of SaveRam. *)
EXTENDS SaveRam

=============================================================================
