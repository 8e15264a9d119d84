------------------------------ MODULE MCAudit ------------------------------
(***************************************************************************)
(* Three rows of pulls and vows within five seconds: a purchase may accrue *)
(* more than it costs, straddle a second, or cost nothing, and the wall    *)
(* clock may be set back by less or by more than the margin spares.        *)
(***************************************************************************)
EXTENDS Audit
=============================================================================
