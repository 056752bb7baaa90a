------------------------------ MODULE MCSkwSta ------------------------------
(* SkwSta with two networks; the instance of MCSkwControl on its own.        *)
EXTENDS SkwSta
=============================================================================
