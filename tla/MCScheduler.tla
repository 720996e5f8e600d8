----------------------------- MODULE MCScheduler -----------------------------
(* Three events up to three samples ahead, frames of one and two samples;   *)
(* and table.sort on every list of up to six deltas.                        *)
EXTENDS TableSort
=============================================================================
