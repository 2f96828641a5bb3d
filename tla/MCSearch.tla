------------------------------ MODULE MCSearch ------------------------------
(* SearchController with its history on a small gimbal.                    *)
EXTENDS SearchHistory
=============================================================================
