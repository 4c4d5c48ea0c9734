------------------------------ MODULE MCLeanStrip ------------------------------
(* All sources over the five special characters and one letter. *)
EXTENDS LeanStrip

CONSTANT letter

================================================================================
