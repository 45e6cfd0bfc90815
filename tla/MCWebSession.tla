------------------------------ MODULE MCWebSession -----------------------------
(* The instance of WebSession that TLC checks: two lists that differ, one  *)
(* of them empty, and requests that overlap.                               *)
EXTENDS WebSession
=============================================================================
