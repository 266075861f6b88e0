----------------------------- MODULE MCAppState -----------------------------
(* The instance of AppState that TLC checks.                               *)
EXTENDS AppState
=============================================================================
