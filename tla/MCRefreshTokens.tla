-------------------------- MODULE MCRefreshTokens ---------------------------
(* Requests for TLC.                                              *)
EXTENDS RefreshTokens

CONSTANTS q1, q2

TwoRequests == {q1, q2}
=============================================================================
