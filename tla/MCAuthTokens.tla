------------------------------ MODULE MCAuthTokens ------------------------------
(* Instances of AuthTokens for TLC. *)
EXTENDS AuthTokens

CONSTANTS t1, t2

TwoTabs == {t1, t2}
FirstTab == {t1}
=============================================================================
