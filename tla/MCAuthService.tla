---------------------------- MODULE MCAuthService ----------------------------
(***************************************************************************)
(* Small instances of AuthService.  Tokens and requests are interchangeable*)
(* and only safety is checked, so both are symmetric.                      *)
(***************************************************************************)
EXTENDS AuthService, TLC

Symmetry == Permutations(Token) \union Permutations(Proc)

\* The endpoints of the session runs and of the recovery run.
SessionOps == {"register", "login", "refresh", "role", "block"}
RecoveryOps == {"register", "reset", "verify"}
RotationOps == {"register", "login", "refresh"}

=============================================================================
