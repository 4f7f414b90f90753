--------------------------- MODULE MCTokenManager ---------------------------
(***************************************************************************)
(* Small instances of TokenManager for TLC.                                *)
(***************************************************************************)
EXTENDS TokenManager, TLC

Symmetry == Permutations(Callers \ Forcing) \cup Permutations(Forcing)

\* Every way to configure a process.
AnySettings == [refreshToken : {NoToken, UserToken}, password : BOOLEAN]
\* Nothing but what `clm-mcp login` left behind, with or without a password.
StoreOnly == [refreshToken : {NoToken}, password : BOOLEAN]
\* A wall clock behind the monotonic one, or in step with it.
WallClocks == {-2, 0}
\* Clocks in step.
OneClock == {0}

=============================================================================
