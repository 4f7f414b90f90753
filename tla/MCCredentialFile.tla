-------------------------- MODULE MCCredentialFile --------------------------
(***************************************************************************)
(* A small instance of CredentialFile for TLC.                             *)
(***************************************************************************)
EXTENDS CredentialFile, TLC

CONSTANTS s1, s2, s3, p1, p2

\* Two saves in one process, a third in another.
TwoAndOne == s1 :> p1 @@ s2 :> p1 @@ s3 :> p2

=============================================================================
