---------------------- MODULE MCCredentialsFetcher ----------------------
(***************************************************************************)
(* Instances of CredentialsFetcher for TLC.                                *)
(***************************************************************************)
EXTENDS CredentialsFetcher, TLC

CONSTANTS r1, r2, a1, a2, u

\* Random lease ids and accounts are interchangeable.
Symmetric == Permutations({r1, r2}) \cup Permutations({a1, a2})

=============================================================================
