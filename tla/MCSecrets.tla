------------------------------ MODULE MCSecrets ------------------------------
(***************************************************************************)
(* Model values for Secrets: two terminals, two properties, two secrets,   *)
(* and secrets unset with one property or with both.                       *)
(***************************************************************************)
EXTENDS Secrets

CONSTANTS k1, k2

MCArguments == {<<k1>>, <<k2>>, <<k1, k2>>}
=============================================================================
