----------------------------- MODULE MCSecrets -----------------------------
(* Two vault references and one read in place; a policy that reads the      *)
(* former from an account each, and one that moves both into one account.   *)
EXTENDS Secrets, TLC
CONSTANTS r1, r2, env, mine, work

Names == {r1, r2, env}
InVault == {r1, r2}
Both == {mine, work}
Apart == (r1 :> mine) @@ (r2 :> work) @@ (env :> mine)
Moved == (r1 :> work) @@ (r2 :> work)
All == {Apart, Moved}
Turned == {r2}
=============================================================================
