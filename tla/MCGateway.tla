----------------------------- MODULE MCGateway ------------------------------
(* An alias with a fallback target and a selector of one provider, in          *)
(* registries in which a target is disabled, and with a provider that can      *)
(* serve nobody.                                                                *)
EXTENDS Gateway, TLC

CONSTANTS r1, r2, p, q, s, alias, direct

Both == (alias :> <<p, q>>) @@ (direct :> <<q>>)
Disabled == (alias :> <<q>>) @@ (direct :> <<>>)
ChangingTables == {Both, Disabled}

StableTables == {(alias :> <<p, q>>) @@ (direct :> <<s>>)}
=============================================================================
