----------------------------- MODULE MCStartup -----------------------------
(* Two addresses, two keys and two ciphers, any of them in the environment *)
(* of each of three deployments; two requests, for the settings or for one   *)
(* of two providers.                                                       *)
EXTENDS Startup, TLC

CONSTANTS u1, u2, k1, k2, c1, c2, r1, r2

Interchangeable ==
  {f @@ g @@ h @@ i : f \in Permutations({u1, u2}), g \in Permutations({k1, k2}),
                      h \in Permutations({c1, c2}), i \in Permutations({r1, r2})}
=============================================================================
