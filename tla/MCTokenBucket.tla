--------------------------- MODULE MCTokenBucket ----------------------------
(* A bucket of three tokens, callers that ask, and ask again, for nothing,    *)
(* for a part of it, for all of it or for more than it holds, and a           *)
(* reconfiguration to more or to less.                                        *)
EXTENDS TokenBucket

CONSTANTS c1, c2, c3
=============================================================================
