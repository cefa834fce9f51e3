----------------------------- MODULE MCCallPlane -----------------------------
(* Instances of CallPlane for TLC. *)
EXTENDS CallPlane, TLC

CONSTANTS c1, c2, k1, k2, d1, d2, u1, u2

\* c1's Call-ID has no host part; c2's is k2 followed by "@host".
MCSanitize == c1 :> c1 @@ c2 :> k2
HostOnly == c2 :> k2
\* Both Call-IDs have one.
BothHosts == c1 :> k1 @@ c2 :> k2

\* One DID with one channel, dialled by both calls.
SameDid == c1 :> d1 @@ c2 :> d1
OneChannel == d1 :> 1
\* Two channels on the DID, of a user capped at one call in all.
ToD2 == c2 :> d2
TwoOnD1 == d1 :> 2
OneOnD2 == d2 :> 1
CappedAtOne == u1 :> 1
Uncapped == u1 :> -1
TwoUncapped == u1 :> -1 @@ u2 :> -1

Once == c1 :> 1 @@ c2 :> 1
C2Twice == c1 :> 1 @@ c2 :> 2
LoneOnce == c2 :> 1
LoneTwice == c2 :> 2

Rich == u1 :> 3
TwoRich == u1 :> 3 @@ u2 :> 1
===============================================================================
