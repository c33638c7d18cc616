---- MODULE MCRemoteSync ----
(* Three generations of archives, and a second line that leaves the first    *)
(* after v1 under the same names.                                            *)
EXTENDS RemoteSync, TLC

CONSTANTS c1, c2, v1, v2, v3, w2, w3, n1, n2, n3

MCNameOf == v1 :> n1 @@ v2 :> n2 @@ v3 :> n3 @@ w2 :> n2 @@ w3 :> n3
MCBases == v1 :> <<>> @@ v2 :> <<v1>> @@ v3 :> <<v2, v1>> @@ w2 :> <<v1>> @@ w3 :> <<w2>>
MCAge == n1 :> 0 @@ n2 :> 1 @@ n3 :> 2

\* One client has the first line, the other the last archive of the second.
MixedOwned == c1 :> {v1, v2, v3} @@ c2 :> {w3}
====
