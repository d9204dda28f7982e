--------------------------- MODULE MCDashMapEntry ---------------------------
(***************************************************************************)
(* Model values for checking DashMapEntry with TLC: keys k1 and k2 share   *)
(* shard s1, so their calls contend for one lock; k3 lives in s2, so a    *)
(* call on it proceeds while s1 is held.                                   *)
(***************************************************************************)
EXTENDS DashMapEntry, TLC

CONSTANTS k1, k2, k3, s1, s2

MCKeys == {k1, k2, k3}
MCShards == {s1, s2}
MCShardOf == k1 :> s1 @@ k2 :> s1 @@ k3 :> s2

=============================================================================
