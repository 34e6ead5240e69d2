---------------------------- MODULE MCSdkClient -----------------------------
(* Instances of SdkClient: exchanges s1, s2 and s3 of one partition go     *)
(* through the managed session, d1 is made directly.                       *)
EXTENDS SdkClient, TLC

CONSTANTS s1, s2, s3, d1, p1, p2

MCPartOf == [e \in Exchanges |-> IF e = d1 THEN p2 ELSE p1]

PartOfTwo == (s1 :> p1) @@ (d1 :> p1)

MCSymmetry == Permutations({s1, s2})

MCLimits(n, m, k, l) ==
  [maxConcurrent |-> n, maxConcurrentPerPartition |-> m, maxQueued |-> k, maxQueuedPerPartition |-> l]

Narrow == MCLimits(1, 1, 1, 1)

Middle == MCLimits(2, 1, 1, 1)

Wide == MCLimits(2, 2, 1, 1)

Advertised == {Narrow, Wide}

(* The third exchange of the session is there to find its queue full.      *)
Focus ==
  \/ At(s3, "idle")
  \/ \A e \in Exchanges : ex[e].pc \in {"idle", "serial", "settled"}
=============================================================================
