----------------------------- MODULE MCHarvest -----------------------------
(***************************************************************************)
(* Instances of Harvest for TLC.                                            *)
(***************************************************************************)
EXTENDS HarvestInvariants, TLC

CONSTANTS r1, r2, v1, v2, bad, x1, x2, y1, p1, p2, e1, e2, h1, h2

\* Content "bad" cannot be mapped by p1; p2 maps it, and v1 to another record.
MapOneProfile  == p1 :> (v1 :> x1 @@ bad :> None)
MapOneVersion  == p1 :> (v1 :> x1)
MapTwoProfiles == p1 :> (v1 :> x1 @@ bad :> None) @@
                  p2 :> (v1 :> y1 @@ bad :> x2)

AboutFirst == [e \in Event |-> r1]

Disturb(change, drift, crash, fault, storeFault) ==
  "change" :> change @@ "drift" :> drift @@ "crash" :> crash @@
  "fault" :> fault @@ "storeFault" :> storeFault

\* change, drift, crash, fault, storeFault
LimitCommands == Disturb(1, 0, 1, 1, 0)
LimitBatches  == Disturb(1, 0, 0, 1, 1)
LimitLive     == Disturb(1, 1, 1, 1, 1)
LimitStore    == Disturb(2, 0, 0, 0, 1)
LimitNone     == Disturb(0, 0, 0, 0, 0)

Symmetric == Permutations(Resource)
=============================================================================
