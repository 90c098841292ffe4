---------------------------- MODULE MCRomLocations ----------------------------
(* RomLocations on small instances: two roots, two systems. *)
EXTENDS RomLocations, TLC

CONSTANTS home, card, snes, psx

MCRoots == {home, card}
MCSystems == {snes, psx}
Layer(k, d) == [says |-> k, declares |-> d]
MCOverlays ==
  {Layer("merged", psx :> "literal"),
   Layer("exclusive", (snes :> "rompath") @@ (psx :> "pathless")),
   Layer("invalid", NoSystems),
   Layer("unread", NoSystems)}
Shipped == (snes :> "rompath") @@ (psx :> "rompath")
MCBundles == {Layer("merged", Shipped), Layer("nofile", NoSystems), Layer("nodeploy", NoSystems)}
OneRootAndTheRest == {home, "marker", "user", "system", "settings"}
=============================================================================
