----------------------------- MODULE MCTopology -----------------------------
(* Two racks, NICs and GPUs and a switch joined in every order; generators   *)
(* for up to four GPUs, four NICs, two leaves and two spines, with           *)
(* configurations that are refused.                                          *)
EXTENDS Topology

MCRolePairs == {<<"FabricUplink", "FabricDownlink">>, <<"Local", "FabricUplink">>}
MCSingleRackConfigs == [gpuCount : 0..4, gpusPerNic : 0..2]
MCLeafSpineConfigs ==
  {c \in [leafCount : 0..2, nicsPerLeaf : 0..2, gpusPerNic : 0..2, spineCount : 0..2] :
     c.leafCount * c.nicsPerLeaf * c.gpusPerNic <= 4}
MCClosConfigs ==
  [gpuCount : {0, 3, 4}, gpusPerNic : 0..2, nicsPerLeaf : 0..2, spineCount : 0..2]
=============================================================================
