------------------------------ MODULE MC_Viewer ------------------------------
(***************************************************************************)
(* Instantiates the viewer page for TLC: the tile service of MC_TileLoader *)
(* (block 113 only) and mesh unions of two lane and two roadmark vertices, *)
(* split into features in every way the mesh builder can; the roadmarks    *)
(* mesh has one lane group (the lane groupings are explored in MC_Picking). *)
(***************************************************************************)
EXTENDS Viewer

MCBlocks == {113}
MCBlockids == <<113>>

LaneVertexCount == 2
RoadmarkVertexCount == 2

\* Start-index key sets of a geometry of n vertices.
StartSets(n) == { S \cup {0} : S \in SUBSET (1..(n - 1)) }

MCMeshUnions ==
    { [laneCount |-> LaneVertexCount, lanes |-> LS,
       rmCount |-> RoadmarkVertexCount, roadmarks |-> R, rmLanes |-> {0},
       roadObjects |-> {}] :
        LS \in StartSets(LaneVertexCount), R \in StartSets(RoadmarkVertexCount) }

\* One mesh union of two lanes and two roadmarks: the liveness runs do not
\* depend on the split into features.
MCOneMeshUnion ==
    {[laneCount |-> LaneVertexCount, lanes |-> {0, 1},
      rmCount |-> RoadmarkVertexCount, roadmarks |-> {0, 1}, rmLanes |-> {0},
      roadObjects |-> {}]}

=============================================================================
