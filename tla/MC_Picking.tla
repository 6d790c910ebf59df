----------------------------- MODULE MC_Picking -----------------------------
(***************************************************************************)
(* Instantiates the picking engine for TLC.  A lanes geometry of three      *)
(* vertices and a roadmarks geometry of three: every way of splitting them *)
(* into features (each split contains vertex 0, as the mesh builder starts *)
(* the first feature there), every lane grouping of the roadmarks mesh     *)
(* that is coarser than its roadmark split, and road-object keys chosen    *)
(* from RoadObjectKeys.                                                    *)
(***************************************************************************)
EXTENDS Picking

LaneVertexCount == 3
RoadmarkVertexCount == 3

\* Start-index key sets of a geometry of n vertices.
StartSets(n) == { S \cup {0} : S \in SUBSET (1..(n - 1)) }

MCMeshUnions(roadObjectKeys) ==
    UNION { { [laneCount |-> LaneVertexCount, lanes |-> L,
               rmCount |-> RoadmarkVertexCount, roadmarks |-> R, rmLanes |-> RL,
               roadObjects |-> O] :
                L \in StartSets(LaneVertexCount),
                RL \in { G \in SUBSET R : 0 \in G },
                O \in roadObjectKeys } :
            R \in StartSets(RoadmarkVertexCount) }

\* Road-object keys inside and beyond the roadmarks' vertex range.
MeshUnionsWithObjects == MCMeshUnions(SUBSET {1, 4})

\* One road object inside and one beyond the roadmarks' range, with the
\* roadmarks mesh grouped into a single lane (the other groupings are
\* explored with MeshUnionsWithObjects).
MeshUnionsSomeObjects == { u \in MCMeshUnions({{1, 4}}) : u.rmLanes = {0} }

=============================================================================
