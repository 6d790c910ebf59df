---------------------------- MODULE MeshAdapter ----------------------------
(***************************************************************************)
(* The part of loadOdrMap and get_geometry (main.js) that turns an engine  *)
(* mesh union into the per-vertex feature-id attribute the picking scenes  *)
(* render, and the engine's interval query it relies on.                   *)
(*                                                                         *)
(* A mesh union is abstracted to what the id attribute depends on: its     *)
(* vertex count and the keys of its start-index maps.  A key of            *)
(* lane_start_indices / roadmark_type_start_indices is the index of the    *)
(* first vertex of a feature, and that index is the feature id.            *)
(***************************************************************************)
EXTENDS Integers, SequencesExt, IdCodec

(***************************************************************************)
(* Engine (libOpenDRIVE) query, not part of this repository:               *)
(* get_idx_interval_lane / get_idx_interval_roadmark return the half-open  *)
(* interval [greatest start <= key, next start or vertex count).           *)
(***************************************************************************)
KeyInterval(starts, key, count) ==
    LET lo == Max({s \in starts : s <= key})
        above == {s \in starts : s > key}
        hi == IF above = {} THEN count ELSE Min(above)
    IN lo..(hi - 1)

\* getStdMapEntries iterates the keys of a std::map in ascending order.
MapKeys(starts) == SetToSortSeq(starts, <)

\* Fault variant: the attribute is set one vertex past the interval start.
WriteFeatureIdShifted(ids, key, intervalStarts, count) ==
    LET iv == KeyInterval(intervalStarts, key, count) IN
    [v \in DOMAIN ids |-> IF v - 1 \in iv THEN encodeUInt32(key) ELSE ids[v]]

\* One iteration of the id loop: attr_arr holds encodeUInt32(key) for each of
\* the vert_count vertices of the key's interval, and is set into the id
\* array at offset interval[0] * 4.
WriteFeatureId(ids, key, intervalStarts, count) ==
    LET iv == KeyInterval(intervalStarts, key, count) IN
    [v \in DOMAIN ids |-> IF v \in iv THEN encodeUInt32(key) ELSE ids[v]]

\* The id loop over all keys of a start-index map, in key order; the
\* interval of each key is looked up among intervalStarts.
WriteFeatureIds(ids, keys, intervalStarts, count) ==
    FoldLeft(LAMBDA acc, k : WriteFeatureId(acc, k, intervalStarts, count),
             ids, MapKeys(keys))

\* get_geometry: the 'id' attribute starts as a zero Float32Array of
\* 4 * vertex count entries.
ZeroIds(count) == [v \in 0..(count - 1) |-> ZeroRgba]

\* The lane geometry's id attribute (loadOdrMap, lanes loop).
LaneIds(mesh) ==
    WriteFeatureIds(ZeroIds(mesh.laneCount), mesh.lanes, mesh.lanes, mesh.laneCount)

\* The roadmark geometry's id attribute.  The roadmark loop writes every
\* roadmark id over its interval; the road-object loop that follows looks up
\* each road-object key with the roadmarks mesh's get_idx_interval_roadmark
\* and writes it into roadmarks_geom as well.
RoadmarkIds(mesh) ==
    LET afterRoadmarks ==
            WriteFeatureIds(ZeroIds(mesh.rmCount), mesh.roadmarks,
                            mesh.roadmarks, mesh.rmCount)
    IN WriteFeatureIds(afterRoadmarks, mesh.roadObjects, mesh.roadmarks, mesh.rmCount)

=============================================================================
