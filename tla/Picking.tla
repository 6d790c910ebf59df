------------------------------ MODULE Picking ------------------------------
(***************************************************************************)
(* The picking engine of the viewer (main.js: animate, the mouse and       *)
(* camera-control listeners) running against one loaded road network mesh. *)
(*                                                                         *)
(* Every animation tick, when PARAMS.spotlight is on and no camera drag is *)
(* in progress, the lane and roadmark picking scenes are rendered into 1x1 *)
(* float targets at the cursor; each pixel is either the picking scene's   *)
(* white background or the id attribute of the vertex drawn under the     *)
(* cursor.  The decoded id drives INTERSECTED_LANE_ID /                    *)
(* INTERSECTED_ROADMARK_ID and the highlight colour of the vertex ranges   *)
(* of the main-scene geometries.                                           *)
(*                                                                         *)
(* The cursor is abstracted to the vertex each picking scene draws under   *)
(* it (or none): camera motion and mouse motion both change that, and both *)
(* are covered by MouseMove choosing any pair.  Colours are the COLORS     *)
(* entries written into the colour attribute; the xyz/st targets and the   *)
(* spotlight_info panel only feed display and are left out.                *)
(***************************************************************************)
EXTENDS MeshAdapter

CONSTANTS
    MeshUnions,   \* the mesh unions the engine may hand to loadOdrMap
    NoFeature,    \* 0xffffffff: "nothing intersected"
    NoHit         \* the cursor is over the background of a picking scene

ASSUME NoFeature \notin Nat /\ NoHit \notin Nat

VARIABLES
    mesh,                    \* road_network_mesh.userData.odr_road_network_mesh
    laneIdBuf,               \* road_network_geom.attributes.id
    rmIdBuf,                 \* roadmarks_geom.attributes.id
    laneColor,               \* road_network_geom.attributes.color
    rmColor,                 \* roadmarks_geom.attributes.color
    INTERSECTED_LANE_ID,
    INTERSECTED_ROADMARK_ID,
    mouse,                   \* what each picking scene draws under the cursor
    spotlight_paused,
    spotlight                \* PARAMS.spotlight

vars == <<mesh, laneIdBuf, rmIdBuf, laneColor, rmColor, INTERSECTED_LANE_ID,
          INTERSECTED_ROADMARK_ID, mouse, spotlight_paused, spotlight>>

LaneVerts == 0..(mesh.laneCount - 1)
RoadmarkVerts == 0..(mesh.rmCount - 1)

\* odr_lanes_mesh.get_idx_interval_lane on the lanes mesh.
LaneInterval(id) == KeyInterval(mesh.lanes, id, mesh.laneCount)
\* odr_roadmarks_mesh.get_idx_interval_roadmark.
RoadmarkInterval(id) == KeyInterval(mesh.roadmarks, id, mesh.rmCount)
\* odr_roadmarks_mesh.get_idx_interval_lane: the lane grouping of the
\* roadmarks mesh's own vertices (its lane_start_indices).
RoadmarkLaneInterval(id) == KeyInterval(mesh.rmLanes, id, mesh.rmCount)

\* Fault variant: the fill stops one vertex short of the interval's end.
FillShort(colors, iv, c) ==
    [v \in DOMAIN colors |-> IF v \in iv /\ v + 1 \in iv THEN c ELSE colors[v]]

\* array.fill(c, start * 3, end * 3) and applyVertexColors over an interval.
Fill(colors, iv, c) == [v \in DOMAIN colors |-> IF v \in iv THEN c ELSE colors[v]]

\* The pixel read back from a 1x1 picking target.
PixelOf(idBuf, under) == IF under = NoHit THEN Background ELSE idBuf[under]

Active == spotlight /\ ~spotlight_paused

(***************************************************************************)
(* One category's picking step, as <<new intersected id, new colours>>.    *)
(***************************************************************************)
\* Fault variants of the picking steps: the previous lane is not restored
\* when a new one is picked; the roadmark is painted with the lane highlight colour.
PickLaneNoRestore(pix) ==
    IF isValid(pix)
    THEN LET d == decodeUInt32(pix) IN
         IF INTERSECTED_LANE_ID = d
         THEN <<INTERSECTED_LANE_ID, laneColor>>
         ELSE <<d, Fill(laneColor, LaneInterval(d), "lane_highlight")>>
    ELSE <<NoFeature,
           IF INTERSECTED_LANE_ID # NoFeature
           THEN Fill(laneColor, LaneInterval(INTERSECTED_LANE_ID), "road")
           ELSE laneColor>>

PickRoadmarkLaneColour(pix) ==
    IF isValid(pix)
    THEN LET d == decodeUInt32(pix)
             restored == IF INTERSECTED_ROADMARK_ID # NoFeature
                         THEN Fill(rmColor, RoadmarkInterval(INTERSECTED_ROADMARK_ID), "roadmark")
                         ELSE rmColor
         IN IF INTERSECTED_ROADMARK_ID = d
            THEN <<INTERSECTED_ROADMARK_ID, rmColor>>
            ELSE <<d, Fill(restored, RoadmarkInterval(d), "lane_highlight")>>
    ELSE <<NoFeature,
           IF INTERSECTED_ROADMARK_ID # NoFeature
           THEN Fill(rmColor, RoadmarkLaneInterval(INTERSECTED_ROADMARK_ID), "roadmark")
           ELSE rmColor>>

\* animate, lane pixel: decode; on a new id restore the previous lane's range
\* to COLORS.road and paint the new lane's range; on the background restore
\* the previous lane and forget it.
PickLane(pix) ==
    IF isValid(pix)
    THEN LET d == decodeUInt32(pix)
             restored == IF INTERSECTED_LANE_ID # NoFeature
                         THEN Fill(laneColor, LaneInterval(INTERSECTED_LANE_ID), "road")
                         ELSE laneColor
         IN IF INTERSECTED_LANE_ID = d
            THEN <<INTERSECTED_LANE_ID, laneColor>>
            ELSE <<d, Fill(restored, LaneInterval(d), "lane_highlight")>>
    ELSE <<NoFeature,
           IF INTERSECTED_LANE_ID # NoFeature
           THEN Fill(laneColor, LaneInterval(INTERSECTED_LANE_ID), "road")
           ELSE laneColor>>

\* animate, roadmark pixel: as for lanes, except that on the background the
\* previous roadmark's range is looked up with get_idx_interval_lane.
PickRoadmark(pix) ==
    IF isValid(pix)
    THEN LET d == decodeUInt32(pix)
             restored == IF INTERSECTED_ROADMARK_ID # NoFeature
                         THEN Fill(rmColor, RoadmarkInterval(INTERSECTED_ROADMARK_ID), "roadmark")
                         ELSE rmColor
         IN IF INTERSECTED_ROADMARK_ID = d
            THEN <<INTERSECTED_ROADMARK_ID, rmColor>>
            ELSE <<d, Fill(restored, RoadmarkInterval(d), "roadmark_highlight")>>
    ELSE <<NoFeature,
           IF INTERSECTED_ROADMARK_ID # NoFeature
           THEN Fill(rmColor, RoadmarkLaneInterval(INTERSECTED_ROADMARK_ID), "roadmark")
           ELSE rmColor>>

(***************************************************************************)
(* State and actions                                                       *)
(***************************************************************************)
\* The state loadOdrMap leaves: fresh geometries with every colour at its
\* COLORS base, the id attributes built from the mesh union, nothing
\* intersected yet, spotlight as configured and no drag in progress.
Init ==
    /\ mesh \in MeshUnions
    /\ laneIdBuf = LaneIds(mesh)
    /\ rmIdBuf = RoadmarkIds(mesh)
    /\ laneColor = [v \in LaneVerts |-> "road"]
    /\ rmColor = [v \in RoadmarkVerts |-> "roadmark"]
    /\ INTERSECTED_LANE_ID = NoFeature
    /\ INTERSECTED_ROADMARK_ID = NoFeature
    /\ mouse \in [lane : LaneVerts \cup {NoHit}, roadmark : RoadmarkVerts \cup {NoHit}]
    /\ spotlight_paused = FALSE
    /\ spotlight \in BOOLEAN

\* One animation tick with picking enabled: both picking targets are read at
\* the cursor, then the lane step and the roadmark step run in that order.
\* (A tick with picking disabled only updates the camera and renders.)
Tick ==
    /\ Active
    /\ LET lane == PickLane(PixelOf(laneIdBuf, mouse.lane))
           rm   == PickRoadmark(PixelOf(rmIdBuf, mouse.roadmark))
       IN /\ INTERSECTED_LANE_ID' = lane[1]
          /\ laneColor' = lane[2]
          /\ INTERSECTED_ROADMARK_ID' = rm[1]
          /\ rmColor' = rm[2]
    /\ UNCHANGED <<mesh, laneIdBuf, rmIdBuf, mouse, spotlight_paused, spotlight>>

\* onDocumentMouseMove, or the camera moving under a still cursor.
MouseMove ==
    /\ mouse' \in [lane : LaneVerts \cup {NoHit}, roadmark : RoadmarkVerts \cup {NoHit}]
    /\ UNCHANGED <<mesh, laneIdBuf, rmIdBuf, laneColor, rmColor,
                   INTERSECTED_LANE_ID, INTERSECTED_ROADMARK_ID, spotlight_paused, spotlight>>

\* controls 'start': a drag pauses picking (and stops auto-rotation).
DragStart ==
    /\ ~spotlight_paused       \* MapControls pairs every 'start' with an 'end'
    /\ spotlight_paused' = TRUE
    /\ UNCHANGED <<mesh, laneIdBuf, rmIdBuf, laneColor, rmColor,
                   INTERSECTED_LANE_ID, INTERSECTED_ROADMARK_ID, mouse, spotlight>>

\* controls 'end'.
DragEnd ==
    /\ spotlight_paused
    /\ spotlight_paused' = FALSE
    /\ UNCHANGED <<mesh, laneIdBuf, rmIdBuf, laneColor, rmColor,
                   INTERSECTED_LANE_ID, INTERSECTED_ROADMARK_ID, mouse, spotlight>>

\* The GUI toggles PARAMS.spotlight.
ToggleSpotlight ==
    /\ spotlight' = ~spotlight
    /\ UNCHANGED <<mesh, laneIdBuf, rmIdBuf, laneColor, rmColor,
                   INTERSECTED_LANE_ID, INTERSECTED_ROADMARK_ID, mouse, spotlight_paused>>

Next == Tick \/ MouseMove \/ DragStart \/ DragEnd \/ ToggleSpotlight

\* The animation chain re-arms its timer at the top of every tick, so a tick
\* that would change the picking state cannot be postponed forever.
Spec == Init /\ [][Next]_vars /\ WF_vars(Tick)

(***************************************************************************)
(* Properties                                                              *)
(***************************************************************************)

TypeOK ==
    /\ mesh \in MeshUnions
    /\ laneColor \in [LaneVerts -> {"road", "lane_highlight"}]
    /\ rmColor \in [RoadmarkVerts -> {"roadmark", "roadmark_highlight"}]
    /\ INTERSECTED_LANE_ID \in Nat \cup {NoFeature}
    /\ INTERSECTED_ROADMARK_ID \in Nat \cup {NoFeature}
    /\ mouse \in [lane : LaneVerts \cup {NoHit}, roadmark : RoadmarkVerts \cup {NoHit}]
    /\ spotlight_paused \in BOOLEAN
    /\ spotlight \in BOOLEAN

\* The vertices a highlight state should show in its highlight colour.
HighlightedRange(id, Interval(_)) == IF id = NoFeature THEN {} ELSE Interval(id)

\* After any sequence of ticks, mouse moves, drags and toggles, the colour
\* attributes show exactly the intersected lane and roadmark: every vertex
\* of the intersected feature's range carries the highlight colour and no
\* other vertex does (the restore-then-paint logic of animate, including the
\* background branch that looks the roadmark up with get_idx_interval_lane).
HighlightMatchesIntersected ==
    /\ \A v \in LaneVerts :
         laneColor[v] = "lane_highlight"
           <=> v \in HighlightedRange(INTERSECTED_LANE_ID, LaneInterval)
    /\ \A v \in RoadmarkVerts :
         rmColor[v] = "roadmark_highlight"
           <=> v \in HighlightedRange(INTERSECTED_ROADMARK_ID, RoadmarkInterval)

\* End-to-end picking: after a picking tick the intersected feature of each
\* category is the one drawn under the cursor -- the id attribute built by
\* loadOdrMap, encoded, read back, decoded and looked up with the engine's
\* interval query names a range that contains the vertex under the cursor,
\* and the background yields "nothing intersected".
PickSelectsFeatureUnderCursor ==
    [][Tick =>
         /\ (mouse.lane = NoHit) <=> (INTERSECTED_LANE_ID' = NoFeature)
         /\ mouse.lane # NoHit => mouse.lane \in LaneInterval(INTERSECTED_LANE_ID')
         /\ (mouse.roadmark = NoHit) <=> (INTERSECTED_ROADMARK_ID' = NoFeature)
         /\ mouse.roadmark # NoHit =>
              mouse.roadmark \in RoadmarkInterval(INTERSECTED_ROADMARK_ID')
      ]_vars

NothingIntersected ==
    INTERSECTED_LANE_ID = NoFeature /\ INTERSECTED_ROADMARK_ID = NoFeature

\* The roadmark id attribute holds, at every vertex, the id (start index) of
\* the roadmark whose range contains it, as spec section 8 states for every
\* category of the mesh adapter.
RoadmarkIdsExact ==
    \A v \in RoadmarkVerts :
        decodeUInt32(rmIdBuf[v]) = Max({s \in mesh.roadmarks : s <= v})
(***************************************************************************)
(* Refinement: the engine implements the abstract spotlight.  The lit      *)
(* feature of a category is read off the colour attribute alone: the first *)
(* vertex painted in the highlight colour, if any.                         *)
(***************************************************************************)
LitStart(colors, highlight) ==
    LET painted == {v \in DOMAIN colors : colors[v] = highlight}
    IN IF painted = {} THEN NoFeature ELSE Min(painted)

Abs == INSTANCE AbstractHighlight
         WITH Partitions <- MeshUnions,
              part <- mesh,
              cursor <- mouse,
              active <- Active,
              lit <- [lane |-> LitStart(laneColor, "lane_highlight"),
                      roadmark |-> LitStart(rmColor, "roadmark_highlight")]

\* Whatever the ids, encodings and interval queries do in between, what the
\* user sees behaves as the spotlight of spec 4.4: each picking tick lights,
\* per category, exactly the feature under the cursor (no other step changes
\* what is lit), and while picking stays active the lit features catch up
\* with the cursor.
PickingImplementsHighlight == Abs!Spec

=============================================================================
