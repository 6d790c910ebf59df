------------------------------- MODULE Viewer -------------------------------
(***************************************************************************)
(* The whole viewer page (main.js): the tile loader, the file and reload   *)
(* paths, the full loadOdrMap with its clear_map teardown, and the         *)
(* animation loop picking against whatever scene those leave behind.       *)
(*                                                                         *)
(* The loader's and the picking engine's state and steps are those of      *)
(* TileLoader and Picking, instantiated on the same variables.  What this  *)
(* module adds is the state they share through globals:                   *)
(*   - the native objects the page holds: the OpenDriveMap, and the mesh   *)
(*     union kept in road_network_mesh.userData, each null, live or        *)
(*     deleted (a JS wrapper still refers to a deleted object);            *)
(*   - whether the lane/roadmark picking scenes hold a mesh;               *)
(*   - the emscripten file ./data.xodr;                                    *)
(*   - the native objects that become unreachable without delete();       *)
(*   - whether a step used a deleted native object (Embind throws).        *)
(* Every handler runs to completion or to the statement that throws; what  *)
(* it changed before the throw stays changed.  loadOdrMap ends by calling  *)
(* animate(), whose first tick runs inside the same handler: frameDue      *)
(* makes that tick the next step.                                          *)
(* The loader's lost and unusable responses are studied in TileLoader;     *)
(* here every response is delivered and usable.                            *)
(***************************************************************************)
EXTENDS Integers, Sequences, FiniteSets

CONSTANTS
    Blocks, blockids, RequestedBlock, Undefined, MaxLoadBuf, ResponsesCanFail,
    ByteBase, Channels, MeshUnions, NoFeature, NoHit,
    NoMesh,      \* road_network_mesh before the first load
    ReloadCtorOutcomes  \* what the five-argument OpenDriveMap constructor may do

ASSUME ReloadCtorOutcomes \subseteq {"throws", "returns"} /\ ReloadCtorOutcomes # {}

VARIABLES
    \* TileLoader
    moduleReady, caches, tilecache, infoInFlight, blockInFlight,
    blockidindex, generations, animLoops,
    \* Picking
    mesh, laneIdBuf, rmIdBuf, laneColor, rmColor, INTERSECTED_LANE_ID,
    INTERSECTED_ROADMARK_ID, mouse, spotlight_paused, spotlight,
    \* shared globals
    odrMap,       \* OpenDriveMap: "null", "live" or "deleted"
    meshHandle,   \* road_network_mesh.userData.odr_road_network_mesh: "none", "live", "deleted"
    pickBuilt,    \* the picking scenes hold a picking mesh
    xodrExists,   \* ./data.xodr exists in the emscripten file system
    leaked,       \* the kinds of native object dropped without delete()
    usedReleased, \* a step called into a deleted native object
    frameDue      \* animate() was called and its first tick has not run

L == INSTANCE TileLoader
P == INSTANCE Picking

loaderVars == <<moduleReady, caches, tilecache, infoInFlight, blockInFlight,
                blockidindex, generations, animLoops>>
pickVars == <<mesh, laneIdBuf, rmIdBuf, laneColor, rmColor, INTERSECTED_LANE_ID,
              INTERSECTED_ROADMARK_ID, mouse, spotlight_paused, spotlight>>
sharedVars == <<odrMap, meshHandle, pickBuilt, xodrExists, leaked, usedReleased, frameDue>>
vars == <<loaderVars, pickVars, sharedVars>>

\* Every mesh union of the instance has the same vertex counts, so the
\* cursor ranges over the same vertex slots whichever mesh is loaded.
LaneSlots == CHOOSE n \in {m.laneCount : m \in MeshUnions} : TRUE
RoadmarkSlots == CHOOSE n \in {m.rmCount : m \in MeshUnions} : TRUE
ASSUME \A m \in MeshUnions : m.laneCount = LaneSlots /\ m.rmCount = RoadmarkSlots
Cursors == [lane : (0..LaneSlots - 1) \cup {NoHit},
            roadmark : (0..RoadmarkSlots - 1) \cup {NoHit}]

Init ==
    /\ L!Init
    /\ mesh = NoMesh
    /\ laneIdBuf = <<>> /\ rmIdBuf = <<>> /\ laneColor = <<>> /\ rmColor = <<>>
    /\ INTERSECTED_LANE_ID = NoFeature /\ INTERSECTED_ROADMARK_ID = NoFeature
    /\ mouse \in Cursors
    /\ spotlight_paused = FALSE
    /\ spotlight \in BOOLEAN
    /\ odrMap = "null"
    /\ meshHandle = "none"
    /\ pickBuilt = FALSE
    /\ xodrExists \in BOOLEAN   \* whether the build's file system ships one
    /\ leaked = {}
    /\ usedReleased = FALSE
    /\ frameDue = FALSE

(***************************************************************************)
(* loadOdrMap(clear, ...) with OpenDriveMap in state `map` and the global  *)
(* tilecache holding the blocks `tiles`.  Sets blockidindex, generations,  *)
(* animLoops, the scene's picking variables, meshHandle, pickBuilt,        *)
(* leaked, usedReleased and frameDue; the caller sets the rest.            *)
(***************************************************************************)
LoadOdrMap(clear, map, tiles) ==
    LET cleared  == clear /\ meshHandle = "live"   \* lines 316-325 ran
        fromMap  == map = "live"                   \* get_road_network_mesh ran
        tileOk   == L!MeshId(blockidindex) \in tiles
        shown    == IF tilecache # 0 THEN tileOk ELSE fromMap
        \* native objects dropped without delete(): the reference line of
        \* get_refline_segments (331), and the OpenDriveMap's mesh union when
        \* the tile branch overwrites it (351)
        dropped  == (IF fromMap THEN {"refline"} ELSE {})
                    \cup (IF fromMap /\ tilecache # 0 THEN {"road_network_mesh"} ELSE {})
    IN
    \/ \* 317: road_network_mesh is null, or its mesh was already deleted
       /\ clear /\ meshHandle # "live"
       /\ usedReleased' = (usedReleased \/ meshHandle = "deleted")
       /\ UNCHANGED <<blockidindex, generations, animLoops, mesh, laneIdBuf,
                      rmIdBuf, laneColor, rmColor, INTERSECTED_LANE_ID,
                      INTERSECTED_ROADMARK_ID, meshHandle, pickBuilt, leaked, frameDue>>
    \/ \* the teardown (if any) ran; then 331 on a deleted OpenDriveMap,
       \* 351/353 on a block the cache lacks, or 364 with no mesh at all
       /\ ~clear \/ meshHandle = "live"
       /\ map = "deleted" \/ ~shown
       /\ meshHandle' = IF cleared THEN "deleted" ELSE meshHandle
       /\ pickBuilt' = (pickBuilt /\ ~cleared)
       /\ usedReleased' = (usedReleased \/ map = "deleted")
       /\ blockidindex' \in IF map # "deleted" /\ tilecache # 0
                            THEN {blockidindex, blockidindex + 1}
                            ELSE {blockidindex}
       /\ leaked' = leaked \cup (IF map = "deleted" THEN {} ELSE dropped)
       /\ UNCHANGED <<generations, animLoops, mesh, laneIdBuf, rmIdBuf, laneColor,
                      rmColor, INTERSECTED_LANE_ID, INTERSECTED_ROADMARK_ID, frameDue>>
    \/ \* a new geometry generation: geometries at their base colours, id
       \* attributes built, picking meshes added, the mesh union kept in
       \* userData; INTERSECTED_* are left as they were; animate()
       /\ ~clear \/ meshHandle = "live"
       /\ map # "deleted" /\ shown
       /\ \E m \in MeshUnions :
            /\ mesh' = m
            /\ laneIdBuf' = P!LaneIds(m)
            /\ rmIdBuf' = P!RoadmarkIds(m)
            /\ laneColor' = [v \in 0..(m.laneCount - 1) |-> "road"]
            /\ rmColor' = [v \in 0..(m.rmCount - 1) |-> "roadmark"]
       /\ meshHandle' = "live"
       /\ pickBuilt' = TRUE
       /\ blockidindex' = IF tilecache # 0 THEN blockidindex + 1 ELSE blockidindex
       /\ generations' = generations + 1
       /\ animLoops' = animLoops + 1
       /\ frameDue' = TRUE
       \* ... and the .refline (353) and .road_objects_mesh (434) copies, the
       \* std::map copies lane_start_type and its keys() (368-369) and the
       \* *_start_indices maps getStdMapEntries reads without delete_map
       \* (373, 411, 437), and the previous generation's mesh union when
       \* nothing cleared it
       /\ leaked' = leaked \cup dropped \cup {"road_objects_mesh", "std_map"}
                    \cup (IF tilecache # 0 THEN {"refline"} ELSE {})
                    \cup (IF meshHandle = "live" /\ ~cleared
                          THEN {"road_network_mesh"} ELSE {})
       /\ UNCHANGED <<INTERSECTED_LANE_ID, INTERSECTED_ROADMARK_ID, usedReleased>>
(***************************************************************************)
(* Handlers                                                                *)
(***************************************************************************)
\* Only the first tick of a fresh animate() chain may follow loadOdrMap.
Idle == ~frameDue

ModuleLoaded ==
    /\ Idle
    /\ L!ModuleLoaded
    /\ UNCHANGED <<pickVars, sharedVars>>

\* loadBuf: OpenDriveMap = null (never deleted), then a new tilecache
\* replaces the global one (the old one is never deleted).
LoadBuf ==
    /\ Idle
    /\ L!LoadBuf
    /\ odrMap' = "null"
    /\ leaked' = leaked \cup (IF tilecache # 0 THEN {"tilecache"} ELSE {})
                         \cup (IF odrMap = "live" THEN {"OpenDriveMap"} ELSE {})
    /\ UNCHANGED <<pickVars, meshHandle, pickBuilt, xodrExists, usedReleased, frameDue>>

InfoOnload ==
    /\ Idle
    /\ L!InfoOnload("ok")
    /\ UNCHANGED <<pickVars, sharedVars>>

\* Fault variant: the handler calls loadOdrMap() and gets the default
\* clear_map = true.
BlockOnloadDefaultClear ==
    /\ Idle
    /\ blockInFlight > 0
    /\ blockInFlight' = blockInFlight - 1
    /\ LET cache == [L!Current EXCEPT !.tiles = @ \cup {RequestedBlock}]
       IN /\ caches' = [caches EXCEPT ![tilecache] = cache]
          /\ LoadOdrMap(TRUE, odrMap, cache.tiles)
    /\ UNCHANGED <<moduleReady, tilecache, infoInFlight, mouse, spotlight_paused,
                   spotlight, odrMap, xodrExists>>

\* getBlockInfo's onload: add_tile on the current cache, loadOdrMap(null).
BlockOnload ==
    /\ Idle
    /\ blockInFlight > 0
    /\ blockInFlight' = blockInFlight - 1
    /\ LET cache == [L!Current EXCEPT !.tiles = @ \cup {RequestedBlock}]
       IN /\ caches' = [caches EXCEPT ![tilecache] = cache]
          /\ LoadOdrMap(FALSE, odrMap, cache.tiles)
    /\ UNCHANGED <<moduleReady, tilecache, infoInFlight, mouse, spotlight_paused,
                   spotlight, odrMap, xodrExists>>

\* onFileSelect's reader onload: loadFile(text, true).  FS_unlink throws
\* when ./data.xodr does not exist (no state change); FS_createDataFile
\* recreates it; a deleted OpenDriveMap throws at its second delete();
\* otherwise a new OpenDriveMap replaces the old one and loadOdrMap(true).
FileLoad ==
    /\ Idle
    /\ moduleReady
    /\ xodrExists
    /\ IF odrMap = "deleted"
       THEN /\ usedReleased' = TRUE
            /\ UNCHANGED <<loaderVars, pickVars, odrMap, meshHandle, pickBuilt,
                           xodrExists, leaked, frameDue>>
       ELSE /\ odrMap' = "live"
            /\ LoadOdrMap(TRUE, "live", IF tilecache # 0 THEN L!Current.tiles ELSE {})
            /\ UNCHANGED <<moduleReady, caches, tilecache, infoInFlight, blockInFlight,
                           mouse, spotlight_paused, spotlight, xodrExists>>

\* reloadOdrMap (the GUI's parameter callbacks): delete the OpenDriveMap,
\* construct a new one with five arguments -- whether the binding accepts
\* that call depends on the engine build (ReloadCtorOutcomes) --
\* and loadOdrMap(true, false).
ReloadOdrMap ==
    /\ Idle
    /\ moduleReady
    /\ \/ /\ odrMap = "deleted"
          /\ usedReleased' = TRUE
          /\ UNCHANGED <<loaderVars, pickVars, odrMap, meshHandle, pickBuilt,
                         xodrExists, leaked, frameDue>>
       \/ /\ "throws" \in ReloadCtorOutcomes
          /\ odrMap = "live"        \* the constructor throws after the delete
          /\ odrMap' = "deleted"
          /\ UNCHANGED <<loaderVars, pickVars, meshHandle, pickBuilt, xodrExists,
                         leaked, usedReleased, frameDue>>
       \/ /\ "returns" \in ReloadCtorOutcomes
          /\ odrMap # "deleted"
          /\ odrMap' = "live"
          /\ LoadOdrMap(TRUE, "live", IF tilecache # 0 THEN L!Current.tiles ELSE {})
          /\ UNCHANGED <<moduleReady, caches, tilecache, infoInFlight, blockInFlight,
                         mouse, spotlight_paused, spotlight, xodrExists>>

(***************************************************************************)
(* animate: the picking step against the current scene.  With no picking  *)
(* mesh in the picking scenes both pixels are the background.  Each call  *)
(* into road_network_mesh.userData.odr_road_network_mesh (559, 575, 587,  *)
(* 602, 612) throws if that mesh was deleted, and the rest of the tick,   *)
(* the render included, does not run.                                     *)
(***************************************************************************)
LanePixel == IF pickBuilt THEN P!PixelOf(laneIdBuf, mouse.lane) ELSE P!Background
RoadmarkPixel == IF pickBuilt THEN P!PixelOf(rmIdBuf, mouse.roadmark) ELSE P!Background
LaneQueriesMesh == P!isValid(LanePixel) \/ INTERSECTED_LANE_ID # NoFeature
RoadmarkQueriesMesh == P!isValid(RoadmarkPixel) \/ INTERSECTED_ROADMARK_ID # NoFeature

Tick ==
    /\ animLoops > 0
    /\ frameDue' = FALSE
    /\ IF ~P!Active
       THEN UNCHANGED <<INTERSECTED_LANE_ID, laneColor, INTERSECTED_ROADMARK_ID,
                       rmColor, usedReleased>>
       ELSE IF meshHandle # "live" /\ LaneQueriesMesh
       THEN /\ usedReleased' = TRUE
            /\ UNCHANGED <<INTERSECTED_LANE_ID, laneColor, INTERSECTED_ROADMARK_ID, rmColor>>
       ELSE LET lane == P!PickLane(LanePixel)
                rm   == P!PickRoadmark(RoadmarkPixel)
            IN /\ INTERSECTED_LANE_ID' = lane[1]
               /\ laneColor' = lane[2]
               /\ IF meshHandle # "live" /\ RoadmarkQueriesMesh
                  THEN /\ usedReleased' = TRUE
                       /\ UNCHANGED <<INTERSECTED_ROADMARK_ID, rmColor>>
                  ELSE /\ INTERSECTED_ROADMARK_ID' = rm[1]
                       /\ rmColor' = rm[2]
                       /\ UNCHANGED usedReleased
    /\ UNCHANGED <<loaderVars, mesh, laneIdBuf, rmIdBuf, mouse, spotlight_paused,
                   spotlight, odrMap, meshHandle, pickBuilt, xodrExists, leaked>>

\* The cursor or the camera moves.
MouseMove ==
    /\ Idle
    /\ mouse' \in Cursors
    /\ UNCHANGED <<loaderVars, mesh, laneIdBuf, rmIdBuf, laneColor, rmColor,
                   INTERSECTED_LANE_ID, INTERSECTED_ROADMARK_ID, spotlight_paused,
                   spotlight, sharedVars>>

\* onDocumentMouseDbClick: with a lane highlighted, its interval and first
\* and last vertex are read from the kept mesh union (the two .vertices
\* copies are never deleted) and the view is fitted to them.  The spotlight
\* flags are not consulted.
DbClick ==
    /\ Idle
    /\ INTERSECTED_LANE_ID # NoFeature
    /\ IF meshHandle = "live"
       THEN /\ leaked' = leaked \cup {"vertices"}
            /\ UNCHANGED usedReleased
       ELSE /\ usedReleased' = TRUE
            /\ UNCHANGED leaked
    /\ UNCHANGED <<loaderVars, pickVars, odrMap, meshHandle, pickBuilt, xodrExists,
                   frameDue>>

DragStart == Idle /\ P!DragStart /\ UNCHANGED <<loaderVars, sharedVars>>
DragEnd == Idle /\ P!DragEnd /\ UNCHANGED <<loaderVars, sharedVars>>
ToggleSpotlight == Idle /\ P!ToggleSpotlight /\ UNCHANGED <<loaderVars, sharedVars>>

Next ==
    \/ ModuleLoaded \/ LoadBuf \/ InfoOnload \/ BlockOnload
    \/ FileLoad \/ ReloadOdrMap
    \/ Tick \/ MouseMove \/ DbClick \/ DragStart \/ DragEnd \/ ToggleSpotlight

Spec == Init /\ [][Next]_vars

\* The page's own progress: the engine promise resolves, every posted
\* request is answered and its onload runs (the reliable service of this
\* module), and the animate() chain, which re-arms its timer before doing
\* anything else, keeps ticking.  User input carries no fairness.
Fairness ==
    /\ WF_vars(ModuleLoaded)
    /\ WF_vars(InfoOnload)
    /\ WF_vars(BlockOnload)
    /\ WF_vars(Tick)

FairSpec == Spec /\ Fairness

(***************************************************************************)
(* Properties                                                              *)
(***************************************************************************)
\* Composed with the file and reload paths, the page still runs a single
\* animate() chain: no interleaving of tile responses, file selections and
\* reloads makes loadOdrMap succeed twice.
AtMostOneAnimationLoop == animLoops <= 1

\* No handler or tick calls into a native object after delete() (spec 7:
\* native resource misuse is fatal): the clear_map teardown deletes the
\* mesh union that road_network_mesh keeps, and reloadOdrMap deletes the
\* OpenDriveMap before a constructor that may throw.
NoReleasedObjectUsed == ~usedReleased

\* Whatever the user does with files, reloads and the mouse meanwhile, a
\* loadBuf call eventually puts a road network on screen: a file load or
\* reload racing the tile requests routes loadOdrMap(null) through the
\* OpenDriveMap branch (331-347) but must not stop the tile from showing.
TileLoadEventuallyDisplays == (Len(caches) > 0) ~> (generations > 0)

\* Both picking pixels the tick reads are the background: the cursor is off
\* every feature, or the teardown emptied the picking scenes.
PixelsOffFeatures == ~P!isValid(LanePixel) /\ ~P!isValid(RoadmarkPixel)

\* Once the picking pixels show no feature while the spotlight is active,
\* the animation loop eventually clears both INTERSECTED_* (574-582 and
\* 600-608, spec 4.4), unless a feature comes back under the cursor or the
\* spotlight is switched off or paused first.
HighlightClearsOffFeatures ==
    (PixelsOffFeatures /\ P!Active)
        ~> (P!NothingIntersected \/ ~(PixelsOffFeatures /\ P!Active))

\* Every native object the page creates is deleted once it is no longer
\* referenced (spec 4.2: the mesh adapter releases what it copies).
NativeObjectsReleased == leaked = {}

====
