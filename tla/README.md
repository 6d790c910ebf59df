# TLA+ models of the V2I OpenDRIVE tile viewer

The modelled program is `src/mec/tools/osm-parser1/odrviewer/Viewer/main.js`. It is
a single-threaded browser script of 753 lines. It loads one map block from an HTTP
tile service into a native (WASM) tile cache and turns the engine's mesh union
into three.js geometries. Every animation frame it picks the lane and roadmark
under the cursor by rendering id-encoded "shadow" scenes into 1x1 float targets.
Line numbers below refer to that file.

## 1. Inventory

### Components, their state and operations

| Component | State (globals) | Operations (handlers) |
|---|---|---|
| Feature-id codec | none | `encodeUInt32`, `decodeUInt32`, `isValid` (707-725) |
| Mesh Adapter | the `id` and `color` attributes of `road_network_geom` and `roadmarks_geom` | `get_geometry` (632-642); the three id loops of `loadOdrMap` (364-446); `getStdMapEntries` and its helpers (677-705) |
| Picking Engine | `INTERSECTED_LANE_ID`, `INTERSECTED_ROADMARK_ID`, `spotlight_paused`, `mouse`, the colour attributes | `animate` picking step (530-627); mouse listener (734-740); controls `start`/`end` (53-54); `PARAMS.spotlight` (GUI, not in `src/`) |
| Tile Cache Client | `ModuleOpenDrive`, `tilecache`, `blockids`, `blockidindex`, in-flight XHRs | promise `libOpenDrive().then` (122); `loadBuf`/`loadFile` tile branch (141-187); `bindmap` + onload (201-236); `getBlockInfo` + onload (238-280) |
| Scene Builder | `scene` and the three picking scenes, `disposable_objs`, `road_network_mesh`, `roadmarks_mesh`, ... | `loadOdrMap` (313-520), with the `clear_map` teardown (316-325); `loadFile` file branch; `reloadOdrMap` (304-311) |
| Animation Loop | the timer chains started by `animate()` | `animate` re-arms `setTimeout`->`requestAnimationFrame` at its top (524-526) |
| Block dependency list | `blockids` | `getDepBlockList` (282-303) and `modifyBlockids` (189-199); the calls in `loadBuf` are commented out (183-185) |
| UI glue | camera, light, notifications | resize, double-click fit (742-753), `fitViewToBbox` |

### How they interact

`loadBuf` creates a tilecache and posts `/info/get`. That onload binds the map
and posts `/render/block/info/get`. The block onload calls `add_tile`, then
`loadOdrMap(null)`. `loadOdrMap` calls `get_mesh` and the Mesh Adapter. It adds
the meshes to the main scene and the picking scenes, then calls `animate()`.
From then on a timer chain runs the Picking Engine every ~33 ms.

The XHR onload handlers read the global `tilecache` when they run, not when
their request was sent. The picking step reads `road_network_mesh.userData`,
which `loadOdrMap` replaces. Nothing runs in parallel. Every handler runs to
completion, so the interleaving is at handler granularity: XHR callbacks, timer
ticks and input events.

### What is hard

- **Interleaving of callbacks.** Two `loadBuf` calls may overlap, so the
  responses of the first are applied to the second's tilecache.
- **Partial failure and unreliable delivery.** `onload` also fires for
  HTTP errors. There is no `onerror` handler, no timeout and no retry.
- **Protocol sequence.** `blockidindex` only ever grows.
- **Resource bounds.** Every successful load starts another `animate` chain.
  Native handles (old tilecaches, `odr_road_objects_mesh`) are never deleted.
- **Use after delete.** The `clear_map` teardown deletes a native object that
  globals still refer to when the rest of the load throws.
- **Stale state.** The `INTERSECTED_*` ids outlive a reload.
- **Restore-then-paint logic.** The logic over two categories must leave exactly
  one highlighted range per category. One branch uses a different interval query
  (line 603).
- **Numeric encoding.** A 32-bit id is sent through four float channels.

### What makes each component correct

- **Codec:** decode is the inverse of encode for every real id, and the
  background pixel is never a real id.
- **Mesh Adapter:** each vertex carries the id of its own feature, and picking
  that id selects a range containing the vertex.
- **Picking:**
  - The colours show exactly the intersected feature of each category.
  - A tick intersects the feature under the cursor.
  - A highlight is cleared once the cursor leaves.
- **Tile client:**
  - Tiles go only into a bound cache.
  - A delivered block is displayed.
  - There is only one animation chain.
  - A load eventually displays when the service answers.

The full hazard list, each at its line, is in `PROJECT.json` under "hazards".

## 2. Plan

Modules are listed in the order they are built. The most important behaviour
comes first.

1. `IdCodec`: the codec as operators. `MC_Pure` checks it against the spec's
   reference formula. *(done)*
2. `MeshAdapter` (`EXTENDS IdCodec`): the id attribute built from a mesh union,
   and the engine's interval query. *(done)*
3. `Picking` (`EXTENDS MeshAdapter`): the per-frame picking state machine over
   one loaded mesh. *(done)*
4. `TileLoader`: the XHR chain, tilecache replacement, `blockidindex`,
   generations and animation chains. *(done)*
5. `Viewer`: composes `TileLoader` and `Picking` on shared variables, and adds
   the whole of `loadOdrMap` with the `clear_map=true` paths (`onFileSelect` ->
   `loadFile`, `reloadOdrMap`) and the lifetimes of the native objects. *(done)*
6. `AbstractHighlight`: the spotlight of spec §4.4 without ids or buffers.
   `Picking` implements it through `INSTANCE ... WITH` a mapping read off the
   colour attributes. *(done)*
7. `BlockDeps`: `getDepBlockList` and `modifyBlockids` as operators.
   `MC_Pure` checks them against a reference definition. *(done)*

## 3. Modules and their correspondence to the code

### `IdCodec`

The channel value `k/255` is kept as the exact rational `[num |-> k, den |-> 255]`.
`RoundTimes` is `Math.round(c * m)`. Float32 represents `k/255*255` within 0.5 of
`k`, so the rational model gives the same rounding as the code.

- `encodeUInt32`: the trunc/`% 256` byte split.
- `decodeUInt32`: the weighted sum of rounded channels.
- `isValid`: the all-ones test.
- `Background`: the white clear colour of the picking scenes.

### `BlockDeps`

- `DepReplies`: a `/blkdeps/get` reply. It records whether the request
  succeeded (only then is `success` called), the `code` and the
  `dependBlocks` list.
- `GetDepBlockList(result)`: the list of a reply with code 0, and `[]`
  otherwise. `getDepBlockList` always returns an array, so
  `modifyBlockids`'s `if (dependBlocks)` always holds.
- `ModifyBlockids(bids, deps)`: a `FoldLeft` that pushes each dependency
  whose `indexOf` in the growing array is -1.
- `BlockidArrays`: the arrays `blockids` can hold. They start with the
  source's `[113]` and have no repeats.

In `MC_Pure`, each state is one test input, and each step takes another.
An input is an id for the codec, or a `blockids` array and a reply. It
compares `ModifyBlockids` with `FirstNew`: the old array followed by the
first occurrence, in reply order, of each new dependency. Spec §6 says the
endpoint resolves a block's dependency closure. The code never calls it, so
only one level of dependencies would be appended, and nothing requests them.

### `MeshAdapter`

A mesh union is reduced to vertex counts and the key sets of its start-index
maps. Keys are first-vertex indices, and the code uses the key as the feature id.

- `KeyInterval` is the engine's `get_idx_interval_*`. The engine is not part of
  this repository, so this definition is modelled from the spec.
- `WriteFeatureId`/`WriteFeatureIds` are the id loops, in `getStdMapEntries` key
  order.
- `RoadmarkIds` includes the road-object loop. That loop writes into
  `roadmarks_geom` (lines 437-444).

### `Picking`

State:
- `mesh`, `laneIdBuf` and `rmIdBuf`: what the load left behind.
- `laneColor` and `rmColor`: the colour attributes.
- The two `INTERSECTED_*` ids.
- `mouse`: the vertex each picking scene draws under the cursor, or `NoHit`.
  Camera motion and mouse motion are both covered by `MouseMove`.
- `spotlight_paused` and `spotlight`.

Actions:
- `Tick` is the whole picking step of `animate`: read both pixels, then the lane
  step (`PickLane`, 557-583), then the roadmark step (`PickRoadmark`, 585-609).
  When picking is disabled, a tick changes nothing modelled.
- `MouseMove`.
- `DragStart`/`DragEnd`. MapControls pairs these events.
- `ToggleSpotlight`.

`0xffffffff` is the model value `NoFeature`. TLC integers are 32-bit signed, and
decoded ids (vertex indices) never reach the sentinel, because `isValid` filters
the background first.

### `TileLoader`

- `caches` holds every tilecache object as `[bound, tiles]`. `tilecache` is the
  index of the global one.
- In-flight requests are counts, because the handlers read nothing from the
  request.
- `InfoOnload(outcome)` and `BlockOnload(outcome)` are the onload handlers, with
  an `ok` or unusable body. `InfoLost` and `BlockLost` model network errors.
- `LoadOdrMap` is the tile branch of `loadOdrMap`:
  - If the block is present, `get_mesh` succeeds, `blockidindex` advances, and a
    new generation and animation chain are counted.
  - Otherwise the handler throws, either before or after `blockidindex++`. Both
    outcomes are allowed, because `get_mesh` may throw or return `undefined`.

### `Viewer`

`Viewer` declares the variables of `TileLoader` and `Picking` under the same
names and instantiates both (`L`, `P`), so their operators (`L!MeshId`,
`P!PickLane`, `P!DragStart`, ...) act on the composed state. It adds the
globals the two share:

- `odrMap`: the `OpenDriveMap` global, `"null"`, `"live"` or `"deleted"` (a
  wrapper whose native object was deleted).
- `meshHandle`: `road_network_mesh.userData.odr_road_network_mesh`, `"none"`
  while `road_network_mesh` is null.
- `pickBuilt`: the picking scenes hold a picking mesh. The teardown empties
  them, and then both pixels are the background.
- `xodrExists`: `./data.xodr` in the emscripten file system. Whether the build
  ships one is unknown, so `Init` allows both. `FS_unlink` throws without it.
- `leaked`: the kinds of native object dropped without `delete()`.
- `usedReleased`: some step called into a deleted native object. Embind
  throws there, and the rest of the handler does not run.
- `frameDue`: `loadOdrMap` ends with `animate()`, whose first tick runs in the
  same handler. While it is set, only `Tick` may run.

`LoadOdrMap(clear, map, tiles)` is the whole function. It has three outcomes:

- It throws at line 317. Either `road_network_mesh` is null, or its mesh union
  was already deleted.
- The teardown runs if `clear` is set, and then the function throws. The
  throw comes at 331 (deleted `OpenDriveMap`), 351/353 (block missing from the
  cache) or 364 (no mesh at all).
- A new generation is built. The `INTERSECTED_*` ids are kept.

`FileLoad` is the reader's onload, `loadFile(text, true)`. `ReloadOdrMap`
deletes the map, and its five-argument constructor either returns or throws
(`ReloadCtorOutcomes`): the binding is not in this repository. `BlockOnload`
calls `LoadOdrMap(FALSE, ...)`. `Tick` is `Picking`'s step against the
current scene. Each call into the kept mesh union (559, 575, 587, 602) throws
if it was deleted.

`DbClick` is the double-click handler (741-753). It runs when
`INTERSECTED_LANE_ID` is set, whether or not the spotlight is on. It calls
`get_idx_interval_lane` and `get_lane_outline` on the kept mesh union. If that
union was deleted, it sets `usedReleased`. If it is live, it adds `vertices`
to `leaked`: the two `.vertices` copies are never deleted. The camera fit is
left out.

`FairSpec` adds `Fairness`, which is weak fairness of `ModuleLoaded`,
`InfoOnload`, `BlockOnload` and `Tick` (see Fairness below). File
selections, reloads and mouse input stay unfair.

Lost and unusable responses are left to `TileLoader`; here every response
arrives.

### `AbstractHighlight` and the refinement

`AbstractHighlight` has four variables:

- `part`: the split into features.
- `cursor`: the vertex under the cursor per category.
- `active`.
- `lit`: the first vertex of the lit feature per category.

`Refresh` lights `FeatureAt(starts, cursor)`, and `WF(Refresh)` holds. In
`Picking`, `Abs == INSTANCE AbstractHighlight WITH ...` maps:

- `part` to `mesh`;
- `cursor` to `mouse`;
- `active` to `Active`;
- `lit` to `LitStart(colours)`, the first vertex painted in the highlight
  colour.

The mapping reads only what the user sees. Ids, codec, buffers and interval
queries are hidden.

## 4. Runs

| Run | Cfg | Expect | What it shows |
|---|---|---|---|
| pure_operators | MC_Pure.cfg | pass | 375 ids covering byte boundaries, with top byte 0, 1 and 127, round-trip exactly and agree with the spec's formula. For every reply, `modifyBlockids(getDepBlockList(reply))` appends each new dependency once, in reply order, whether the reply is an error, has a non-zero code, repeats a block, or names one already held. |
| picking_safety | MC_Picking.cfg | pass | Over every mesh union of a 3-vertex lanes geometry and 3-vertex roadmarks geometry (every feature split, every coarser lane grouping of the roadmarks, road-object keys ⊆ {1,4}), the colours always equal the intersected ranges. Every tick intersects the feature under the cursor. |
| adapter_roadmark_ids | MC_Picking_rmids.cfg | violation | The road-object loop puts road-object ids on roadmark vertices. |
| loader_safety | MC_TileLoader.cfg | pass | With unusable and lost responses and up to 3 `loadBuf` calls, at most one `animate` chain is ever started. |
| loader_bind_order | MC_TileLoader_bind.cfg | violation | A second `loadBuf` between the first call's two responses sends `add_tile`/`get_mesh` to an unbound tilecache. |
| picking_refinement | MC_Picking_refine.cfg | pass | `Picking` implements `AbstractHighlight` (safety and `WF(Refresh)`) over mesh unions with road-object keys {1,4} and a one-lane roadmark grouping. The road-object id bug does not show to the user. |
| viewer_safety | MC_Viewer.cfg | pass | Tile loads, file selections, reloads (either constructor outcome), double-clicks and picking are interleaved. No path makes `loadOdrMap` succeed twice, so only one `animate` chain runs. |
| viewer_released | MC_Viewer_released.cfg | violation | A reload after the tile load tears down the scene, then throws. The next clear-map load, or a tick with a highlight, calls into the deleted mesh union. |
| viewer_leaks | MC_Viewer_leaks.cfg | violation | A second `loadBuf` drops the first tilecache without `delete()`. |
| viewer_liveness | MC_Viewer_live.cfg | pass | Every request is answered and the reload constructor returns. Under `FairSpec`, a `loadBuf` eventually displays a road network, whatever file loads, reloads and mouse input race it. This is the loader's liveness, checked in the composition. |
| viewer_highlight_stuck | MC_Viewer_stuck.cfg | violation | A tile load highlights a lane. A reload's teardown then deletes the mesh union and empties the picking scenes before it throws at 351. From then on, every tick throws at 575 before it clears the id, so the highlight never clears. |
| viewer_reload_stall | MC_Viewer_stall.cfg | violation | The reload constructor throws. A file load and a reload between `loadBuf` and the block response leave `OpenDriveMap` deleted. `loadOdrMap(null)` then throws at 331, and nothing is ever displayed. |

### Findings

1. **Tile added to an unbound cache (line 269).** The block onload uses the
   *current* global `tilecache`. A `loadBuf` issued in between leaves the bound
   cache orphaned. The tile then goes into a cache with no georeference.
2. **`blockidindex` is never reset (lines 350-352).** On a second
   `loadBuf`, `get_mesh(blockids[1])` fails. The block is already on screen
   from the first load, so nothing visible is lost, and no run reports this
   as a violation. The same bug is why `AtMostOneAnimationLoop` holds: the `MeshIdFirst` mutant reads
   `blockids[0]` every time, so a second load succeeds. It then starts a second
   `animate` chain and leaves the old generation in the scene, because
   `clear_map` is null on this path.
3. **Road-object ids in the roadmark geometry (line 444).** This contradicts
   spec §4.2/§8. Picking still highlights the right roadmark: the decoded
   road-object id is looked up in the same interval map that placed it, and
   `PickSelectsFeatureUnderCursor` holds with road objects present.

The line-603 use of `get_idx_interval_lane` on the roadmarks mesh is harmless.
In libOpenDRIVE the roadmarks mesh's lane grouping is coarser than its roadmark
split, and `HighlightMatchesIntersected` holds over every such grouping. The
model assumes that grouping. A fork where the query is absent would throw there
every frame.

4. **Use after delete after a failed reload (lines 317, 351, 575).**
   `reloadOdrMap` or a file load after the tile load runs the teardown, which
   deletes the scene's mesh union. It then throws at `get_mesh(blockids[1])`.
   `road_network_mesh` still refers to the deleted object:
   - the next clear-map load deletes it again at line 317;
   - a tick with a lane or roadmark highlighted calls `lanes_mesh` on it
     (575/602), and every later tick throws before `renderer.render`.

   The file and reload paths can never build a scene. With no tilecache,
   `road_network_mesh` is null at line 317. With a tilecache, `blockidindex`
   is past `blockids`. A constructor that throws in `reloadOdrMap` also
   leaves `OpenDriveMap` dangling, to be deleted again (156, 307).
5. **Native objects leaked (line 179, also 353 and 434).** The following are
   dropped without `delete()`:
   - each replaced tilecache;
   - an `OpenDriveMap` cleared by `loadBuf`;
   - the `.refline` and `.road_objects_mesh` copies of every load;
   - the `OpenDriveMap`'s mesh union, when the tile branch overwrites it.

   `viewer_leaks` stops at the first, but every kind recurs per call.

6. **A tile load stalls after a failed reload (line 331).** `loadBuf` sets
   `OpenDriveMap` to null. A file selection before the block response sets
   it again: the file load throws at 317 with no scene. A `reloadOdrMap`
   then deletes it, and its constructor throws. The block response's
   `loadOdrMap(null)` tests the global `OpenDriveMap`, not its argument, and
   calls `get_refline_segments` on the deleted map. The handler throws, no
   request is outstanding, and the road network never appears. This needs a
   build whose binding rejects the five-argument constructor. With a
   constructor that returns, `viewer_liveness` shows the load always
   completes.
7. **Double-click after a failed reload (line 744).** `INTERSECTED_LANE_ID`
   survives the teardown. While the spotlight is off, no tick clears it. A
   double-click then calls into the deleted mesh union. This is one of the
   ways `NoReleasedObjectUsed` fails.

8. **The highlight never clears after a failed reload (line 575).** The
   background branch of `animate` fetches `lanes_mesh` from the kept mesh
   union (575) before it resets `INTERSECTED_LANE_ID` (581). After finding
   4's teardown-then-throw, the picking pixels are the background and the
   id is still set. Every tick throws at 575, never reaches 581 or
   `renderer.render`, and the spotlight stays on. `HighlightClearsOffFeatures`
   states spec §4.4's "a background pixel resets the id" over the pixels
   that the tick reads. `Picking` alone, with one live mesh, cannot show
   this.

No second generation can be built, so the `INTERSECTED_*` ids that
`loadOdrMap` keeps never meet a new scene. No property is stated about
that case, because every reachable state would satisfy it.

### Bounds

- **Lanes geometry: 3 vertices.** That allows one, two or three lanes, enough
  for "A, then B, then none" with distinct ranges.
- **Roadmarks geometry: 3 vertices.**
- **Road-object keys.** The set includes one key inside and one past the
  roadmark range. The second exercises the engine's default end.
- **Dependency replies: up to 3 of blocks {113, 114, 115}.** That covers a
  repeat inside one reply, a block already held, and two new blocks whose
  order must be kept. `blockids` arrays hold up to 2 blocks.
- **`MaxLoadBuf = 3`.** It lets one call overtake another's responses and a
  third follow a completed one.

- **`Viewer`.** Mesh unions have 2 lane and 2 roadmark vertices in every
  split. The lane split varies, the roadmark split varies, and the roadmarks'
  lane grouping is fixed to one lane: 4 unions. That is enough for two features per category and for the
  highlighted-then-torn-down case. `MaxLoadBuf = 2` is enough for a second tile
  load and a leaked tilecache. The safety run takes about 2 minutes. The
  lane groupings are explored in `MC_Picking`. The three liveness runs use one
  mesh union (`MCOneMeshUnion`), with two features per category.
- **Refinement run.** This run uses only the road-object keys {1,4}, and
  the roadmarks mesh is grouped into one lane. `MC_Picking.cfg` explores the
  other groupings. The run takes under a minute.

Larger geometries only repeat the same interval cases, and a 4-vertex lanes
geometry gives the same results at 3x the time.

### Fairness

- **`Picking`: `WF(Tick)`.** `animate` re-arms its timer before doing anything
  else, so the chain never stops once started. Input handlers are short and
  cannot starve it.
- **`Viewer`: `Fairness`.** This is weak fairness of `ModuleLoaded`, of the
  info and block `onload` handlers, and of `Tick`. It is the assumption of a
  service that answers every request: the live cfgs keep
  `ResponsesCanFail = FALSE`. `Tick` is fair for the same reason as in
  `Picking`. These handlers are the browser's own callbacks, and nothing in
  `main.js` can cancel them. `TileLoader`'s own runs are safety runs, so its
  liveness is checked only in this composition.
- **Refinement.** `WF(Tick)` in `Picking` yields the abstract `WF(Refresh)`,
  because `Tick` is enabled exactly when the mapped `active` is.
- **User actions: no fairness.** This covers `LoadBuf`, file selections,
  reloads, mouse moves, drags, double-clicks and toggles.

The loader cfgs set `CHECK_DEADLOCK FALSE`: once the bounded `loadBuf` calls are
answered, the loader really is idle and waits for the user.

## 5. Not modelled (yet)

- **Native copies lumped together.** Every successful load drops the
  `lane_start_type` map, its `keys()` vector (368-369) and the three
  `*_start_indices` maps. `getStdMapEntries` reads those maps without
  `delete_map`. All of these are one kind, `std_map`, in `leaked`. The
  per-tick `lanes_mesh`/`roadmarks_mesh` copies are left out, because they
  are deleted on every path.
- **Faults in `Viewer`.** Lost and unusable responses are studied in
  `TileLoader` only. Adding them to `Viewer` multiplies its state space
  without reaching new scene states.
- **UI glue.** Only the double-click handler is modelled. Resize,
  notifications, materials, shaders and `fitViewToBbox` change only the
  camera, the renderer and the DOM, and no property reads them.
- **Geometry data.** Positions, st coordinates, normals, outlines, bounding-box
  fitting, camera and light are numeric rendering data that no property reads.
- **Display-only readback.** The xyz/st readback and the `spotlight_info` panel
  only feed display.
- **The dependency list in the loader.** `getDepBlockList` and
  `modifyBlockids` are checked as functions only. No action of `TileLoader`
  calls them, because `loadBuf`'s calls are commented out.
