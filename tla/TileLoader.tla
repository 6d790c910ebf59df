----------------------------- MODULE TileLoader -----------------------------
(***************************************************************************)
(* The tile cache client of the viewer (main.js: the libOpenDrive promise, *)
(* loadBuf, loadFile's tile branch, bindmap, getBlockInfo and the tile     *)
(* branch of loadOdrMap).                                                  *)
(*                                                                         *)
(* loadBuf creates a new native tilecache, stores it in the global         *)
(* `tilecache` and posts /info/get.  The info onload binds the map into    *)
(* whatever `tilecache` holds when it runs and posts /render/block/info/get *)
(* for block 113; that onload adds the returned tile to whatever           *)
(* `tilecache` holds then and calls loadOdrMap(null), which takes the mesh *)
(* of blockids[blockidindex] from the cache, advances blockidindex, builds *)
(* a new geometry generation without clearing the old one (clear_map is    *)
(* null) and starts a new animate() chain.                                 *)
(*                                                                         *)
(* Requests carry nothing the handlers read, so in-flight requests of one  *)
(* kind are counted, not named.  A response either carries the expected   *)
(* payload, an unusable body (onload also fires for HTTP errors), or never *)
(* arrives (there is no onerror handler and no timeout).                   *)
(***************************************************************************)
EXTENDS Integers, Sequences

CONSTANTS
    Blocks,            \* the block ids the service can return
    blockids,          \* the global blockids array: <<113>>
    RequestedBlock,    \* 113, hard-coded in the getBlockInfo request body
    Undefined,         \* blockids[i] past the end of the array
    MaxLoadBuf,        \* bound on loadBuf calls (tilecache objects created)
    ResponsesCanFail   \* whether unusable and lost responses are explored

ASSUME /\ RequestedBlock \in Blocks
       /\ blockids \in Seq(Blocks)
       /\ MaxLoadBuf \in Nat \ {0}
       /\ ResponsesCanFail \in BOOLEAN
       /\ Undefined \notin Blocks

VARIABLES
    moduleReady,     \* ModuleOpenDrive has been set by the libOpenDrive promise
    caches,          \* every native tilecache created: [bound, tiles]
    tilecache,       \* index in caches of the global `tilecache`, 0 = null
    infoInFlight,    \* /info/get requests awaiting onload
    blockInFlight,   \* /render/block/info/get requests awaiting onload
    blockidindex,
    generations,     \* geometry generations loadOdrMap has put in the scene
    animLoops        \* animate() timer chains running

vars == <<moduleReady, caches, tilecache, infoInFlight, blockInFlight,
          blockidindex, generations, animLoops>>

\* The outcomes a response may have.
Outcomes == IF ResponsesCanFail THEN {"ok", "bad"} ELSE {"ok"}

Current == caches[tilecache]

\* Fault variant: the mesh id is always blockids[0].
MeshIdFirst(idx) == IF 0 < Len(blockids) THEN blockids[1] ELSE Undefined

\* blockids[blockidindex] (0-based in the code).
MeshId(idx) == IF idx < Len(blockids) THEN blockids[idx + 1] ELSE Undefined

(***************************************************************************)
(* loadOdrMap(null) against the cache state `cache`: get_mesh(meshid) of a *)
(* block the cache holds yields the mesh; the rest of the function builds  *)
(* and adds the geometries and calls animate().  get_mesh of anything else *)
(* fails: it throws (blockidindex unchanged) or returns undefined and the  *)
(* handler throws at `.refline` after blockidindex++.                      *)
(***************************************************************************)
LoadOdrMap(cache) ==
    IF MeshId(blockidindex) \in cache.tiles
    THEN /\ blockidindex' = blockidindex + 1
         /\ generations' = generations + 1
         /\ animLoops' = animLoops + 1
    ELSE /\ blockidindex' \in {blockidindex, blockidindex + 1}
         /\ UNCHANGED <<generations, animLoops>>

Init ==
    /\ moduleReady = FALSE
    /\ caches = <<>>
    /\ tilecache = 0
    /\ infoInFlight = 0
    /\ blockInFlight = 0
    /\ blockidindex = 0
    /\ generations = 0
    /\ animLoops = 0

\* libOpenDrive().then(Module => { ModuleOpenDrive = Module; })
ModuleLoaded ==
    /\ ~moduleReady
    /\ moduleReady' = TRUE
    /\ UNCHANGED <<caches, tilecache, infoInFlight, blockInFlight, blockidindex,
                   generations, animLoops>>

\* loadBuf -> loadFile(null, null): a new tilecache replaces the global one
\* (the old native object is never deleted) and bindmap posts /info/get.
\* Before the module has loaded `new ModuleOpenDrive.tilecache()` throws and
\* nothing changes.
LoadBuf ==
    /\ moduleReady
    /\ Len(caches) < MaxLoadBuf
    /\ caches' = Append(caches, [bound |-> FALSE, tiles |-> {}])
    /\ tilecache' = Len(caches) + 1
    /\ infoInFlight' = infoInFlight + 1
    /\ UNCHANGED <<moduleReady, blockInFlight, blockidindex, generations, animLoops>>

\* bindmap's onload: tilecache.bind_map(response) on the current global
\* cache (an unusable body fails silently inside the engine), then
\* getBlockInfo([113], []) posts the block request regardless.
InfoOnload(outcome) ==
    /\ infoInFlight > 0
    /\ infoInFlight' = infoInFlight - 1
    /\ caches' = [caches EXCEPT ![tilecache].bound = @ \/ outcome = "ok"]
    /\ blockInFlight' = blockInFlight + 1
    /\ UNCHANGED <<moduleReady, tilecache, blockidindex, generations, animLoops>>

\* getBlockInfo's onload: tilecache.add_tile(response) on the current global
\* cache, then loadOdrMap(null).
BlockOnload(outcome) ==
    /\ blockInFlight > 0
    /\ blockInFlight' = blockInFlight - 1
    /\ LET added == IF outcome = "ok" THEN {RequestedBlock} ELSE {}
           cache == [Current EXCEPT !.tiles = @ \cup added]
       IN /\ caches' = [caches EXCEPT ![tilecache] = cache]
          /\ LoadOdrMap(cache)
    /\ UNCHANGED <<moduleReady, tilecache, infoInFlight>>

\* A request fails in the network: no onerror handler, onload never runs.
InfoLost ==
    /\ ResponsesCanFail
    /\ infoInFlight > 0
    /\ infoInFlight' = infoInFlight - 1
    /\ UNCHANGED <<moduleReady, caches, tilecache, blockInFlight, blockidindex,
                   generations, animLoops>>

BlockLost ==
    /\ ResponsesCanFail
    /\ blockInFlight > 0
    /\ blockInFlight' = blockInFlight - 1
    /\ UNCHANGED <<moduleReady, caches, tilecache, infoInFlight, blockidindex,
                   generations, animLoops>>

Next ==
    \/ ModuleLoaded
    \/ LoadBuf
    \/ \E o \in Outcomes : InfoOnload(o) \/ BlockOnload(o)
    \/ InfoLost
    \/ BlockLost

\* The WASM module eventually loads and the service eventually answers every
\* request that is not lost; the user (LoadBuf) is under no obligation.
Spec ==
    /\ Init /\ [][Next]_vars
    /\ WF_vars(ModuleLoaded)
    /\ WF_vars(\E o \in Outcomes : InfoOnload(o))
    /\ WF_vars(\E o \in Outcomes : BlockOnload(o))

(***************************************************************************)
(* Properties                                                              *)
(***************************************************************************)
\* The animation loop runs as one timer chain at ~30 Hz (spec 4.5): however
\* loadBuf calls and their responses interleave, loadOdrMap never starts a
\* second animate() chain (and never leaves a second uncleared geometry
\* generation in the scene, since clear_map is null on this path).
AtMostOneAnimationLoop == animLoops <= 1

\* A block response is only merged into a tile cache whose map has been
\* bound: add_tile, and the get_mesh that follows it, never run against a
\* tilecache whose bind_map has not succeeded.
AddTileOnlyToBoundCache ==
    [][(\E o \in Outcomes : BlockOnload(o)) => Current.bound]_vars

=============================================================================
