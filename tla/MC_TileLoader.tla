---------------------------- MODULE MC_TileLoader ----------------------------
(***************************************************************************)
(* Instantiates the tile cache client for TLC: block 113 is the only block *)
(* the code requests, blockids is the source's [113], and up to three      *)
(* loadBuf calls (enough for a call to overtake another's responses and    *)
(* for a third to follow a completed one).                                 *)
(***************************************************************************)
EXTENDS TileLoader

MCBlocks == {113}
MCBlockids == <<113>>

\* blockInFlight and infoInFlight are bounded by MaxLoadBuf already.
=============================================================================
