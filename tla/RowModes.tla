------------------------------- MODULE RowModes -------------------------------
(* A grid that does not hold its rows reads them by windows (vrm.mjs) or by *)
(* blocks (ssrm.mjs).  The two modes share no state.                        *)
EXTENDS Viewport, SsrmBlocks

RowModesSpec == ViewportSpec /\ SsrmSpec

-----------------------------------------------------------------------------
(* What a grid shows once it has settled, in either mode: nothing under way,*)
(* no read that failed and no change unheard, so the rows it shows are those*)
(* of the engine, in their places.                                          *)
SettledGridIsCurrent == SettledViewportIsCurrent /\ SettledBlocksAreCurrent
=============================================================================
