----------------------- MODULE MCDatasourcePipeline -------------------------
(* A book of two rows.                                                     *)
EXTENDS DatasourcePipeline

CONSTANTS r1, r2
MCRows == {r1, r2}
=============================================================================
