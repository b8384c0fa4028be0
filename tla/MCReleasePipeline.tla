------------------------- MODULE MCReleasePipeline -------------------------
(* An instance of ReleasePipeline with the repository's two refreshes; only  *)
(* refresh-hub-stats.yml commits a watermark without data.                   *)
EXTENDS ReleasePipeline

CONSTANTS models, hubStats

MCWorkflows == {models, hubStats}
MCWatermarked == {hubStats}
=============================================================================
