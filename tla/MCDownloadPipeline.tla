------------------------ MODULE MCDownloadPipeline ------------------------
(* DownloadPipeline on a few rows and one worker.                          *)
EXTENDS PipelineProperties, TLC

CONSTANTS u1, u2, w1, sweeper, noJob

MCUrl == {u1}
MCTwoUrls == {u1, u2}
MCJob == 1..2
MCOneJob == 1..1
MCOneWorker == {w1}
MCOneWorkerCallers == {w1, u1, sweeper}
MCTwoUrlCallers == {w1, u1, u2, sweeper}
=============================================================================
