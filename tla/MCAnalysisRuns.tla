--------------------------- MODULE MCAnalysisRuns ---------------------------
(* Small instances of AnalysisRuns.                                        *)
EXTENDS AnalysisRuns, TLC

\* browser.py reports 10, 25 and 70, crawl_tasks 80.
PipelineMarks == <<10, 25, 70, 80>>
\* Enough where a run asks nothing of the progress.
OneMark == <<80>>
NoMark == << >>

\* Interchangeable names; used by the safety runs only.
Symmetry ==
  Permutations(Runs) \cup Permutations(Sources)
     \cup Permutations(Workers) \cup Permutations(Clients)
=============================================================================
