---------------------------- MODULE MCFolderRender ----------------------------
(* Three raw files, of which 2 and 3 differ in letter case only, so that   *)
(* they want one output name; two suffixes; up to three runs.              *)
EXTENDS FolderRender

MCOutputName(f, s) == <<IF f = 3 THEN 2 ELSE f, s>>

MCOutputs == {MCOutputName(f, s) : f \in Files, s \in SuffixValues}

=============================================================================
