--------------------------- MODULE MCBuildRuntime ---------------------------
(* Small instances of BuildRuntime: the scripts are model values.          *)
EXTENDS BuildRuntime
=============================================================================
