----------------------------- MODULE MCPipeline -----------------------------
(* Pipeline with one tool input of each class the control tells apart.     *)
EXTENDS Pipeline

MCToolInputs == {"misshapen", "sound", "soundBroken", "unsound", "unsoundBroken"}
MCConforming == MCToolInputs \ {"misshapen"}
MCGrounded   == {"sound", "soundBroken"}
MCBroken     == {"soundBroken", "unsoundBroken"}
=============================================================================
