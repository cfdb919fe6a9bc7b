----------------------------- MODULE MCCompress -----------------------------
(* Instances of Compress for TLC: notes.md and notes.txt, which share a       *)
(* backup, and a script; links must stay, paths had better.                  *)
EXTENDS Compress, TLC

CONSTANTS md, txt, sh, notes, script, r1, r2

MCBackupOf == md :> notes @@ txt :> notes @@ sh :> script
MCSuffix == md :> "prose" @@ txt :> "none" @@ sh :> "code"
MCLooks == [f \in Files |-> "natural_language"]
=============================================================================
