----------------------------- MODULE MCGameData -----------------------------
(* A disc of three entries: a directory, a file of two chunks and an empty *)
(* file, the one that is never inside the write loop.  The cut-off image   *)
(* ends after the first chunk.                                             *)
EXTENDS GameData

MCDirs == {1}
MCLength == <<0, 2, 0>>
MCHeld == <<0, 1, 0>>

=============================================================================
