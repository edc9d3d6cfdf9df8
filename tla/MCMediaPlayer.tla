--------------------------- MODULE MCMediaPlayer ---------------------------
(* Instances of MediaPlayer for TLC.                                       *)
EXTENDS MediaPlayer
=============================================================================
