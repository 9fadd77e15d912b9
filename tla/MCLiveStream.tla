---------------------------- MODULE MCLiveStream ----------------------------
(* TLC's instance of LiveStream.                                           *)
EXTENDS LiveStream
=============================================================================
