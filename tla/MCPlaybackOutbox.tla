----------------------------- MODULE MCPlaybackOutbox -----------------------------
EXTENDS PlaybackOutbox
================================================================================
