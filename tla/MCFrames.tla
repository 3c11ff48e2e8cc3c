------------------------------ MODULE MCFrames ------------------------------
EXTENDS Frames
=============================================================================
