------------------------ MODULE MCCircularRecording ------------------------
EXTENDS CircularRecording
=============================================================================
