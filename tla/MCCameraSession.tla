-------------------------- MODULE MCCameraSession --------------------------
EXTENDS CameraSession
=============================================================================
