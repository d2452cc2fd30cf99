-------------------------- MODULE MCCameraStreaming --------------------------
EXTENDS CameraStreaming

All == Commands
=============================================================================
