-------------------------- MODULE MCSpeedTestEngine --------------------------
EXTENDS SpeedTestEngine
=============================================================================
