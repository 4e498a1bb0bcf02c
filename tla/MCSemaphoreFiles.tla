-------------------------- MODULE MCSemaphoreFiles --------------------------
EXTENDS SemaphoreFiles
=============================================================================
