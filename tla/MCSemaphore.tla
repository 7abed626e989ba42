---------------------------- MODULE MCSemaphore ----------------------------
EXTENDS Semaphore

=============================================================================
