------------------------------ MODULE MCMutex ------------------------------
EXTENDS Mutex

=============================================================================
