-------------------------- MODULE MCBlockingQueue --------------------------
EXTENDS BlockingQueue

=============================================================================
