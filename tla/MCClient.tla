------------------------------ MODULE MCClient ------------------------------
EXTENDS Client

=============================================================================
