----------------------------- MODULE MCSession -----------------------------
EXTENDS Session

=============================================================================
