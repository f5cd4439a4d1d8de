--------------------------- MODULE MCServiceClient ---------------------------
EXTENDS ServiceClient
==============================================================================
