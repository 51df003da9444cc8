------------------------------ MODULE MCFeed ------------------------------
EXTENDS Feed
=============================================================================
