----------------------------- MODULE MCLiveFeed -----------------------------
EXTENDS LiveFeed
=============================================================================
