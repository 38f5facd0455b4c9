----------------------------- MODULE MCBrowser -----------------------------
EXTENDS Browser
=============================================================================
