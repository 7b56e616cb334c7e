----------------------------- MODULE MCExtension -----------------------------
EXTENDS Extension
=============================================================================
