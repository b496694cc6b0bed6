----------------------------- MODULE MCExtension -----------------------------
EXTENDS Extension

\* config.js: the deployed address first, then the local stack.
Two == <<"deployed", "local">>
==============================================================================
