--------------------------- MODULE MCServiceWorker ---------------------------
EXTENDS ServiceWorker, TLC
==============================================================================
