--------------------------- MODULE MCFileTransfer ---------------------------
EXTENDS FileTransfer

CONSTANTS v, w
MCFiles == 1 .. 3
=============================================================================
