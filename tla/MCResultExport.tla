--------------------------- MODULE MCResultExport ---------------------------
EXTENDS ResultExport
=============================================================================
