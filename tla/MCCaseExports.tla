--------------------------- MODULE MCCaseExports ---------------------------
EXTENDS CaseExportsProps
=============================================================================
