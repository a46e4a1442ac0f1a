------------------------- MODULE MCItemDiagnostics --------------------------
\* Three items of up to two AST items each, one kind of error.
EXTENDS ItemDiagnostics
=============================================================================
