-------------------------- MODULE MCInspectionFlow --------------------------
EXTENDS InspectionFlow
=============================================================================
