-------------------------- MODULE MCDigitalOutputs --------------------------
EXTENDS DigitalOutputs
=============================================================================
