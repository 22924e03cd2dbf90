------------------------------ MODULE MCOmxVenc ------------------------------
EXTENDS OmxVenc

\* Every command the component carries out.
MCCommands == AllCommands
=============================================================================
