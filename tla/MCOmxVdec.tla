------------------------------ MODULE MCOmxVdec ------------------------------
EXTENDS OmxVdec

\* A frame of one size, then one of another.
MCStream == <<1, 2>>
=============================================================================
