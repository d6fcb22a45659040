------------------------------- MODULE MCTexts -------------------------------
EXTENDS Texts
=============================================================================
