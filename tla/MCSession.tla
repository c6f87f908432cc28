------------------------------- MODULE MCSession -------------------------------
EXTENDS Session, TLC
=============================================================================
