------------------------------- MODULE MCOwner -------------------------------
EXTENDS OwnerProjection
=============================================================================
