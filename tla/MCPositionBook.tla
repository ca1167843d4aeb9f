--------------------------- MODULE MCPositionBook ---------------------------
EXTENDS PositionBook, TLC

=============================================================================
