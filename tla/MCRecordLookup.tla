--------------------------- MODULE MCRecordLookup ---------------------------
EXTENDS RecordLookup

CONSTANTS a, b, none

MCPayloads == {a, b}
=============================================================================
