--------------------------- MODULE MCAckedEvents ---------------------------
EXTENDS AckedEvents

CONSTANTS h1, h2, h3

=============================================================================
