--------------------------- MODULE MCRespondPage ---------------------------
\* RespondPage with the constants that the .cfg files give.
EXTENDS RespondPage
=============================================================================
