--------------------------- MODULE MCHttpHandlers ---------------------------
EXTENDS HttpHandlers

\* prefix[] values: digits, a non-digit, and lengths 0 .. Width + 1.
MCPrefixValues == SeqOf({"1", "9", "a"}, Width + 1)
=============================================================================
