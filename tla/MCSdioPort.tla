----------------------------- MODULE MCSdioPort -----------------------------
EXTENDS SdioPort
=============================================================================
