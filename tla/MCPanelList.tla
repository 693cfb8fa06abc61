---------------------------- MODULE MCPanelList -----------------------------
EXTENDS PanelList
=============================================================================
