--------------------------- MODULE MCChannelTurns ---------------------------
EXTENDS ChannelTurns
CONSTANTS h1, h2, web

TwoHandlers == {h1, h2}
Web == {web}
None == {}
FirstIsDirect == {1}
=============================================================================
