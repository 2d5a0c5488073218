---------------------------- MODULE MCEventLoop ----------------------------
EXTENDS EventLoop

MCPeriod == <<1, 2>>
=============================================================================
