---------------------------- MODULE MCDesktopCore ---------------------------
EXTENDS DesktopCore
=============================================================================
