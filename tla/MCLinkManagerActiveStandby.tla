--------------------- MODULE MCLinkManagerActiveStandby ---------------------
EXTENDS LinkManagerActiveStandby
=============================================================================
