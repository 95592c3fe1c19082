--------------------------- MODULE MCLinkProberHw ---------------------------
EXTENDS LinkProberHw

CONSTANTS g1, g2

MCWorlds == {[server |-> TRUE, alive |-> TRUE, guid |-> g1,
              kind |-> "Hardware"]}
=============================================================================
