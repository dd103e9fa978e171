---------------------------- MODULE MCDiscovery ----------------------------
EXTENDS Discovery, TLC

CONSTANTS anna, ben

\* Both processes run on one computer.
OneComputer == anna :> anna @@ ben :> anna
==============================================================================
