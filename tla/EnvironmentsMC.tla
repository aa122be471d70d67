--------------------------- MODULE EnvironmentsMC ---------------------------
EXTENDS Environments
=============================================================================
