SPECIFICATION Spec
CONSTANT Setups <- MCSetups
CHECK_DEADLOCK FALSE
INVARIANT PluginAgrees
