SPECIFICATION Spec
CONSTANT Setups <- MCSetups
CHECK_DEADLOCK FALSE
INVARIANTS EngineAgrees PluginAgreesOnDirectChoice RetractUndoesApply ChildForecastIsExact SignatureIsExact WinnerHasExactFive
PROPERTY ImplementsSwap2
