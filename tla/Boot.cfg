SPECIFICATION Spec
CONSTANT NoProgram = NoProgram
INVARIANTS StartupOrdered HandoffGated DispatchHonest
            ManifestComesUp UnitsOrdered
 
CHECK_DEADLOCK FALSE
