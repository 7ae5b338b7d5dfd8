SPECIFICATION Spec
CONSTANTS
  Requirements <- MCRequirements
  Capacities <- MCCapacities
INVARIANTS ListedApart FirstFit MaximumIsTight PlanComplete LargestFirst
PROPERTIES KeepsPlan Terminates
