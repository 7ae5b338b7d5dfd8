SPECIFICATION Spec
CONSTANT Models <- AllModels
INVARIANTS ReadsIntact IndicesRight ScratchDescribed
PROPERTY ErrorsReturn
