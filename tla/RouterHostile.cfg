CONSTANTS p1 = p1 i1 = i1 i2 = i2 i3 = i3 j1 = j1 j2 = j2 poll = poll caller = caller
CONSTANTS NoLabel = NoLabel NoPhone = NoPhone
CONSTANTS Phone <- OnePhone Label <- TwoSources Request <- ThreeRequests Judge <- TwoVerdicts Eager <- BothModes Faults <- EveryFault
SYMMETRY Symmetry
SPECIFICATION Spec
INVARIANTS OneLeadOfOurs LinkedLeadExists
PROPERTY RegistrySpec
