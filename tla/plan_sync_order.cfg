CONSTANT N = 3
SPECIFICATION Spec
INVARIANT LayersRespectDependencies
