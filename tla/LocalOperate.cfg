SPECIFICATION Spec
INVARIANTS TypeOK SceneRules
 
