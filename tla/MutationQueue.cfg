SPECIFICATION Spec
CONSTANT Mutations = {add, hide, rule, link}
INVARIANTS SingleFlight PendingCounts ClickOrder
PROPERTY EveryClickSettles
CHECK_DEADLOCK FALSE
