\* The bounds are in WorkPartsMC, with each instance
SPECIFICATION Spec
PROPERTIES WorkGetsDone SenderSettles
CHECK_DEADLOCK FALSE
