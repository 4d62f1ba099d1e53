SPECIFICATION Spec
CONSTANTS
    Labels = {"Ana"}
    MaxChanges = 2
    MaxStops = 1
    MaxImports = 1
PROPERTIES GroupKeepsSubject NamesAreNotBlanked LabelSettles
CHECK_DEADLOCK FALSE
