CONSTANTS
    a = a
    b = b
    r1 = r1
    None = None
    Owners <- TwoOwners
    Readers <- OneReader
    Values = {0, 1}
    MaxCrashes = 0
SPECIFICATION Spec
PROPERTIES UnownedFieldsSurvive
