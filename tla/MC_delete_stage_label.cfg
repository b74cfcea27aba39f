CONSTANTS
    c1 = c1
    c2 = c2
    Confs <- MCConfs
    Reps <- MCReps
    DefaultReplicas = 1
    Declarable = {"be"}
    NilAnnotationRoles <- BuilderNilAnnotationRoles
    MaxFailures = 1
    MaxEdits = 0
    Absent = Absent
    NoObj = NoObj
SPECIFICATION Spec
PROPERTIES
    FailureReportsItsStep
