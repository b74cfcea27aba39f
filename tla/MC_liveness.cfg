CONSTANTS
    c1 = c1
    c2 = c2
    Confs <- MCConfs
    Reps <- MCReps
    DefaultReplicas = 1
    Declarable = {"cn"}
    NilAnnotationRoles <- BuilderNilAnnotationRoles
    MaxFailures = 2
    MaxEdits = 2
    Absent = Absent
    NoObj = NoObj
SPECIFICATION Spec
PROPERTIES
    Converges
