CONSTANTS
    c1 = c1
    c2 = c2
    Confs <- MCConfs
    Reps <- MCReps
    DefaultReplicas = 1
    Declarable = {"fe", "cn", "broker"}
    NilAnnotationRoles <- BuilderNilAnnotationRoles
    MaxFailures = 1
    MaxEdits = 1
    Absent = Absent
    NoObj = NoObj
SPECIFICATION Spec
INVARIANTS
    TypeOK
    SuccessfulPassConverges
PROPERTIES
    ImplementsAbstractStore
