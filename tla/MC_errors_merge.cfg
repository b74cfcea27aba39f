CONSTANTS
    e1 = e1
    e2 = e2
    e3 = e3
    t1 = t1
    t2 = t2
    Nil = Nil
    Errs <- MCErrs
    Tags <- MCTags
    MaxErrs = 3
SPECIFICATION Spec
INVARIANT TypeOK
INVARIANT MergeKeepsEveryError
