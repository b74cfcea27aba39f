------------------------------ MODULE ErrorsUtil ------------------------------
(***************************************************************************)
(* The error aggregation of package util (lines 354-413 of                 *)
(* src/internal/reconciler/doriscluster_reconciler.go): MergeErrors and    *)
(* MergeErrorsWithTag and the Error methods of what they return.  Go       *)
(* values are modelled by what the language makes of them: a *MultiError  *)
(* is a pointer that may be nil, and ranging over a map visits its keys in *)
(* an order the runtime picks anew each time.                              *)
(* The functions are pure: Init picks their inputs and the map order of a  *)
(* call of MultiTaggedError.Error, and nothing changes after.              *)
(***************************************************************************)
EXTENDS Naturals, Sequences, SequencesExt

CONSTANTS
    Errs,      \* non-nil error values
    Tags,      \* tags of MergeErrorsWithTag
    MaxErrs,   \* longest argument list of MergeErrors
    Nil        \* the nil error, and the nil pointer

VARIABLES
    errs,      \* the variadic argument of MergeErrors
    tagged,    \* the map argument of MergeErrorsWithTag: some tags -> error or Nil
    order      \* key order of the range over the merged map in Error()

vars == <<errs, tagged, order>>

(* Mutant of MergeErrors: the err != nil filter dropped. *)
MergeErrorsNoFilter(es) ==
    IF Len(es) = 0 THEN Nil ELSE [Errors |-> es]

(* Mutant of MergeErrors: the len(errorList) == 0 early return dropped. *)
MergeErrorsNoEmptyCheck(es) ==
    [Errors |-> SelectSeq(es, LAMBDA e : e # Nil)]

(* MergeErrors: keep the non-nil errors in order; a nil *MultiError when  *)
(* none is left, else a pointer to MultiError{Errors: errorList}.          *)
MergeErrors(es) ==
    LET errorList == SelectSeq(es, LAMBDA e : e # Nil)
    IN IF Len(errorList) = 0 THEN Nil ELSE [Errors |-> errorList]

(* Go maps from some of the tags to an error or nil. *)
TagMaps == UNION {[D -> Errs \cup {Nil}] : D \in SUBSET Tags}

(* MergeErrorsWithTag: the entries whose error is not nil; nil when none. *)
MergeErrorsWithTag(errors) ==
    LET errMap == [t \in {t \in DOMAIN errors : errors[t] # Nil} |-> errors[t]]
    IN IF DOMAIN errMap = {} THEN Nil ELSE [Errors |-> errMap]

(* MultiTaggedError.Error: "[tag] err" for each entry, in the order the *)
(* range over the map visits the keys.                                     *)
TaggedMsg(p, keys) ==
    IF p = Nil THEN "panic" ELSE [i \in DOMAIN keys |-> <<keys[i], p.Errors[keys[i]]>>]

MergedTags == LET p == MergeErrorsWithTag(tagged) IN
              IF p = Nil THEN {} ELSE DOMAIN p.Errors

Init ==
    /\ errs \in BoundedSeq(Errs \cup {Nil}, MaxErrs)
    /\ tagged \in TagMaps
    /\ order \in SetToSeqs(MergedTags)

Next == UNCHANGED vars

Spec == Init /\ [][Next]_vars

-----------------------------------------------------------------------------
TypeOK ==
    /\ errs \in BoundedSeq(Errs \cup {Nil}, MaxErrs)
    /\ tagged \in TagMaps
    /\ MergeErrors(errs) \in {Nil} \cup [Errors : Seq(Errs)]

(* The reference: the errors of a list that are not nil, by recursion. *)
RECURSIVE NonNil(_)
NonNil(s) ==
    IF s = <<>> THEN <<>>
    ELSE (IF Head(s) # Nil THEN <<Head(s)>> ELSE <<>>) \o NonNil(Tail(s))

(* MergeErrors and MergeErrorsWithTag lose no error and invent none: the  *)
(* merged value is nil exactly when every input is nil, otherwise it      *)
(* holds every non-nil error once, in argument order (for the tagged       *)
(* form, under its own tag, and Error() names every tag once whatever     *)
(* order the map is ranged in).                                           *)
MergeKeepsEveryError ==
    /\ (MergeErrors(errs) = Nil) <=> (NonNil(errs) = <<>>)
    /\ MergeErrors(errs) # Nil => MergeErrors(errs).Errors = NonNil(errs)
    /\ (MergeErrorsWithTag(tagged) = Nil) <=> (\A t \in DOMAIN tagged : tagged[t] = Nil)
    /\ MergeErrorsWithTag(tagged) # Nil =>
         /\ \A t \in DOMAIN tagged : tagged[t] # Nil =>
                t \in MergedTags /\ MergeErrorsWithTag(tagged).Errors[t] = tagged[t]
         /\ ToSet(TaggedMsg(MergeErrorsWithTag(tagged), order))
                = {<<t, tagged[t]>> : t \in MergedTags}

=============================================================================
