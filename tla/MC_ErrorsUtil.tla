---------------------------- MODULE MC_ErrorsUtil ----------------------------
(* ErrorsUtil over three error values and two tags. *)
EXTENDS ErrorsUtil

CONSTANTS e1, e2, e3, t1, t2

MCErrs == {e1, e2, e3}
MCTags == {t1, t2}
=============================================================================
