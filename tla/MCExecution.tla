----------------------------- MODULE MCExecution -----------------------------
(***************************************************************************)
(* Model values for Execution.  A string is the set of its bits, see Form; *)
(* the forms are chosen so that their identifiers meet: the first two have *)
(* the words of issue and location the other way round, as far as the 16   *)
(* bytes of an identifier go, and the last is about an issue that the      *)
(* genesis file does not name.  An info need not come from a form: one     *)
(* more has the key of a genesis account for its identifier.               *)
(***************************************************************************)
EXTENDS Execution, Form

Bit(n, place) == <<n, place>>

Pothole == {Bit(0, 1)}
Graffiti == {Bit(0, 2)}
Noise == {Bit(0, 4)}

MCIssues == {Pothole, Graffiti}

\* Whom a form names as its submitter plays no part in execution.
MCSubmitter == CHOOSE u \in Users : TRUE

FormOf(issue, location) ==
  [minute |-> {}, issue |-> issue, location |-> location, submitter |-> MCSubmitter]

MCForms == {FormOf(Pothole, Graffiti),
            FormOf(Graffiti, Pothole \cup {Bit(16, 1)}),
            FormOf(Noise, Graffiti)}

MCForeign == {[NewInfo(f) EXCEPT !.id = u] :
                f \in {g \in MCForms : g.issue = Graffiti}, u \in Genesis}

MCInfos == {NewInfo(f) : f \in MCForms} \cup MCForeign
MCFormIDs == {ID(f) : f \in MCForms}
MCIssueNames == {f.issue : f \in MCForms}
MCSeqNos == 0 .. MaxLog

=============================================================================
