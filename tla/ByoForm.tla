------------------------------ MODULE ByoForm -------------------------------
(***************************************************************************)
(* Choosing where the output goes: the page's destination form, the check  *)
(* of the user's own bucket ("Validate access"), and Extract.              *)
(*                                                                         *)
(* A form is all six fields at once.  The check is a round trip through    *)
(* the Worker, which writes a small object to the bucket and deletes it    *)
(* again; the page's user may go on typing and clicking meanwhile, and the *)
(* request and the Worker may be lost, each without the other.             *)
(***************************************************************************)
EXTENDS Integers

CONSTANTS
  Forms,         \* what the fields may hold
  Checks,        \* checks in flight at once
  Patient,       \* whether the user waits for the answer to a check before typing on
  MaxEdits, MaxExtracts   \* bounds: changes to the form, extractions at once

ASSUME FormAssumption ==
  /\ Patient \in BOOLEAN
  /\ {MaxEdits, MaxExtracts} \subseteq Nat

VARIABLES
  \* the page
  form, destMode, byoValidated,
  extractDisabled,   \* of the button
  \* the checks and the buckets
  check,
  probe,         \* whether the small object is in the bucket of a form
  \* what happened
  passed, refused,   \* the forms of which the page was told so
  unheard,           \* the forms of which a check got no answer
  extracts,          \* POST /extract under way
  sent,              \* the extractions that were sent to a bucket of the user
  meddled,           \* the form was changed while an extraction was under way
  overruled,         \* after that, it was a failed extraction that set the button last
  edits

formPage == <<form, destMode, byoValidated, extractDisabled>>
told == <<passed, refused, unheard>>
clicked == <<extracts, sent, meddled>>
formVars == <<formPage, check, probe, told, clicked, overruled, edits>>

-----------------------------------------------------------------------------
DestModes == {"demo", "byo"}
CheckSteps == {"put", "delete", "valid", "invalid", "lost"}
Idle == [step |-> "idle", form |-> "none", heard |-> FALSE]

\* A click sends the fields along when the destination is the user's own.
Payload == IF destMode = "byo" THEN {[form |-> form, overruled |-> overruled]} ELSE {}

UpdateExtractEnabled(mode, validated) ==
  /\ extractDisabled' = (mode = "byo" /\ ~validated)
  /\ overruled' = FALSE

Waiting == \E c \in Checks : check[c].heard

\* The user changes the fields or the destination.
Touch ==
  /\ edits < MaxEdits /\ (Patient => ~Waiting)
  /\ edits' = edits + 1
  /\ meddled' = (meddled \/ extracts > 0)

FormInit ==
  /\ form \in Forms
  /\ destMode = "demo" /\ byoValidated = FALSE /\ extractDisabled = FALSE
  /\ check = [c \in Checks |-> Idle]
  /\ probe = [f \in Forms |-> FALSE]
  /\ passed = {} /\ refused = {} /\ unheard = {}
  /\ extracts = 0 /\ sent = {} /\ meddled = FALSE /\ overruled = FALSE
  /\ edits = 0

-----------------------------------------------------------------------------
(***************************************************************************)
(* The page                                                                *)
(***************************************************************************)
ChooseDestination ==
  /\ Touch
  /\ \E mode \in DestModes :
       /\ destMode' = mode
       /\ UpdateExtractEnabled(mode, FALSE)
  /\ byoValidated' = FALSE
  /\ UNCHANGED <<form, check, probe, told, extracts, sent>>

\* What it would be if the fields were not watched.
EditUnwatched ==
  /\ Touch
  /\ form' \in Forms \ {form}
  /\ UNCHANGED <<destMode, byoValidated, extractDisabled, overruled, check, probe, told,
                 extracts, sent>>

EditField ==
  /\ Touch
  /\ form' \in Forms \ {form}
  /\ byoValidated' = FALSE
  /\ UpdateExtractEnabled(destMode, FALSE)
  /\ UNCHANGED <<destMode, check, probe, told, extracts, sent>>

\* The button of the check is never disabled.
ValidateClicked(c) ==
  /\ destMode = "byo" /\ check[c] = Idle
  /\ check' = [check EXCEPT ![c] = [step |-> "put", form |-> form, heard |-> TRUE]]
  /\ UNCHANGED <<formPage, probe, told, clicked, overruled, edits>>

\* The answer is applied to the page as it is now.
Validated(c) ==
  /\ check[c].step \in {"valid", "invalid"}
  /\ byoValidated' = (check[c].step = "valid")
  /\ UpdateExtractEnabled(destMode, check[c].step = "valid")
  /\ IF check[c].step = "valid"
       THEN passed' = passed \cup {check[c].form} /\ UNCHANGED refused
       ELSE refused' = refused \cup {check[c].form} /\ UNCHANGED passed
  /\ check' = [check EXCEPT ![c] = Idle]
  /\ UNCHANGED <<form, destMode, probe, unheard, clicked, edits>>

\* The request fails, or the session is over: no answer, or one with no result.
\* A handler that is at work may go on by itself.
ValidateFails(c) ==
  /\ check[c].heard
  /\ \/ UNCHANGED <<byoValidated, extractDisabled, overruled>>
     \/ byoValidated' = FALSE /\ UpdateExtractEnabled(destMode, FALSE)
  /\ check' = [check EXCEPT ![c] = IF @.step \in {"put", "delete"}
                                     THEN [@ EXCEPT !.heard = FALSE] ELSE Idle]
  /\ unheard' = unheard \cup {check[c].form}
  /\ UNCHANGED <<form, destMode, probe, passed, refused, clicked, edits>>

\* A click without a source only repeats that the button is enabled.
DoExtract ==
  /\ ~extractDisabled
  /\ extracts < MaxExtracts
  /\ sent' = sent \cup Payload
  /\ extracts' = extracts + 1
  /\ extractDisabled' = TRUE /\ overruled' = FALSE
  /\ UNCHANGED <<form, destMode, byoValidated, check, probe, told, meddled, edits>>

\* The message of a failure enables the button whatever the form is by now.
ShowExtractErr == extractDisabled' = FALSE /\ overruled' = meddled

\* With an answer the button is set again, and one of failure says so and sets
\* it once more; without one it stays.
ExtractAnswered ==
  /\ extracts > 0
  /\ extracts' = extracts - 1
  /\ \/ UpdateExtractEnabled(destMode, byoValidated)
     \/ ShowExtractErr
     \/ UNCHANGED <<extractDisabled, overruled>>
  /\ UNCHANGED <<form, destMode, byoValidated, check, probe, told, sent, meddled, edits>>

-----------------------------------------------------------------------------
(***************************************************************************)
(* The Worker's check                                                      *)
(***************************************************************************)
\* A verdict that nobody waits for is gone.
Says(c, verdict) ==
  check' = [check EXCEPT ![c] = IF @.heard THEN [@ EXCEPT !.step = verdict] ELSE Idle]

\* The bucket grants a call or refuses it, as it likes: what a key may do there is
\* not for the page to know, and may change.
Bucket(f, there) == probe' = [probe EXCEPT ![f] = there]

\* A form that does not parse is refused with nothing sent.  The PUT is refused,
\* or lost before or after its effect, or it succeeds.
PutProbe(c) ==
  /\ check[c].step = "put"
  /\ \/ Says(c, "invalid") /\ (UNCHANGED probe \/ Bucket(check[c].form, TRUE))
     \/ Bucket(check[c].form, TRUE) /\ check' = [check EXCEPT ![c].step = "delete"]
  /\ UNCHANGED <<formPage, told, clicked, overruled, edits>>

\* What it would be if the cleanup's failure were of no interest.
DeleteProbeBestEffort(c) ==
  /\ check[c].step = "delete"
  /\ Says(c, "valid")
  /\ UNCHANGED probe \/ Bucket(check[c].form, FALSE)
  /\ UNCHANGED <<formPage, told, clicked, overruled, edits>>

\* A bucket without the object says 404 or 204, which counts as deleted.
DeleteProbe(c) ==
  /\ check[c].step = "delete"
  /\ \/ Says(c, "invalid") /\ (UNCHANGED probe \/ Bucket(check[c].form, FALSE))
     \/ Says(c, "valid") /\ Bucket(check[c].form, FALSE)
  /\ UNCHANGED <<formPage, told, clicked, overruled, edits>>

\* The Worker is lost or cancelled, and its call has had its effect or not.
CheckLost(c) ==
  /\ check[c].step \in {"put", "delete"}
  /\ Says(c, "lost")
  /\ UNCHANGED probe \/ Bucket(check[c].form, check[c].step = "put")
  /\ UNCHANGED <<formPage, told, clicked, overruled, edits>>

-----------------------------------------------------------------------------
FormNext ==
  \/ ChooseDestination \/ EditField \/ DoExtract \/ ExtractAnswered
  \/ \E c \in Checks : \/ ValidateClicked(c) \/ Validated(c) \/ ValidateFails(c)
                       \/ PutProbe(c) \/ DeleteProbe(c) \/ CheckLost(c)

FormSpec == FormInit /\ [][FormNext]_formVars

-----------------------------------------------------------------------------
FormTypeOK ==
  /\ form \in Forms /\ destMode \in DestModes
  /\ {byoValidated, extractDisabled, meddled, overruled} \subseteq BOOLEAN
  /\ check \in [Checks -> {Idle} \cup [step : CheckSteps, form : Forms, heard : BOOLEAN]]
  /\ probe \in [Forms -> BOOLEAN]
  /\ passed \cup refused \cup unheard \subseteq Forms
  /\ extracts \in 0 .. MaxExtracts
  /\ sent \subseteq [form : Forms, overruled : BOOLEAN]
  /\ edits \in 0 .. MaxEdits

\* "The UI requires this to pass before enabling Extract in BYO mode"
\* (README.md:270): what is sent to a bucket of the user was checked with these
\* very fields, if the user waits for the answer to a check before typing on.
\* The exception (ui.ts:584): who types on while an extraction is under way may
\* find the button enabled by the failure of that one.
ExtractsWhatPassed ==
  \A x \in sent : x.overruled \/ x.form \in passed

\* The small object is left in a bucket only if the page was told that the
\* check failed (destination.ts:335-342), or one more check is on its way, or
\* one of them was lost.
LeftoverIsReported ==
  \A f \in Forms : probe[f] =>
    \/ f \in refused \cup unheard
    \/ \E c \in Checks : /\ check[c].form = f
                         /\ check[c].step \in {"delete", "invalid", "lost"}

\* A check whose answer nobody waits for any more is one that got none.
UnheardIsKnown ==
  \A c \in Checks : check[c] # Idle /\ ~check[c].heard => check[c].form \in unheard

\* Types, and the leftovers that somebody was told of.
FormInv == FormTypeOK /\ UnheardIsKnown /\ LeftoverIsReported

(***************************************************************************)
(* Said of the program and not so: the README has the behaviours.          *)
(***************************************************************************)
\* README.md:270 without the exception.
ExtractsOnlyWhatPassed ==
  \A x \in sent : x.form \in passed

\* "surface it" (destination.ts:336): what stays has been said.
LeftoverIsSurfaced ==
  \A f \in Forms : probe[f] =>
    f \in refused \/ \E c \in Checks : check[c].form = f /\ check[c].step \in {"delete", "invalid"}

=============================================================================
