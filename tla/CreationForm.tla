----------------------------- MODULE CreationForm -----------------------------
(***************************************************************************)
(* The form of a new record in common-frontend: fields in sections, each a *)
(* tab with a badge that counts its errors (Descriptions), in a modal      *)
(* (CreateEntityModal) that submits to the server (useCreation).           *)
(*                                                                         *)
(* A value breaks a number of the rules of its field.  The form validates  *)
(* a field with rules when it is typed into; the badges follow 500 ms after*)
(* the last change, through a debounce that every render creates anew.  The*)
(* modal stays mounted while it is shut, its fields do not.                *)
(***************************************************************************)
EXTENDS Integers, FiniteSets, Functions

CONSTANTS
  section,      \* field -> the section of its column
  Broken,       \* value -> how many rules it breaks, with an error for each
  Ruled,        \* fields with rules; the others are never validated
  Empty,
  MaxTyped, MaxSubmits   \* bounds

Fields == DOMAIN section
Values == DOMAIN Broken

VARIABLES
  open,
  form,         \* what the form holds, shown or not
  errors,       \* field -> how many errors it shows
  errorsPerSection,
  timers,       \* debounces under way: the field, and whether it is of the last render
  submits,      \* submits whose answer is awaited
  left,         \* what remains of each bound
  overlooked    \* history: sections with a change that a change elsewhere has superseded

vars == <<open, form, errors, errorsPerSection, timers, submits, left, overlooked>>

Spend(bound) == left[bound] > 0 /\ left' = [left EXCEPT ![bound] = @ - 1]

(* columnsToDescriptionItemProps *)
Sections == {section[f] : f \in Fields}

Of(s) == {f \in Fields : section[f] = s}

(* The two counts of a section: the errors of its fields, after a pause,   *)
(* and the fields that have any, after a submit.                           *)
CountErrors(shown) == [s \in Sections |-> SumFunction([f \in Of(s) |-> shown[f]])]
CountFields(shown) == [s \in Sections |-> Cardinality({f \in Of(s) : shown[f] > 0})]

NoErrors == [f \in Fields |-> 0]

(* validateFields: the rules take away what the server has named, too. *)
Validated(fields, values) ==
  [f \in Fields |-> IF f \in fields \cap Ruled THEN Broken[values[f]] ELSE errors[f]]

(* setFieldErrors: one error for each field that the server names. *)
Named(fields) == [f \in Fields |-> IF f \in fields THEN 1 ELSE errors[f]]

(* A render: a change from now on has a debounce of its own. *)
Rendered == {[t EXCEPT !.current = FALSE] : t \in timers}

-----------------------------------------------------------------------------
(* The create button.  What the form held is still there. *)
Open ==
  /\ ~open /\ left.typed > 0
  /\ open' = TRUE
  /\ timers' = Rendered
  /\ UNCHANGED <<form, errors, errorsPerSection, submits, left, overlooked>>

(* A field is typed into: the debounce forgets the change before it. *)
OnValuesChange(f) ==
  /\ open /\ Spend("typed")
  /\ \E v \in Values : form' = [form EXCEPT ![f] = v]
  /\ errors' = Validated({f}, form')
  /\ timers' = {t \in timers : ~t.current} \cup {[field |-> f, current |-> TRUE]}
  /\ overlooked' = overlooked \cup ({section[t.field] : t \in {u \in timers : u.current}} \ {section[f]})
  /\ UNCHANGED <<open, errorsPerSection, submits>>

(* Mutant of Debounced: the field that changed is counted, not its section.*)
DebouncedField(t) ==
  /\ errors' = IF open THEN Validated({t.field}, form) ELSE errors
  /\ errorsPerSection' = [errorsPerSection EXCEPT ![section[t.field]] = errors'[t.field]]
  /\ timers' = {[u EXCEPT !.current = FALSE] : u \in timers \ {t}}
  /\ overlooked' = overlooked \ {section[t.field]}
  /\ UNCHANGED <<open, form, submits, left>>

(* 500 ms later: the field is validated and the errors of its section are  *)
(* counted.                                                                *)
Debounced(t) ==
  /\ errors' = IF open THEN Validated({t.field}, form) ELSE errors
  /\ errorsPerSection' = [errorsPerSection EXCEPT ![section[t.field]] = CountErrors(errors')[section[t.field]]]
  /\ timers' = {[u EXCEPT !.current = FALSE] : u \in timers \ {t}}
  /\ overlooked' = overlooked \ {section[t.field]}
  /\ UNCHANGED <<open, form, submits, left>>

-----------------------------------------------------------------------------
(* The end of handleSubmit: the fields of every section are counted anew. *)
Recounted(shown) ==
  /\ errorsPerSection' = CountFields(shown)
  /\ timers' = Rendered
  /\ overlooked' = {}

(* handleSubmit: every field is validated; the button takes any number of  *)
(* clicks.                                                                 *)
Submit ==
  /\ open /\ Spend("submits")
  /\ errors' = Validated(Fields, form)
  /\ IF \A f \in Fields \cap Ruled : Broken[form[f]] = 0
     THEN /\ submits' = submits + 1
          /\ UNCHANGED <<errorsPerSection, timers, overlooked>>
     ELSE /\ submits' = submits
          /\ Recounted(errors')
  /\ UNCHANGED <<open, form>>

(* onCreateSubmit: the record is created, the modal shut, if it is still   *)
(* open and whatever it holds.                                             *)
Created ==
  /\ submits > 0 /\ submits' = submits - 1
  /\ open' = FALSE
  /\ errors' = NoErrors
  /\ Recounted(NoErrors)
  /\ UNCHANGED <<form, left>>

(* Mutant of Refused: the sections are not counted anew. *)
RefusedUncounted ==
  /\ submits > 0 /\ submits' = submits - 1
  /\ \E fields \in SUBSET Fields : errors' = IF open THEN Named(fields) ELSE NoErrors
  /\ UNCHANGED <<open, form, left, errorsPerSection, timers, overlooked>>

(* The server refuses some fields, or fails: the errors it names are shown,*)
(* whatever the form holds by then.                                        *)
Refused ==
  /\ submits > 0 /\ submits' = submits - 1
  /\ \E fields \in SUBSET Fields : errors' = IF open THEN Named(fields) ELSE NoErrors
  /\ Recounted(errors')
  /\ UNCHANGED <<open, form, left>>

(* reset and onCancel. *)
Cancel ==
  /\ open
  /\ open' = FALSE
  /\ form' = [f \in Fields |-> Empty]
  /\ errors' = NoErrors
  /\ Recounted(NoErrors)
  /\ UNCHANGED <<submits, left>>

-----------------------------------------------------------------------------
Init ==
  /\ open = FALSE
  /\ form = [f \in Fields |-> Empty]
  /\ errors = NoErrors /\ timers = {} /\ submits = 0 /\ overlooked = {}
  /\ errorsPerSection = CountFields(NoErrors)
  /\ left = [typed |-> MaxTyped, submits |-> MaxSubmits]

Next ==
  \/ Open \/ Submit \/ Created \/ Refused \/ Cancel
  \/ \E f \in Fields : OnValuesChange(f)
  \/ \E t \in timers : Debounced(t)

Spec == Init /\ [][Next]_vars

-----------------------------------------------------------------------------
(* Properties *)

(* The badge of s is one of the two counts of what is shown now. *)
Counted(s) == errorsPerSection[s] \in {CountErrors(errors)[s], CountFields(errors)[s]}

(* Once no debounce is under way, the badge of a tab counts the errors its *)
(* fields show, or the fields that show any, those that the server named   *)
(* included; unless a change in it was superseded, within the 500 ms, by   *)
(* one in another tab.                                                     *)
(* (onValuesChange, handleSubmit, reset and setFieldErrors of Descriptions)*)
BadgesCountErrors ==
  timers = {} /\ submits = 0 => \A s \in Sections \ overlooked : Counted(s)

(* The shape of the state. *)
TypeOK ==
  /\ timers \subseteq [field : Fields, current : BOOLEAN]
  /\ submits \in Nat
  /\ left \in [{"typed", "submits"} -> Nat]
  /\ DOMAIN errorsPerSection = Sections

(* What awaits its count is a section with a debounce, one whose debounce  *)
(* was superseded, or the whole form while an answer is awaited.           *)
CountedWhenQuiet ==
  submits = 0 =>
    \A s \in Sections \ overlooked :
      (\A t \in timers : section[t.field] # s) => Counted(s)
=============================================================================
