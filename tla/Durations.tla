------------------------------ MODULE Durations -----------------------------
(***************************************************************************)
(* The ages on the pages: pkg/kube/util.go, TranslateTimestamp and         *)
(* shortHumanDuration, as a user sees them who loads a page again and      *)
(* again. Time is in half seconds, so that the truncations show. A         *)
(* timestamp comes from another machine, whose clock may be ahead.         *)
(***************************************************************************)
EXTENDS Integers

CONSTANT Ages \* the moments at which the page is loaded, since the timestamp

VARIABLES
  age,   \* the time that has passed since the timestamp
  known, \* whether the timestamp is not the zero time
  shown  \* the text, as a number and its unit

vars == <<age, known, shown>>

ASSUME ConstantsAssumption == Ages \subseteq Int

Unit == [s |-> 2, m |-> 2 * 60, h |-> 2 * 60 * 60, d |-> 2 * 60 * 60 * 24, y |-> 2 * 60 * 60 * 24 * 365]

\* int(d.Seconds()) and its like: the conversion truncates towards zero.
Whole(d, unit) == IF d < 0 THEN -((-d) \div Unit[unit]) ELSE d \div Unit[unit]

In(d, unit) == [n |-> Whole(d, unit), unit |-> unit]

Invalid == [n |-> 0, unit |-> "<invalid>"]

Unknown == [n |-> 0, unit |-> "<unknown>"]

\* Mutant: a clock that is ahead is not tolerated.
shortHumanDuration_Strict(d) ==
  IF d < 0 THEN Invalid
  ELSE IF Whole(d, "s") < 60 THEN In(d, "s")
  ELSE IF Whole(d, "m") < 60 THEN In(d, "m")
  ELSE IF Whole(d, "h") < 24 THEN In(d, "h")
  ELSE IF Whole(d, "h") < 24 * 364 THEN In(d, "d")
  ELSE In(d, "y")

\* Mutant: years begin with twelve months of thirty days.
shortHumanDuration_Months(d) ==
  IF Whole(d, "s") < -1 THEN Invalid
  ELSE IF Whole(d, "s") < 0 THEN [n |-> 0, unit |-> "s"]
  ELSE IF Whole(d, "s") < 60 THEN In(d, "s")
  ELSE IF Whole(d, "m") < 60 THEN In(d, "m")
  ELSE IF Whole(d, "h") < 24 THEN In(d, "h")
  ELSE IF Whole(d, "h") < 24 * 360 THEN In(d, "d")
  ELSE In(d, "y")

shortHumanDuration(d) ==
  IF Whole(d, "s") < -1 THEN Invalid
  ELSE IF Whole(d, "s") < 0 THEN [n |-> 0, unit |-> "s"]
  ELSE IF Whole(d, "s") < 60 THEN In(d, "s")
  ELSE IF Whole(d, "m") < 60 THEN In(d, "m")
  ELSE IF Whole(d, "h") < 24 THEN In(d, "h")
  ELSE IF Whole(d, "h") < 24 * 364 THEN In(d, "d")
  ELSE In(d, "y")

TranslateTimestamp(t, d) == IF t THEN shortHumanDuration(d) ELSE Unknown

Init ==
  /\ age \in {first \in Ages : first <= 0} /\ known \in BOOLEAN
  /\ shown = TranslateTimestamp(known, age)

Reload ==
  /\ age' \in {later \in Ages : later > age}
  /\ shown' = TranslateTimestamp(known, age')
  /\ UNCHANGED known

Next == Reload

Spec == Init /\ [][Next]_vars
-----------------------------------------------------------------------------
\* The least age for which a text stands.
Least(text) == IF text.unit \in DOMAIN Unit THEN text.n * Unit[text.unit] ELSE 0

(***************************************************************************)
(* Every text is the age, rounded down to its unit. A clock that is ahead  *)
(* by less than two seconds ("no more than 2 seconds(excluded)") shows as  *)
(* no age, and only one that is further ahead as an invalid one.           *)
(***************************************************************************)
ShownIsFloor ==
  IF known
    THEN /\ shown = Invalid <=> age <= -2 * Unit["s"]
         /\ shown # Invalid =>
              /\ age < 0 => shown = [n |-> 0, unit |-> "s"]
              /\ age >= 0 => Least(shown) <= age /\ age < Least(shown) + Unit[shown.unit]
    ELSE shown = Unknown

(***************************************************************************)
(* A thing never looks younger when the page is loaded again, through all  *)
(* the changes of unit, with one exception: years begin at 364 days but    *)
(* have 365, so that for one day a thing is 0 years old.                   *)
(***************************************************************************)
NeverYounger ==
  [][\/ Least(shown') >= Least(shown)
     \/ age' >= 364 * Unit["d"] /\ age' < 365 * Unit["d"] /\ shown' = [n |-> 0, unit |-> "y"]]_vars
=============================================================================
