--------------------------- MODULE ArgumentRules ---------------------------
(***************************************************************************)
(* host/launch.go, BuildArguments: the extra native arguments of a session *)
(* are accepted if every one of them is a listed option, with its value,   *)
(* and none sets what a typed field of the request sets.  It is applied to *)
(* the same command lines as the loop of LaunchPlan.                       *)
(***************************************************************************)
EXTENDS LaunchPlan

CONSTANTS
  Cuts,  \* Cuts[t]: strings.Cut(t, "=") of an argument, [name, value, attached]
  Rules  \* Rules[name]: [takesValue, conflicts], the values that conflict with a typed field

\* strings.Cut returns "" behind a separator that is not there.
ASSUME RulesAssumption ==
  /\ DOMAIN Cuts = Tokens
  /\ \A t \in Tokens : Cuts[t].attached \in BOOLEAN /\ (~Cuts[t].attached => Cuts[t].value = "")
  /\ \A name \in DOMAIN Rules : Rules[name].takesValue \in BOOLEAN

\* Fault: the value is the text after "=" also when the next argument has it.
ValueAttached(arguments, i) == Cuts[arguments[i]].value

Detached(argument) == Rules[Cuts[argument].name].takesValue /\ ~Cuts[argument].attached

Value(arguments, i) ==
  IF Detached(arguments[i]) THEN arguments[i + 1] ELSE Cuts[arguments[i]].value

Unsupported(argument) ==
  LET cut == Cuts[argument]
  IN  cut.name \notin DOMAIN Rules \/ (cut.attached /\ ~Rules[cut.name].takesValue)

OptionEnd(arguments, i) == IF Detached(arguments[i]) THEN i + 1 ELSE i

\* The option at i in front of what the loop appends later; an error leaves nothing.
WithOption(arguments, i, later) ==
  IF later.err = "none"
  THEN [later EXCEPT !.result = SubSeq(arguments, i, OptionEnd(arguments, i)) \o @]
  ELSE later

\* from[i]: what the loop appends from index i on, and the error that ends it
BuildArguments(arguments) ==
  LET n == Len(arguments)
      Error(kind) == [result |-> <<>>, err |-> kind]
      from[i \in 1..(n + 1)] ==
        IF i = n + 1 THEN Error("none")
        ELSE IF Unsupported(arguments[i]) THEN Error("unsupported")
        ELSE IF Detached(arguments[i]) /\ i = n THEN Error("requires a value")
        ELSE IF Value(arguments, i) \in Rules[Cuts[arguments[i]].name].conflicts THEN Error("conflict")
        ELSE WithOption(arguments, i, from[OptionEnd(arguments, i) + 1])
  IN  from[1]

-----------------------------------------------------------------------------
(* Properties *)

\* What the native command reads as one option that leaves the typed fields alone.
Harmless(option) ==
  LET cut == Cuts[option[1]]
  IN  /\ cut.name \in DOMAIN Rules
      /\ IF Rules[cut.name].takesValue
         THEN IF cut.attached THEN Len(option) = 1 /\ cut.value \notin Rules[cut.name].conflicts
              ELSE Len(option) = 2 /\ option[2] \notin Rules[cut.name].conflicts
         ELSE Len(option) = 1 /\ ~cut.attached /\ "" \notin Rules[cut.name].conflicts

(* BuildArguments accepts a command line exactly if it is made of harmless *)
(* options, then unchanged, and otherwise returns nothing of it: no way of *)
(* splitting options and values, an option that looks like a value or a    *)
(* value that looks like an option included, gets around a typed field or  *)
(* loses an argument.                                                      *)
TypedFieldsProtected ==
  plan.outcome = "none" /\ index = 1 =>
    LET n == Len(args)
        built == BuildArguments(args)
        Splits(starts) ==
          \A i \in starts : Harmless(SubSeq(args, i, Min({j \in starts : j > i} \cup {n + 1}) - 1))
    IN  IF \E starts \in SUBSET (1..n) : (n > 0 => 1 \in starts) /\ Splits(starts)
        THEN built = [result |-> args, err |-> "none"]
        ELSE built.result = <<>> /\ built.err # "none"
=============================================================================
