---------------------------- MODULE MCFunctions ----------------------------
(* The pure functions against their references, in one run: every command   *)
(* line of up to four arguments over a vocabulary with each class of        *)
(* argument in it, or every short input and pair of ids of a client.        *)
EXTENDS ArgumentRules, McpFrames, TLC

Vocabulary == {"--", "-g", "-g=a", "-g=", "-n", "-n=b", "-n=", " ", "w", "-m", "-h"}

Inherited == {
  <<>>,
  <<<<"SESSIONBUS_GROUPS", <<"old">>>>, <<"PATH", <<"bin">>>>,
    <<"SESSIONBUS_SESSION_NAME", <<"old">>>>>> }

Callers == {[session |-> "s", name |-> "n"], [session |-> "", name |-> ""]}

CutTable == [t \in Vocabulary |->
  CASE t \in {"-g=a", "-g="} -> [name |-> "-g", value |-> GroupAttached[t], attached |-> TRUE]
    [] t \in {"-n=b", "-n="} -> [name |-> "-n", value |-> NameAttached[t], attached |-> TRUE]
    [] OTHER -> [name |-> t, value |-> "", attached |-> FALSE]]

\* -m sets a typed field, -g does with some values, -n never; -h takes no value.
RuleTable == [name \in {"-g", "-n", "-m", "-h"} |->
  [takesValue |-> name # "-h",
   conflicts |-> CASE name = "-m" -> Vocabulary [] name = "-g" -> {"a", "w", "-n"} [] OTHER -> {}]]

\* Two escapes of a lone surrogate decode to the replacement character.
JsonStrings == ("0" :> "0") @@ ("low surrogate" :> "U+FFFD") @@ ("high surrogate" :> "U+FFFD")

MCInit ==
  \/ Init /\ stream = <<>> /\ frames = <<>> /\ rest = <<>> /\ reading = FALSE /\ ids = <<>>
  \/ args = <<>> /\ environment = <<>> /\ Init /\ FramesInit

MCNext == (Next /\ UNCHANGED framesVars) \/ (ReadFrame /\ UNCHANGED vars)

MCSpec == MCInit /\ [][MCNext]_<<vars, framesVars>>
=============================================================================
