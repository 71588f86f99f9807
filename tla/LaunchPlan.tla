----------------------------- MODULE LaunchPlan -----------------------------
(***************************************************************************)
(* host/launch.go, ClassifiedInteractivePlan: how a wrapper's command line *)
(* is split into its own flags (groups and peer name) and the native       *)
(* command line, and which environment the native process gets.            *)
(*                                                                         *)
(* The loop is a state machine, one action per branch.  It is compared     *)
(* with Role, which says of every argument what it is without the loop's   *)
(* index.  An argument is one of a small vocabulary; the text after "=" of *)
(* an attached flag, and whether a text is blank, are given by tables.     *)
(***************************************************************************)
EXTENDS Naturals, Sequences, SequencesExt, FiniteSets

CONSTANTS
  Tokens,         \* the vocabulary of arguments
  MaxArgs,        \* bound: length of a command line
  Blank,          \* the texts that TrimSpace empties
  ConsumesValue,  \* native options that take the next argument
  Passthrough,    \* native options that make the invocation native
  Environments,   \* environments, sequences of <<key, value>>
  Identities      \* records [session, name]

EndMark == "--"
GroupFlag == {"-g", "--group"}
NameFlag == {"-n", "--peer-name"}
\* the attached flags of the vocabulary, with the text after "="
GroupAttached == [t \in {"-g=a", "-g="} |-> IF t = "-g=a" THEN "a" ELSE ""]
NameAttached == [t \in {"-n=b", "-n="} |-> IF t = "-n=b" THEN "b" ELSE ""]
WrapperFlags == GroupFlag \cup NameFlag \cup DOMAIN GroupAttached \cup DOMAIN NameAttached

GroupsEnv == "SESSIONBUS_GROUPS"
SessionIDEnv == "SESSIONBUS_SESSION_ID"
NameEnv == "SESSIONBUS_SESSION_NAME"

ASSUME LaunchPlanAssumption ==
  /\ MaxArgs \in Nat
  /\ "" \in Blank
  /\ (ConsumesValue \cup Passthrough) \cap (WrapperFlags \cup {EndMark}) = {}
  /\ Tokens \subseteq STRING
  /\ \A env \in Environments : env \in Seq(STRING \X Seq(STRING))
  /\ \A id \in Identities : id \in [session : STRING, name : STRING]

VARIABLES
  path, args, environment, identity,  \* the parameters
  index, forwarded, groups, native,
  projectionError,                    \* the flag it complains of, "group" or "name", or "none"
  plan                                \* "none" until the function returns

vars == <<path, args, environment, identity, index, forwarded, groups, native, projectionError, plan>>

Init ==
  /\ path \in {"", "product"}
  /\ args \in SeqOf(Tokens, MaxArgs)
  /\ environment \in Environments
  /\ identity \in Identities
  /\ index = 1 /\ forwarded = <<>> /\ groups = <<>>
  /\ native = FALSE /\ projectionError = "none"
  /\ plan = [outcome |-> "none"]

-----------------------------------------------------------------------------
(* The loop *)

\* The first line: no product to start.
RefusePath ==
  /\ plan.outcome = "none" /\ path = ""
  /\ plan' = [outcome |-> "error", of |-> "path"]
  /\ UNCHANGED <<path, args, environment, identity, index, forwarded, groups, native, projectionError>>

Running == plan.outcome = "none" /\ path # ""
Looping == Running /\ index <= Len(args)
Argument == args[index]

HasValue == index < Len(args) /\ args[index + 1] \notin Blank

EndOfOptions ==
  /\ Looping /\ Argument = EndMark
  /\ forwarded' = forwarded \o SubSeq(args, index, Len(args))
  /\ index' = Len(args) + 1
  /\ UNCHANGED <<path, args, environment, identity, groups, native, projectionError, plan>>

TakeGroup ==
  /\ Looping /\ Argument \in GroupFlag
  /\ IF HasValue
     THEN groups' = Append(groups, args[index + 1]) /\ index' = index + 2 /\ UNCHANGED projectionError
     ELSE projectionError' = "group" /\ index' = index + 1 /\ UNCHANGED groups
  /\ UNCHANGED <<path, args, environment, identity, forwarded, native, plan>>

TakeGroupAttached ==
  /\ Looping /\ Argument \in DOMAIN GroupAttached
  /\ IF GroupAttached[Argument] \in Blank
     THEN projectionError' = "group" /\ UNCHANGED groups
     ELSE groups' = Append(groups, GroupAttached[Argument]) /\ UNCHANGED projectionError
  /\ index' = index + 1
  /\ UNCHANGED <<path, args, environment, identity, forwarded, native, plan>>

TakeName ==
  /\ Looping /\ Argument \in NameFlag
  /\ IF HasValue
     THEN /\ identity' = [identity EXCEPT !.name = args[index + 1]]
          /\ index' = index + 2
          /\ UNCHANGED projectionError
     ELSE projectionError' = "name" /\ index' = index + 1 /\ UNCHANGED identity
  /\ UNCHANGED <<path, args, environment, forwarded, groups, native, plan>>

TakeNameAttached ==
  /\ Looping /\ Argument \in DOMAIN NameAttached
  /\ identity' = [identity EXCEPT !.name = NameAttached[Argument]]
  /\ projectionError' = IF NameAttached[Argument] \in Blank THEN "name" ELSE projectionError
  /\ index' = index + 1
  /\ UNCHANGED <<path, args, environment, forwarded, groups, native, plan>>

\* Fault: the value of a native option is looked at like any argument.
LastForwardedUnprotected == index

\* A native argument goes with the value it consumes.
LastForwarded ==
  IF Argument \in ConsumesValue /\ index < Len(args) THEN index + 1 ELSE index

Forward ==
  /\ Looping /\ Argument \notin WrapperFlags \cup {EndMark}
  /\ native' = (native \/ Argument \in Passthrough)
  /\ forwarded' = forwarded \o SubSeq(args, index, LastForwarded)
  /\ index' = LastForwarded + 1
  /\ UNCHANGED <<path, args, environment, identity, groups, projectionError, plan>>

-----------------------------------------------------------------------------
(* The environment and the returns.  A value is a sequence of texts: none  *)
(* for the empty string, one for a text, the JSON array for the groups.    *)

\* The elements of a sequence at some positions, in their order.
Selected(s, P) ==
  [k \in 1..Cardinality(P) |-> s[CHOOSE i \in P : Cardinality({j \in P : j <= i}) = k]]

Text(s) == IF s = "" THEN <<>> ELSE <<s>>
Encoded(list) == <<"[">> \o list \o <<"]">>

\* Fault: an inherited entry is left in front of the new one.
replaceEnvAppends(env, key, value) ==
  IF value = <<>> THEN env ELSE Append(env, <<key, value>>)

replaceEnv(env, key, value) ==
  LET kept == Selected(env, {i \in DOMAIN env : env[i][1] # key})
  IN  IF value = <<>> THEN kept ELSE Append(kept, <<key, value>>)

Projected(env) ==
  replaceEnv(replaceEnv(replaceEnv(env, GroupsEnv, Encoded(groups)),
                        SessionIDEnv, Text(identity.session)),
             NameEnv, Text(identity.name))

\* A native invocation is passed on as it came, errors of wrapper flags included;
\* of several errors the last one is left in projectionError.
ReturnPlan ==
  /\ Running /\ index > Len(args)
  /\ plan' =
       IF native THEN [outcome |-> "native", args |-> args, env |-> environment]
       ELSE IF projectionError # "none" THEN [outcome |-> "error", of |-> projectionError]
       ELSE [outcome |-> "plan", args |-> forwarded, env |-> Projected(environment)]
  /\ UNCHANGED <<path, args, environment, identity, index, forwarded, groups, native, projectionError>>

Next ==
  \/ EndOfOptions \/ TakeGroup \/ TakeGroupAttached \/ TakeName \/ TakeNameAttached
  \/ Forward \/ RefusePath \/ ReturnPlan

Spec == Init /\ [][Next]_vars

-----------------------------------------------------------------------------
(* The reference: what each argument is, from its left neighbour's role *)

\* The role of a text that is free to be an argument.
FreeRole(line, i) ==
  LET t == line[i]
      valued == i < Len(line) /\ line[i + 1] \notin Blank
  IN  CASE t = EndMark -> "end"
        [] t \in GroupFlag -> IF valued THEN "group" ELSE "broken"
        [] t \in NameFlag -> IF valued THEN "name" ELSE "broken"
        [] t \in DOMAIN GroupAttached ->
             IF GroupAttached[t] \in Blank THEN "broken" ELSE "groupAttached"
        [] t \in DOMAIN NameAttached ->
             IF NameAttached[t] \in Blank THEN "broken" ELSE "nameAttached"
        [] t \in ConsumesValue -> "option"
        [] OTHER -> "native"

RoleOf(line) ==
  LET role[i \in 0..Len(line)] ==
        IF i = 0 THEN "start"
        ELSE CASE role[i - 1] \in {"end", "rest"} -> "rest"
               [] role[i - 1] = "group" -> "groupValue"
               [] role[i - 1] = "name" -> "nameValue"
               [] role[i - 1] = "option" -> "optionValue"
               [] OTHER -> FreeRole(line, i)
  IN  [i \in 1..Len(line) |-> role[i]]

Role == RoleOf(args)

Kept == {"end", "rest", "option", "optionValue", "native"}
Positions(roles) == {i \in DOMAIN Role : Role[i] \in roles}
IsNative == \E i \in Positions({"option", "native"}) : args[i] \in Passthrough

-----------------------------------------------------------------------------
(* Properties *)

\* The flag that a broken argument is an error of
Complaint(i) == IF args[i] \in GroupFlag \cup DOMAIN GroupAttached THEN "group" ELSE "name"

(* Without a product nothing is planned.  A passthrough invocation is      *)
(* returned unchanged; an error is reported only for one that is none and  *)
(* has a wrapper flag without a value, and it is the one of the last such  *)
(* flag; any other invocation gives the native process exactly the         *)
(* arguments that are not the wrapper's, in their order: all after "--",   *)
(* and a native option's value even if it looks like a wrapper flag.       *)
ArgumentsClassified ==
  LET broken == Positions({"broken"})
  IN  plan.outcome # "none" =>
        plan = IF path = "" THEN [outcome |-> "error", of |-> "path"]
               ELSE IF IsNative THEN [outcome |-> "native", args |-> args, env |-> environment]
               ELSE IF broken # {} THEN [outcome |-> "error", of |-> Complaint(Max(broken))]
               ELSE [outcome |-> "plan", args |-> Selected(args, Positions(Kept)), env |-> plan.env]

Owned == {GroupsEnv, SessionIDEnv, NameEnv}
Values(env, key) == Selected(env, {i \in DOMAIN env : env[i][1] = key})
Others(env) == Selected(env, {i \in DOMAIN env : env[i][1] \notin Owned})

\* What an argument says of the groups or the name.
ValueOf(i) ==
  CASE Role[i] = "groupAttached" -> GroupAttached[args[i]]
    [] Role[i] = "nameAttached" -> NameAttached[args[i]]
    [] OTHER -> args[i]

(* A plan's environment names the owned variables once and from this       *)
(* invocation, whatever was inherited, and leaves the others alone: all    *)
(* groups in order, the last name given.                                   *)
EnvironmentOwned ==
  plan.outcome = "plan" =>
    LET given == Positions({"groupValue", "groupAttached"})
        names == Positions({"nameValue", "nameAttached"})
        entry(key, value) == IF value = <<>> THEN <<>> ELSE <<<<key, value>>>>
    IN  /\ Values(plan.env, GroupsEnv) =
             entry(GroupsEnv, Encoded(Selected([i \in given |-> ValueOf(i)], given)))
        /\ Values(plan.env, SessionIDEnv) = entry(SessionIDEnv, Text(identity.session))
        /\ Values(plan.env, NameEnv) = entry(NameEnv, Text(identity.name))
        /\ names = {} => identity \in Identities
        /\ \A i \in names : (\E j \in names : j > i) \/ identity.name = ValueOf(i)
        /\ Others(plan.env) = Others(environment)
=============================================================================
