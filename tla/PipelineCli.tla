----------------------------- MODULE PipelineCli -----------------------------
(***************************************************************************)
(* The command line of pipeline.mjs: parseCli of cli-contract.mjs, the     *)
(* dispatch to the engine, and what goes to stdout and to the exit status. *)
(* capture-intake.mjs has a smaller grammar of the same kind.              *)
(*                                                                         *)
(* A token is a flag, with or without a value after "=", or a word.  What  *)
(* a value is made of matters only through the checks it meets, so a value *)
(* is one of a few kinds.                                                  *)
(***************************************************************************)
EXTENDS Naturals, Sequences

CONSTANT CommandLines  \* the argument vectors that are tried

Flag(name) == [kind |-> "flag", name |-> name, value |-> "none"]
FlagIs(name, value) == [kind |-> "flag", name |-> name, value |-> value]
Word(value) == [kind |-> "word", name |-> "none", value |-> value]
Command(name) == [kind |-> "word", name |-> name, value |-> "id"]

Tokens == [kind : {"flag", "word"}, name : STRING, value : STRING]
ASSUME CliAssumption == CommandLines \subseteq Seq(Tokens)

(* A flag taken as a value begins with a dash. *)
ValueOf(token) == IF token.kind = "flag" THEN "dashed" ELSE token.value

COMMAND_SPEC ==
  [approve |-> {"plan", "config"}, start |-> {"run"}, resume |-> {"run"},
   status |-> {"run"}, authorize |-> {"run", "action"}]
PIPELINE_COMMANDS == DOMAIN COMMAND_SPEC

VARIABLES argv,   \* the call
          answer  \* objects and lines on stdout, and the exit status

cliVars == <<argv, answer>>
Waiting == [objects |-> 0, lines |-> 0, exit |-> 8]

-----------------------------------------------------------------------------
(* One pass over the tokens: a flag is known, given once, and followed by  *)
(* its value, whatever that looks like; --json takes none.                 *)
Refused == [ok |-> FALSE, wants |-> "none", given |-> {}]
takeToken(spec, acc, token) ==
  LET known == token.kind = "flag" /\ token.name \in spec \cup {"json"}
      again == \E g \in acc.given : g[1] = token.name
      bare == token.value = "none"
  IN IF ~acc.ok THEN acc
     ELSE IF acc.wants # "none"
     THEN [acc EXCEPT !.wants = "none", !.given = @ \cup {<<acc.wants, ValueOf(token)>>}]
     ELSE IF ~known \/ again \/ (token.name = "json" /\ ~bare) THEN Refused
     ELSE IF bare /\ token.name # "json" THEN [acc EXCEPT !.wants = token.name]
     ELSE [acc EXCEPT !.given = @ \cup {<<token.name, token.value>>}]

(* assertSafeId, the list of actions, assertAbsolutePath. *)
\* Mutant: only an empty value is refused.
assertAnyValue(name, value) == value # "empty"
assertValue(name, value) ==
  /\ name = "run" => value \in {"id", "action"}
  /\ name = "action" => value = "action"
  /\ name \in {"plan", "config"} => value = "path"

readTokens(spec, tokens) ==
  LET read[k \in 0..Len(tokens)] ==
        IF k = 0 THEN [ok |-> TRUE, wants |-> "none", given |-> {}]
                 ELSE takeToken(spec, read[k - 1], tokens[k])
  IN read[Len(tokens)]
parseCli(tokens) ==
  IF tokens = <<>> \/ tokens[1].kind = "flag" \/ tokens[1].name \notin PIPELINE_COMMANDS THEN Refused
  ELSE LET spec == COMMAND_SPEC[tokens[1].name]
           out == readTokens(spec, Tail(tokens))
       IN IF /\ out.ok /\ out.wants = "none"
             /\ \A f \in spec : \E g \in out.given : g[1] = f
             /\ \A g \in out.given : assertValue(g[1], g[2])
          THEN out ELSE Refused

(* --json as main looks for it before it parses, and as parseCli found it. *)
includesJson(tokens) == \E i \in 1..Len(tokens) : tokens[i] = Flag("json")
jsonFlag(parsed) == \E g \in parsed.given : g[1] = "json"

-----------------------------------------------------------------------------
(* Every error of the libraries carries a code of the table, but those of  *)
(* the checkpoint store, whose scale is another; the rest is a crash.      *)
Errors == {[name |-> "typed", code |-> c] : c \in 2..7}
          \cup {[name |-> "CheckpointError", code |-> c] : c \in 1..2}
          \cup {[name |-> "other", code |-> 1]}
toExitCode(e) == CASE e.name = "CheckpointError" -> IF e.code = 2 THEN 6 ELSE 2
                   [] OTHER -> e.code

say(json, exit) == [objects |-> IF json THEN 1 ELSE 0, lines |-> IF json THEN 0 ELSE 1,
                    exit |-> exit]
fail(json, e) == answer' = [say(json, toExitCode(e)) EXCEPT !.lines = 0]

(* main: a call that does not parse fails with the mode it was looking for *)
(* in argv; any other is dispatched, and the engine succeeds, with an exit *)
(* code of its own or none, or throws.                                     *)
usageError == [name |-> "typed", code |-> 2]
main ==
  /\ answer = Waiting /\ UNCHANGED argv
  /\ LET parsed == parseCli(argv)
     IN IF ~parsed.ok THEN fail(includesJson(argv), usageError)
        ELSE \/ \E e \in Errors : fail(jsonFlag(parsed), e)
             \/ \E code \in {0, 4, 5} : answer' = say(jsonFlag(parsed), code)

CliInit == argv \in CommandLines /\ answer = Waiting

-----------------------------------------------------------------------------
(* A caller that asked for JSON gets exactly one object on stdout and      *)
(* nothing else, whether the call was refused, failed or went through, and *)
(* one that did not gets none: the mode looked up in argv for a call that  *)
(* does not parse and the mode parseCli found are the same.                *)
OneAnswer ==
  answer # Waiting =>
    answer.objects = (IF includesJson(argv) THEN 1 ELSE 0) /\ (includesJson(argv) => answer.lines = 0)
=============================================================================
