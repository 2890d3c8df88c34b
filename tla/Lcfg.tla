-------------------------------- MODULE Lcfg --------------------------------
(***************************************************************************)
(* The parser of the configuration library (src/lib/lcfg/lcfg_static.c,    *)
(* the part that was lcfg_parser.c): a push-down automaton over the tokens *)
(* of LcfgScanner that collects pairs of a key and a value. The key is the *)
(* path of names and list positions that leads to the value, joined by     *)
(* dots; it is kept as the characters it consists of, since the library    *)
(* takes it apart again by looking for the dots.                           *)
(***************************************************************************)
EXTENDS LcfgScanner, SequencesExt, FiniteSetsExt

VARIABLES
  phase,     \* "open", "scan", "parse" or "done"
  token_t,   \* the token lcfg_scanner_next_token handed out: t in the code
  stack,     \* the state stack
  path,      \* current_path
  values,    \* the pairs found so far
  status     \* what lcfg_parse returns: "running", "ok" or "error"

parserVars == <<phase, token_t, stack, path, values, status>>
lcfgVars == <<scannerVars, parserVars>>

Frame(s) == [s |-> s, list_counter |-> 0]

LcfgInit ==
  /\ ScannerInit
  /\ phase = "open" /\ status = "running"
  /\ token_t = token
  /\ stack = <<Frame("top_level")>> /\ path = <<>> /\ values = <<>>

-----------------------------------------------------------------------------
(* The path and the stack.                                                 *)

Dot == "."
Push(p, name) == (IF p = <<>> THEN p ELSE Append(p, Dot)) \o name

\* A mutant: it is cut off at the first one.
PopFirst(p) ==
  LET dots == {i \in DOMAIN p : p[i] = Dot}
  IN IF dots = {} THEN <<>> ELSE SubSeq(p, 1, Min(dots) - 1)

\* PATH_POP: the path is cut off at its last dot, or altogether.
Pop(p) ==
  LET dots == {i \in DOMAIN p : p[i] = Dot}
  IN IF dots = {} THEN <<>> ELSE SubSeq(p, 1, Max(dots) - 1)

Figure == <<"0", "1", "2", "3", "4", "5", "6", "7", "8", "9">>

\* lcfg_string_cat_uint, for numbers of at most two digits. The loop that
\* counts the digits stops at 10, for which it finds one digit too few: the
\* first is written over the last character of the string. A path never
\* ends where it begins, so that there is one.
CatUint(p, i) ==
  IF i < 10 THEN Append(p, Figure[i + 1])
  ELSE LET size_needed == IF i > 10 THEN 2 ELSE 1
       IN SubSeq(p, 1, Len(p) + size_needed - 2)
            \o <<Figure[(i \div 10) + 1], Figure[(i % 10) + 1]>>

\* PATH_PUSH_INT.
PushInt(p, i) == CatUint(IF p = <<>> THEN p ELSE Append(p, Dot), i)

Top == Last(stack)
In(s) == Top.s = s
Becomes(s) == stack' = [stack EXCEPT ![Len(stack)].s = s]
CountsOn == [stack EXCEPT ![Len(stack)].list_counter = @ + 1]

-----------------------------------------------------------------------------
(* lcfg_parser_run and the loop of lcfg_parser_parse, which looks one      *)
(* token ahead: the next one is read before t is dealt with, and when that *)
(* fails t is lost.                                                        *)

OpenFile ==
  /\ phase = "open"
  /\ phase' = "scan"
  /\ StartScan
  /\ UNCHANGED <<token_t, stack, path, values, status>>

OpenFails ==
  /\ phase = "open"
  /\ phase' = "done" /\ status' = "error"
  /\ error' = TRUE
  /\ UNCHANGED <<bufferVars, state, hex, token, scan, token_t, stack, path, values>>

\* Within lcfg_scanner_next_token, or in lcfg_scanner_init.
ReadToken ==
  /\ phase = "scan"
  /\ Scan
  /\ UNCHANGED parserVars

HasNext == token.type # NoToken

NextToken ==
  /\ phase = "parse" /\ HasNext /\ ~In("invalid")
  /\ phase' = "scan"
  /\ token_t' = token
  /\ StartScan
  /\ UNCHANGED <<stack, path, values, status>>

FirstToken ==
  /\ phase = "scan" /\ scan = "ok" /\ token_t.type = NoToken
  /\ phase' = "parse"
  /\ UNCHANGED <<scannerVars, token_t, stack, path, values, status>>

ScanFails ==
  /\ phase = "scan" /\ scan = "error"
  /\ phase' = "done" /\ status' = "error"
  /\ UNCHANGED <<scannerVars, token_t, stack, path, values>>

Finish ==
  /\ phase = "parse" /\ (~HasNext \/ In("invalid"))
  /\ phase' = "done"
  /\ status' = IF In("top_level") /\ Len(stack) = 1 THEN "ok" ELSE "error"
  /\ UNCHANGED <<scannerVars, token_t, stack, path, values>>

-----------------------------------------------------------------------------
(* The switch over the state on top of the stack, for the token t.         *)

Deal ==
  /\ phase = "scan" /\ scan = "ok" /\ token_t.type # NoToken
  /\ phase' = "parse"
  /\ UNCHANGED <<bufferVars, state, hex, token, scan, token_t, status>>

Is(type) == token_t.type = type

AddValue(key) == values' = Append(values, [key |-> key, value |-> token_t.string])

Name ==
  /\ Deal /\ (In("top_level") \/ In("in_map")) /\ Is("identifier")
  /\ path' = Push(path, token_t.string)
  /\ stack' = Append(stack, Frame("exp_equals"))
  /\ UNCHANGED <<values, error>>

Equals ==
  /\ Deal /\ In("exp_equals") /\ Is("=")
  /\ Becomes("exp_value")
  /\ UNCHANGED <<path, values, error>>

Value ==
  /\ Deal /\ In("exp_value") /\ Is("string")
  /\ AddValue(path)
  /\ stack' = Front(stack) /\ path' = Pop(path)
  /\ UNCHANGED error

OpenList ==
  /\ Deal /\ In("exp_value") /\ Is("[")
  /\ Becomes("in_list")
  /\ UNCHANGED <<path, values, error>>

OpenMap ==
  /\ Deal /\ In("exp_value") /\ Is("{")
  /\ Becomes("in_map")
  /\ UNCHANGED <<path, values, error>>

CloseMap ==
  /\ Deal /\ In("in_map") /\ Is("}")
  /\ stack' = Front(stack) /\ path' = Pop(path)
  /\ UNCHANGED <<values, error>>

Comma ==
  /\ Deal /\ In("in_list") /\ Is(",")
  /\ UNCHANGED <<stack, path, values, error>>

Element ==
  /\ Deal /\ In("in_list") /\ Is("string")
  /\ LET there == PushInt(path, Top.list_counter)
     IN AddValue(there) /\ path' = Pop(there)
  /\ stack' = CountsOn
  /\ UNCHANGED error

Nested ==
  /\ Deal /\ In("in_list") /\ (Is("[") \/ Is("{"))
  /\ path' = PushInt(path, Top.list_counter)
  /\ stack' = Append(CountsOn, Frame(IF Is("[") THEN "in_list" ELSE "in_map"))
  /\ UNCHANGED <<values, error>>

CloseList ==
  /\ Deal /\ In("in_list") /\ Is("]")
  /\ stack' = Front(stack) /\ path' = Pop(path)
  /\ UNCHANGED <<values, error>>

\* The tokens each state expects; all others are an error.
Expected(s) ==
  CASE s = "top_level"  -> {"identifier"}
    [] s = "in_map"     -> {"identifier", "}"}
    [] s = "exp_equals" -> {"="}
    [] s = "exp_value"  -> {"string", "[", "{"}
    [] s = "in_list"    -> {",", "string", "[", "{", "]"}

Unexpected ==
  /\ Deal /\ token_t.type \notin Expected(Top.s)
  /\ Becomes("invalid")
  /\ error' = TRUE
  /\ UNCHANGED <<path, values>>

LcfgNext ==
  \/ OpenFile \/ OpenFails \/ ReadToken \/ NextToken \/ FirstToken
  \/ ScanFails \/ Finish
  \/ Name \/ Equals \/ Value \/ OpenList \/ OpenMap \/ CloseMap
  \/ Comma \/ Element \/ Nested \/ CloseList \/ Unexpected

=============================================================================
