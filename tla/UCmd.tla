-------------------------------- MODULE UCmd --------------------------------
(***************************************************************************)
(* ucmd (src/src/ucmd.c): sends a command to U-Boot and reads the console  *)
(* until the expected string goes by. The target prints whatever it wants, *)
(* whenever it wants; the port may disappear, and then every read returns  *)
(* at once and s_getc hands out a NUL (src/lib/serial_posix.c:376-387).    *)
(***************************************************************************)
EXTENDS Naturals, Sequences

CONSTANTS
  Chars,       \* what the target prints
  NUL,         \* what s_getc returns when a read yields nothing
  Expected,    \* the string to wait for (option -e)
  MAX_OUT      \* how much the target prints, at most

ASSUME UCmdAssumption ==
  /\ NUL \notin Chars
  /\ Expected \in Seq(Chars)
  /\ MAX_OUT \in Nat

VARIABLES
  pc,          \* where main stands
  exit,        \* what main reported
  match_idx,   \* how much of the expected string get_response has matched
  seen,        \* the last characters it examined, one more than it expects
  line,        \* what the target printed and nobody read
  printed,     \* how much that was, in all
  hung         \* the port is gone

mainVars == <<pc, exit>>
responseVars == <<match_idx, seen>>
consoleVars == <<line, printed, hung>>
vars == <<mainVars, responseVars, consoleVars>>

len == Len(Expected)

Init ==
  /\ pc = "open" /\ exit = "running"
  /\ match_idx = 0 /\ seen = <<>>
  /\ line = <<>> /\ printed = 0 /\ hung = FALSE

-----------------------------------------------------------------------------
(* main: each call may fail, and then the port is closed, if it was open,  *)
(* and the failure returned.                                               *)
Fails(here) ==
  /\ pc = here
  /\ pc' = "exited" /\ exit' = "failed"
  /\ UNCHANGED <<responseVars, consoleVars>>

\* s_open and s_configure.
OpenPort ==
  /\ pc = "open"
  /\ pc' = "flush"
  /\ UNCHANGED <<exit, responseVars, consoleVars>>

\* s_flush discards what has arrived; the rest is still on its way.
FlushPort ==
  /\ pc = "flush"
  /\ \E n \in 0 .. Len(line) : line' = SubSeq(line, n + 1, Len(line))
  /\ pc' = "send"
  /\ UNCHANGED <<exit, responseVars, printed, hung>>

send_cmd ==
  /\ pc = "send" /\ ~hung
  /\ pc' = "response"
  /\ UNCHANGED <<exit, responseVars, consoleVars>>

\* s_close fails on a port that is gone.
ClosePort ==
  /\ pc = "close" /\ ~hung
  /\ pc' = "exited" /\ exit' = "ok"
  /\ UNCHANGED <<responseVars, consoleVars>>

-----------------------------------------------------------------------------
(* get_response.                                                           *)

\* Mutants of Compare: no reset after a mismatch, or one step back, with and
\* without a floor.
CompareBelowZero(c) == match_idx' = IF c = Expected[match_idx + 1] THEN match_idx + 1 ELSE match_idx - 1
CompareNoReset(c) == match_idx' = IF c = Expected[match_idx + 1] THEN match_idx + 1 ELSE match_idx
CompareStepBack(c) ==
  match_idx' = IF c = Expected[match_idx + 1] THEN match_idx + 1
               ELSE IF match_idx > 0 THEN match_idx - 1 ELSE 0

\* A character that does not continue the match is not looked at again.
Compare(c) == match_idx' = IF c = Expected[match_idx + 1] THEN match_idx + 1 ELSE 0

Window(s) == IF Len(s) > len + 1 THEN Tail(s) ELSE s

Examine(c) ==
  /\ Compare(c)
  /\ seen' = Window(Append(seen, c))

\* Mutant of ReadChar: the input is flushed after a mismatch.
ReadCharAndFlush ==
  /\ pc = "response" /\ match_idx < len
  /\ line # <<>>
  /\ Examine(Head(line))
  /\ line' = IF match_idx' = 0 THEN <<>> ELSE Tail(line)
  /\ UNCHANGED <<mainVars, printed, hung>>

ReadChar ==
  /\ pc = "response" /\ match_idx < len
  /\ line # <<>>
  /\ Examine(Head(line))
  /\ line' = Tail(line)
  /\ UNCHANGED <<mainVars, printed, hung>>

ReadNothing ==
  /\ pc = "response" /\ match_idx < len
  /\ hung /\ line = <<>>
  /\ Examine(NUL)
  /\ UNCHANGED <<mainVars, consoleVars>>

MatchFound ==
  /\ pc = "response" /\ match_idx = len
  /\ pc' = "close"
  /\ UNCHANGED <<exit, responseVars, consoleVars>>

-----------------------------------------------------------------------------
(* The target and the cable.                                               *)
TargetPrints ==
  /\ ~hung /\ printed < MAX_OUT
  /\ \E c \in Chars : line' = Append(line, c)
  /\ printed' = printed + 1
  /\ UNCHANGED <<mainVars, responseVars, hung>>

HangUp ==
  /\ ~hung
  /\ hung' = TRUE /\ line' = <<>>
  /\ UNCHANGED <<mainVars, responseVars, printed>>

ToolStep ==
  \/ OpenPort \/ FlushPort \/ send_cmd \/ ClosePort
  \/ ReadChar \/ ReadNothing \/ MatchFound

ToolFails ==
  \/ \E here \in {"open", "flush", "send", "close"} : Fails(here)
  \/ match_idx < len /\ Fails("response")

\* The program is over.
Over == pc = "exited" /\ UNCHANGED vars

Next == ToolStep \/ ToolFails \/ TargetPrints \/ HangUp \/ Over

Spec == Init /\ [][Next]_vars

(* The tool is a running process; its reads return when there is a byte.   *)
FairSpec == Spec /\ WF_vars(ToolStep)

-----------------------------------------------------------------------------
(* The types of the variables.                                             *)
TypeOK ==
  /\ pc \in {"open", "flush", "send", "response", "close", "exited"}
  /\ exit \in {"running", "ok", "failed"}
  /\ match_idx \in 0 .. len
  /\ seen \in Seq(Chars \cup {NUL}) /\ Len(seen) <= len + 1
  /\ line \in Seq(Chars)
  /\ printed \in 0 .. MAX_OUT
  /\ hung \in BOOLEAN

Last(s, n) == SubSeq(s, Len(s) - n + 1, Len(s))

(* ucmd reports success only after the target printed the whole expected   *)
(* string in one piece; nothing read from a dead port counts               *)
(* (ucmd.c:90-107).                                                        *)
MatchIsReal ==
  pc = "close" \/ exit = "ok" => Len(seen) >= len /\ Last(seen, len) = Expected

\* The characters that do not occur in the expected string, such as the end
\* of line ahead of a prompt.
Separators == (Chars \cup {NUL}) \ {Expected[i] : i \in 1 .. len}

(* The expected string is found when a character that does not occur in it *)
(* goes before it: then no partial match can swallow its beginning         *)
(* (ucmd.c:97-100).                                                        *)
FoundAfterSeparator ==
  Len(seen) = len + 1 /\ Head(seen) \in Separators /\ Tail(seen) = Expected
    => match_idx = len

(* What the usage text says: ucmd returns on a match (ucmd.c:133). The     *)
(* code misses one that begins inside a partial match.                     *)
FoundAnywhere ==
  Len(seen) >= len /\ Last(seen, len) = Expected => match_idx = len

(* A prompt at the start of a line gets the tool to its end, unless the    *)
(* port goes away under it (ucmd.c:90-107).                                *)
PromptComing ==
  /\ pc = "response"
  /\ \E i \in 1 .. Len(line) - len :
       line[i] \in Separators /\ SubSeq(line, i + 1, i + len) = Expected
PromptEndsWait == PromptComing ~> (pc = "exited" \/ hung)

-----------------------------------------------------------------------------
(* The inductive invariant behind MatchIsReal and FoundAfterSeparator      *)
(* (proved in UCmdProofs).                                                 *)

\* The characters seen, the latest first.
Back(i) == seen[Len(seen) - i]

\* What is matched is what was seen last.
PartialMatch ==
  /\ match_idx <= Len(seen)
  /\ \A i \in 0 .. match_idx - 1 : Back(i) = Expected[match_idx - i]

\* A separator and the first k characters of the expected string after it
\* leave get_response with a match of k.
Fresh ==
  \A k \in 0 .. len :
    /\ k + 1 <= Len(seen)
    /\ Back(k) \in Separators
    /\ \A i \in 0 .. k - 1 : Back(i) = Expected[k - i]
    => match_idx = k

IInv ==
  /\ TypeOK /\ PartialMatch /\ Fresh
  /\ pc = "close" \/ exit = "ok" => match_idx = len
=============================================================================
