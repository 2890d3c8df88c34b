----------------------------- MODULE UCmdProofs -----------------------------
(***************************************************************************)
(* Proofs about UCmd, for every expected string and every console output.  *)
(***************************************************************************)
EXTENDS UCmd, SequenceTheorems, TLAPS

Seen == Chars \cup {NUL}

LEMMA LenFacts == len \in Nat /\ Expected \in Seq(Chars)
BY UCmdAssumption DEF len

\* What one more character does to the window.
LEMMA WindowFacts ==
  ASSUME NEW s \in Seq(Seen), Len(s) <= len + 1, NEW c \in Seen
  PROVE  /\ Window(Append(s, c)) \in Seq(Seen)
         /\ Len(Window(Append(s, c))) = IF Len(s) <= len THEN Len(s) + 1 ELSE Len(s)
         /\ Window(Append(s, c))[Len(Window(Append(s, c)))] = c
         /\ \A i \in 1 .. Len(Window(Append(s, c))) - 1 :
              Window(Append(s, c))[Len(Window(Append(s, c))) - i] = s[Len(s) - (i - 1)]
<1> DEFINE a == Append(s, c)
<1>1. /\ a \in Seq(Seen) /\ Len(a) = Len(s) + 1 /\ Len(s) \in Nat
      /\ \A i \in 1 .. Len(s) + 1 : a[i] = IF i <= Len(s) THEN s[i] ELSE c
  BY AppendProperties
<1> HIDE DEF a
<1>2. CASE Len(s) <= len
  <2>1. Window(a) = a
    BY <1>1, <1>2, LenFacts DEF Window
  <2>2. \A i \in 1 .. Len(a) - 1 : a[Len(a) - i] = s[Len(s) - (i - 1)]
    BY <1>1
  <2> QED
    BY <1>1, <1>2, <2>1, <2>2 DEF a
<1>3. CASE ~(Len(s) <= len)
  <2>1. Window(a) = Tail(a) /\ a # <<>>
    BY <1>1, <1>3, LenFacts DEF Window
  <2>2. /\ Tail(a) \in Seq(Seen) /\ Len(Tail(a)) = Len(s)
        /\ \A i \in 1 .. Len(s) : Tail(a)[i] = a[i + 1]
    BY <1>1, <2>1
  <2>3. Tail(a)[Len(s)] = c
    BY <1>1, <1>3, <2>2, LenFacts
  <2>4. ASSUME NEW i \in 1 .. Len(s) - 1
        PROVE  Tail(a)[Len(s) - i] = s[Len(s) - (i - 1)]
    <3>1. Len(s) - i \in 1 .. Len(s) /\ Len(s) - i + 1 = Len(s) - (i - 1)
      BY <1>1
    <3> QED
      BY <1>1, <2>2, <3>1
  <2> QED
    BY <1>3, <2>1, <2>2, <2>3, <2>4 DEF a
<1> QED
  BY <1>2, <1>3

\* One more character leaves the bookkeeping of get_response right.
LEMMA ExamineStep ==
  ASSUME IInv, NEW c \in Seen, match_idx < len, Examine(c)
  PROVE  /\ match_idx' \in 0 .. len
         /\ seen' \in Seq(Seen) /\ Len(seen') <= len + 1
         /\ PartialMatch' /\ Fresh'
<1>1. /\ seen \in Seq(Seen) /\ Len(seen) <= len + 1 /\ Len(seen) \in Nat
      /\ match_idx \in 0 .. len /\ PartialMatch /\ Fresh
      /\ match_idx' = IF c = Expected[match_idx + 1] THEN match_idx + 1 ELSE 0
      /\ seen' = Window(Append(seen, c))
  BY DEF IInv, TypeOK, Seen, Examine, Compare
<1>2. /\ seen' \in Seq(Seen)
      /\ Len(seen') = IF Len(seen) <= len THEN Len(seen) + 1 ELSE Len(seen)
      /\ seen'[Len(seen')] = c
      /\ \A i \in 1 .. Len(seen') - 1 : seen'[Len(seen') - i] = seen[Len(seen) - (i - 1)]
  BY <1>1, WindowFacts
<1>3. Back(0)' = c /\ \A i \in 1 .. Len(seen') - 1 : Back(i)' = Back(i - 1)
  BY <1>1, <1>2, LenFacts DEF Back
<1>4. Len(seen') \in Nat /\ Len(seen') <= len + 1 /\ len \in Nat
  BY <1>1, <1>2, LenFacts
<1>5. match_idx' \in 0 .. len
  BY <1>1, <1>4
<1>6. PartialMatch'
  <2>1. CASE c = Expected[match_idx + 1]
    <3>1. match_idx' = match_idx + 1 /\ match_idx' <= Len(seen')
      BY <1>1, <1>2, <1>4, <2>1 DEF PartialMatch
    <3>2. ASSUME NEW i \in 0 .. match_idx' - 1
          PROVE  Back(i)' = Expected[match_idx' - i]
      <4>1. CASE i = 0
        BY <1>1, <1>3, <2>1, <3>1, <4>1
      <4>2. CASE i # 0
        <5>1. i \in 1 .. Len(seen') - 1 /\ i - 1 \in 0 .. match_idx - 1
              /\ match_idx - (i - 1) = match_idx' - i
          BY <1>1, <1>4, <3>1, <4>2
        <5> QED
          BY <1>1, <1>3, <5>1 DEF PartialMatch
      <4> QED
        BY <4>1, <4>2
    <3> QED
      BY <3>1, <3>2 DEF PartialMatch
  <2>2. CASE c # Expected[match_idx + 1]
    BY <1>1, <1>4, <2>2 DEF PartialMatch
  <2> QED
    BY <2>1, <2>2
<1>7. Fresh'
  <2> SUFFICES ASSUME NEW k \in 0 .. len, k + 1 <= Len(seen'), Back(k)' \in Separators,
                      \A i \in 0 .. k - 1 : Back(i)' = Expected[k - i]
               PROVE  match_idx' = k
    BY DEF Fresh, Separators
  <2>1. CASE k = 0
    <3>1. c \notin {Expected[i] : i \in 1 .. len}
      BY <1>3, <2>1 DEF Separators
    <3>2. match_idx + 1 \in 1 .. len
      BY <1>1, <1>4
    <3> QED
      BY <1>1, <2>1, <3>1, <3>2
  <2>2. CASE k # 0
    <3>1. k - 1 \in 0 .. len /\ k \in 1 .. Len(seen') - 1 /\ (k - 1) + 1 <= Len(seen)
      BY <1>1, <1>2, <1>4, <2>2
    <3>2. Back(k - 1) \in Separators
      BY <1>3, <3>1
    <3>3. ASSUME NEW i \in 0 .. (k - 1) - 1
          PROVE  Back(i) = Expected[(k - 1) - i]
      <4>1. i + 1 \in 0 .. k - 1 /\ i + 1 \in 1 .. Len(seen') - 1 /\ (i + 1) - 1 = i
            /\ k - (i + 1) = (k - 1) - i
        BY <1>4, <3>1
      <4>2. Back(i + 1)' = Back(i)
        BY <1>3, <4>1
      <4> QED
        BY <4>1, <4>2
    <3>4. match_idx = k - 1
      BY <1>1, <3>1, <3>2, <3>3 DEF Fresh
    <3>5. c = Expected[k]
      BY <1>3, <2>2
    <3> QED
      BY <1>1, <3>4, <3>5
  <2> QED
    BY <2>1, <2>2
<1> QED
  BY <1>2, <1>4, <1>5, <1>6, <1>7

LEMMA InitIInv == Init => IInv
<1> SUFFICES ASSUME Init PROVE IInv
  OBVIOUS
<1>1. /\ seen = <<>> /\ line = <<>> /\ match_idx = 0 /\ printed = 0 /\ hung = FALSE
      /\ pc = "open" /\ exit = "running"
  BY DEF Init
<1>2. Len(seen) = 0 /\ len \in Nat /\ MAX_OUT \in Nat
  BY <1>1, LenFacts, UCmdAssumption
<1>3. TypeOK
  <2>1. seen \in Seq(Chars \cup {NUL}) /\ line \in Seq(Chars)
    BY <1>1
  <2>2. match_idx \in 0 .. len /\ printed \in 0 .. MAX_OUT /\ Len(seen) <= len + 1
    BY <1>1, <1>2
  <2> QED
    BY <1>1, <2>1, <2>2 DEF TypeOK
<1>4. PartialMatch
  BY <1>1, <1>2 DEF PartialMatch
<1>5. Fresh
  BY <1>2 DEF Fresh
<1> QED
  BY <1>1, <1>3, <1>4, <1>5 DEF IInv

LEMMA NextIInv == IInv /\ [Next]_vars => IInv'
<1> SUFFICES ASSUME IInv, [Next]_vars PROVE IInv'
  OBVIOUS
<1>1. TypeOK /\ PartialMatch /\ Fresh /\ len \in Nat
  BY LenFacts DEF IInv
\* Steps that do not look at a character.
<1>2. ASSUME UNCHANGED responseVars, line' \in Seq(Chars), printed' \in 0 .. MAX_OUT,
             hung' \in BOOLEAN,
             pc' \in {"open", "flush", "send", "response", "close", "exited"},
             exit' \in {"running", "ok", "failed"},
             pc' = "close" \/ exit' = "ok" => match_idx = len
      PROVE  IInv'
  BY <1>1, <1>2 DEF IInv, TypeOK, PartialMatch, Fresh, Back, responseVars
\* Steps that do.
<1>3. ASSUME NEW c \in Seen, match_idx < len, Examine(c), UNCHANGED mainVars,
             line' \in Seq(Chars), UNCHANGED <<printed, hung>>
      PROVE  IInv'
  <2>1. /\ match_idx' \in 0 .. len /\ seen' \in Seq(Chars \cup {NUL})
        /\ Len(seen') <= len + 1 /\ PartialMatch' /\ Fresh'
    BY <1>3, ExamineStep DEF Seen
  <2>2. pc' = pc /\ exit' = exit /\ pc # "close" /\ exit # "ok"
    BY <1>1, <1>3 DEF IInv, mainVars
  <2> QED
    BY <1>1, <1>3, <2>1, <2>2 DEF IInv, TypeOK
<1>4. CASE ToolStep
  <2>1. CASE OpenPort \/ send_cmd \/ ClosePort \/ MatchFound
    BY <1>1, <1>2, <2>1
       DEF OpenPort, send_cmd, ClosePort, MatchFound, consoleVars, IInv, TypeOK
  <2>2. CASE FlushPort
    <3>1. line' \in Seq(Chars)
      <4>1. PICK n \in 0 .. Len(line) : line' = SubSeq(line, n + 1, Len(line))
        BY <2>2 DEF FlushPort
      <4> QED
        BY <1>1, <4>1 DEF TypeOK
    <3> QED
      BY <1>1, <1>2, <2>2, <3>1 DEF FlushPort, IInv, TypeOK
  <2>3. CASE ReadChar
    <3>1. Head(line) \in Seen /\ Tail(line) \in Seq(Chars)
      BY <1>1, <2>3 DEF ReadChar, TypeOK, Seen
    <3> QED
      BY <1>3, <2>3, <3>1 DEF ReadChar
  <2>4. CASE ReadNothing
    BY <1>1, <1>3, <2>4 DEF ReadNothing, consoleVars, Seen, TypeOK
  <2> QED
    BY <1>4, <2>1, <2>2, <2>3, <2>4 DEF ToolStep
<1>5. CASE ToolFails
  <2>1. PICK here \in {"open", "flush", "send", "response", "close"} : Fails(here)
    BY <1>5 DEF ToolFails
  <2> QED
    BY <1>1, <1>2, <2>1 DEF Fails, consoleVars, TypeOK
<1>6. CASE TargetPrints
  <2>1. line' \in Seq(Chars) /\ printed' \in 0 .. MAX_OUT
    BY <1>1, <1>6, UCmdAssumption DEF TargetPrints, TypeOK
  <2> QED
    BY <1>1, <1>2, <1>6, <2>1 DEF TargetPrints, mainVars, IInv, TypeOK
<1>7. CASE HangUp
  BY <1>1, <1>2, <1>7 DEF HangUp, mainVars, IInv, TypeOK
<1>8. CASE Over \/ UNCHANGED vars
  BY <1>1, <1>2, <1>8 DEF Over, vars, mainVars, consoleVars, IInv, TypeOK
<1> QED
  BY <1>4, <1>5, <1>6, <1>7, <1>8 DEF Next

(* The inductive invariant holds in every reachable state.                 *)
THEOREM Invariance == Spec => []IInv
<1>1. Init => IInv
  BY InitIInv
<1>2. IInv /\ [Next]_vars => IInv'
  BY NextIInv
<1> QED
  BY <1>1, <1>2, PTL DEF Spec

(* The variables keep their types.                                         *)
THEOREM TypeCorrect == Spec => []TypeOK
<1>1. IInv => TypeOK
  BY DEF IInv
<1> QED
  BY <1>1, Invariance, PTL

(* A reported match is the whole expected string, read in one piece.       *)
THEOREM MatchReal == Spec => []MatchIsReal
<1>1. ASSUME IInv, pc = "close" \/ exit = "ok"
      PROVE  Len(seen) >= len /\ Last(seen, len) = Expected
  <2>1. /\ seen \in Seq(Seen) /\ Len(seen) \in Nat /\ match_idx = len /\ len \in Nat
        /\ len <= Len(seen) /\ \A i \in 0 .. len - 1 : Back(i) = Expected[len - i]
    BY <1>1, LenFacts DEF IInv, TypeOK, PartialMatch, Seen
  <2>2. /\ Last(seen, len) \in Seq(Seen) /\ Len(Last(seen, len)) = len
        /\ \A j \in 1 .. len : Last(seen, len)[j] = seen[Len(seen) - len + j]
    <3>1. Len(seen) - len + 1 \in Nat \ {0}
      BY <2>1
    <3> QED
      BY <2>1, <3>1 DEF Last
  <2>3. ASSUME NEW j \in 1 .. len
        PROVE  Last(seen, len)[j] = Expected[j]
    <3>1. len - j \in 0 .. len - 1 /\ len - (len - j) = j
          /\ Len(seen) - (len - j) = Len(seen) - len + j
      BY <2>1
    <3> QED
      BY <2>1, <2>2, <3>1 DEF Back
  <2>4. Expected \in Seq(Seen) /\ Len(Expected) = len
    BY LenFacts DEF Seen, len
  <2> QED
    BY <2>1, <2>2, <2>3, <2>4, SeqEqual
<1> QED
  BY <1>1, Invariance, PTL DEF MatchIsReal

(* The expected string after a separator is always recognised.             *)
THEOREM SeparatedFound == Spec => []FoundAfterSeparator
<1>1. ASSUME IInv, Len(seen) = len + 1, Head(seen) \in Separators, Tail(seen) = Expected
      PROVE  match_idx = len
  <2>1. seen \in Seq(Seen) /\ len \in Nat /\ seen # <<>>
    BY <1>1, LenFacts DEF IInv, TypeOK, Seen
  <2>2. Back(len) \in Separators
    BY <1>1, <2>1 DEF Back
  <2>3. ASSUME NEW i \in 0 .. len - 1 PROVE Back(i) = Expected[len - i]
    <3>1. len - i \in 1 .. len /\ Len(seen) - i = (len - i) + 1
      BY <1>1, <2>1
    <3>2. Len(Tail(seen)) = len /\ \A j \in 1 .. len : Tail(seen)[j] = seen[j + 1]
      BY <1>1, <2>1
    <3> QED
      BY <1>1, <3>1, <3>2 DEF Back
  <2> QED
    BY <1>1, <2>1, <2>2, <2>3 DEF IInv, Fresh
<1> QED
  BY <1>1, Invariance, PTL DEF FoundAfterSeparator
=============================================================================
