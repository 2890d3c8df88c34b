--------------------------- MODULE ConfigReading ----------------------------
(***************************************************************************)
(* The reading that a text has by ConfigGrammar, for texts without fault:  *)
(* a lexeme is known by its first characters and as short as it can be.    *)
(* TLC needs it where the grammar only says that there is one.             *)
(***************************************************************************)
EXTENDS ConfigGrammar

\* How much of t stands for one character of a string, behind the place n.
Width(t, n) == IF t[n + 1] # "\\" THEN 1 ELSE IF t[n + 2] = "x" THEN 4 ELSE 2

\* The places between the characters of the string that begins behind n.
Cuts(t, n) ==
  LET behind[m \in n .. Len(t)] ==
        <<m>> \o (IF t[m + 1] = Quote THEN <<>> ELSE behind[m + Width(t, m)])
  IN behind[n]

StringAt(t, b) ==
  LET places == Cuts(t, b + 1)
      said(m) == CASE t[m + 1] # "\\" -> t[m + 1]
                   [] t[m + 2] \in DOMAIN Escapes -> Escapes[t[m + 2]]
                   [] OTHER -> HexChar(t[m + 3], t[m + 4])
  IN [type |-> "string", from |-> b, to |-> Last(places) + 1,
      string |-> [k \in 1 .. Len(places) - 1 |-> said(places[k])],
      cuts |-> [k \in 0 .. Len(places) - 1 |-> places[k + 1]]]

LexemeAt(t, b) ==
  LET c == t[b + 1]
      upto(type, e) == [type |-> type, from |-> b, to |-> e, string |-> SubSeq(t, b + 1, e)]
  IN CASE c \in Blank -> upto("blank", b + 1)
       [] c \in Punctuation -> upto(c, b + 1)
       [] c \in Alpha -> upto("identifier", Min({e \in b + 1 .. Len(t) : Identifier(t, b, e)}))
       [] c = Quote -> StringAt(t, b)
       [] c = "/" /\ t[b + 2] = "/" ->
            upto("line", Min({e \in b + 3 .. Len(t) : Comment1(t, b, e)}))
       [] c = "/" /\ t[b + 2] = "*" ->
            upto("comment", Min({e \in b + 4 .. Len(t) : CommentN(t, b, e)}))

LexemesOf(t) ==
  LET behind[b \in 0 .. Len(t)] ==
        IF b = Len(t) THEN <<>> ELSE LET x == LexemeAt(t, b) IN <<x>> \o behind[x.to]
  IN behind[0]

DocumentsOf(L) ==
  LET after[k \in 0 .. Len(L)] ==
        IF k = 0 THEN <<Beginning>>
        ELSE LET before == after[k - 1]
             IN Append(before, IF IsToken(L[k]) THEN After(Last(before), L[k]) ELSE Last(before))
      all == after[Len(L)]
  IN [k \in 0 .. Len(L) |-> all[k + 1]]

\* x is a lexeme, with the cuts that Spells only says there are.
IsLexeme(t, x) ==
  IF x.type = "string"
  THEN /\ t[x.from + 1] = Quote /\ t[x.to] = Quote
       /\ SpellsBy(t, x.string, x.cuts, x.from + 1, x.to - 1)
  ELSE Lexeme(t, x)

\* That reading of t says the values vs.
ReadsAs(t, vs) ==
  LET L == LexemesOf(t)
      C == DocumentsOf(L)
  IN /\ \A k \in DOMAIN L : IsLexeme(t, L[k]) /\ L[k].from = End(L, k - 1)
     /\ End(L, Len(L)) = Len(t)
     /\ Run(L, C, Len(L)) /\ Complete(C[Len(L)]) /\ C[Len(L)].values = vs
     /\ \A k \in DOMAIN C : Short(C[k])
=============================================================================
