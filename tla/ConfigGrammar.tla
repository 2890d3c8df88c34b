--------------------------- MODULE ConfigGrammar ----------------------------
(***************************************************************************)
(* What a text for the configuration parser says, apart from how it is     *)
(* read: lexemes that lie side by side on the text, and what each of them  *)
(* adds to the document in front of it. There is no buffer, no automaton   *)
(* and no token read ahead, every level has a path of its own, and a text  *)
(* with an error has no reading.                                           *)
(***************************************************************************)
EXTENDS Lcfg

\* c is what the text t says between the places a and b of a string.
Stands(t, c, a, b) ==
  \/ b = a + 1 /\ c = t[b] /\ c \notin {Quote, "\\"}
  \/ b = a + 2 /\ t[a + 1] = "\\" /\ t[b] \in DOMAIN Escapes /\ c = Escapes[t[b]]
  \/ b = a + 4 /\ t[a + 1] = "\\" /\ t[a + 2] = "x" /\ c = HexChar(t[a + 3], t[b])

\* And s what it says from a to b: cuts divide that piece, so that each part
\* is one character of s.
SpellsBy(t, s, cuts, a, b) ==
  /\ cuts[0] = a /\ cuts[Len(s)] = b
  /\ \A k \in 1 .. Len(s) : Stands(t, s[k], cuts[k - 1], cuts[k]) /\ cuts[k] \in a .. b

Spells(t, s, a, b) ==
  /\ \E S : s \in Seq(S)
  /\ \E cuts : SpellsBy(t, s, cuts, a, b)

\* s stands between the quotes at a and b.
InQuotes(t, s, a, b) ==
  /\ a \in 1 .. Len(t) /\ b \in 1 .. Len(t) /\ a < b
  /\ t[a] = Quote /\ t[b] = Quote
  /\ Spells(t, s, a, b - 1)

-----------------------------------------------------------------------------
(* A lexeme takes the characters behind the place "from", up to "to".      *)

Comment1(t, from, to) ==
  /\ to >= from + 3 /\ t[from + 1] = "/" /\ t[from + 2] = "/"
  /\ t[to] = "\n" /\ \A n \in from + 3 .. to - 1 : t[n] # "\n"

CommentN(t, from, to) ==
  /\ to >= from + 4 /\ t[from + 1] = "/" /\ t[from + 2] = "*"
  /\ t[to - 1] = "*" /\ t[to] = "/"
  /\ \A n \in from + 3 .. to - 2 : ~(t[n] = "*" /\ t[n + 1] = "/")

\* A name is not a name at the end of the file.
Identifier(t, from, to) ==
  /\ t[from + 1] \in Alpha /\ \A n \in from + 1 .. to : t[n] \in InIdentifier
  /\ to < Len(t) /\ t[to + 1] \notin InIdentifier

IsToken(x) == x.type \notin {"blank", "line", "comment"}

Lexeme(t, x) ==
  /\ x.from \in Nat /\ x.to \in 1 .. Len(t) /\ x.from < x.to
  /\ \/ x.type = "blank" /\ x.to = x.from + 1 /\ t[x.to] \in Blank
     \/ x.type = "line" /\ Comment1(t, x.from, x.to)
     \/ x.type = "comment" /\ CommentN(t, x.from, x.to)
     \/ x.type \in Punctuation /\ x.to = x.from + 1 /\ t[x.to] = x.type
     \/ /\ x.type = "identifier" /\ Identifier(t, x.from, x.to)
        /\ x.string = SubSeq(t, x.from + 1, x.to)
     \/ x.type = "string" /\ InQuotes(t, x.string, x.from + 1, x.to)

\* Where the first k lexemes end.
End(L, k) == IF k = 0 THEN 0 ELSE L[k].to

\* The lexemes of L cover the text from its beginning up to e.
Lexed(t, L, e) ==
  /\ \E S : L \in Seq(S)
  /\ \A k \in 1 .. Len(L) : Lexeme(t, L[k]) /\ L[k].from = End(L, k - 1)
  /\ End(L, Len(L)) = e

-----------------------------------------------------------------------------
(* The document so far: the file and the lists and maps that are open, each *)
(* with its path and the number of its elements, what stands next, the name *)
(* of the entry that has begun, and the values.                             *)

Config(levels, expects, key, found) ==
  [levels |-> levels, expects |-> expects, key |-> key, values |-> found]

Level(kind, p, n) == [kind |-> kind, path |-> p, n |-> n]

Beginning == Config(<<Level("top_level", <<>>, 0)>>, "entry", <<>>, <<>>)

Inner(c) == c.levels[Len(c.levels)]

Position(n) == IF n < 10 THEN <<Figure[n + 1]>>
               ELSE <<Figure[(n \div 10) + 1], Figure[(n % 10) + 1]>>

\* The key of a value that stands next: that of an entry, or of an element.
NextKey(c) == IF c.expects = "value" THEN c.key ELSE Push(Inner(c).path, Position(Inner(c).n))

\* The levels with that value counted, where it is an element.
OneMore(c) ==
  IF c.expects = "value" THEN c.levels
  ELSE [k \in 1 .. Len(c.levels) |->
          IF k < Len(c.levels) THEN c.levels[k]
          ELSE Level(Inner(c).kind, Inner(c).path, Inner(c).n + 1)]

\* What may stand next.
Follow ==
  [equals    |-> {"="},
   value     |-> {"string", "[", "{"},
   top_level |-> {"identifier"},
   in_map    |-> {"identifier", "}"},
   in_list   |-> {",", "string", "[", "{", "]"}]

Allowed(c) == Follow[IF c.expects = "entry" THEN Inner(c).kind ELSE c.expects]

After(c, x) ==
  CASE x.type = "identifier" ->
         Config(c.levels, "equals", Push(Inner(c).path, x.string), c.values)
    [] x.type = "=" -> Config(c.levels, "value", c.key, c.values)
    [] x.type = "string" ->
         Config(OneMore(c), "entry", c.key,
                Append(c.values, [key |-> NextKey(c), value |-> x.string]))
    [] x.type = "[" ->
         Config(Append(OneMore(c), Level("in_list", NextKey(c), 0)), "entry", c.key, c.values)
    [] x.type = "{" ->
         Config(Append(OneMore(c), Level("in_map", NextKey(c), 0)), "entry", c.key, c.values)
    [] x.type \in {"]", "}"} -> Config(Front(c.levels), "entry", c.key, c.values)
    [] x.type = "," -> c

\* C[k] is the document after k lexemes of L, up to the n-th.
Run(L, C, n) ==
  /\ C[0] = Beginning
  /\ \A k \in 1 .. n :
       IF IsToken(L[k]) THEN L[k].type \in Allowed(C[k - 1]) /\ C[k] = After(C[k - 1], L[k])
       ELSE C[k] = C[k - 1]

Complete(c) == c.expects = "entry" /\ Len(c.levels) = 1

\* The lexemes L and the documents C are a reading of the whole text.
Reading(t, L, C) ==
  Lexed(t, L, Len(t)) /\ Run(L, C, Len(L)) /\ Complete(C[Len(L)])

Readable(t) == \E L, C : Reading(t, L, C)

\* No list has more than ten elements.
Short(c) == \A k \in 1 .. Len(c.levels) : c.levels[k].n <= 10

\* The text says the values vs, without such a list.
Says(t, vs) ==
  \E L, C : /\ Reading(t, L, C) /\ C[Len(L)].values = vs
            /\ \A k \in 0 .. Len(L) : Short(C[k])
=============================================================================
