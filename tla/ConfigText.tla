----------------------------- MODULE ConfigText -----------------------------
(***************************************************************************)
(* What a configuration file means, independently of how it is read: a     *)
(* document is a sequence of named nodes, a node is a string, a list of    *)
(* nodes or a document; its text is a rendering of it, its meaning the     *)
(* sequence of its strings, each with the path that leads to it.           *)
(***************************************************************************)
EXTENDS Naturals, Sequences, SequencesExt

Str(s)  == [kind |-> "string", chars |-> s, parts |-> <<>>]
List(nodes) == [kind |-> "list", chars |-> <<>>, parts |-> nodes]
Map(entries) == [kind |-> "map", chars |-> <<>>, parts |-> entries]
Named(name, node) == [name |-> name, node |-> node]

-----------------------------------------------------------------------------
Quoted(s) == <<"\"">> \o s \o <<"\"">>

\* gap stands between any two tokens, sep between the elements of a list.
RECURSIVE RenderEntries(_, _, _), RenderNode(_, _, _)

RenderNode(node, gap, sep) ==
  CASE node.kind = "string" -> Quoted(node.chars)
    [] node.kind = "list" ->
         <<"[">> \o FlattenSeq([i \in DOMAIN node.parts |->
            (IF i > 1 THEN sep ELSE gap) \o RenderNode(node.parts[i], gap, sep)]) \o <<"]">>
    [] node.kind = "map" -> <<"{">> \o RenderEntries(node.parts, gap, sep) \o gap \o <<"}">>

RenderEntries(entries, gap, sep) ==
  FlattenSeq([i \in DOMAIN entries |->
    gap \o entries[i].name \o gap \o <<"=">> \o gap \o RenderNode(entries[i].node, gap, sep)])

-----------------------------------------------------------------------------
Numeral(i) ==
  LET f == <<"0", "1", "2", "3", "4", "5", "6", "7", "8", "9">>
  IN IF i < 10 THEN <<f[i + 1]>> ELSE <<f[(i \div 10) + 1], f[(i % 10) + 1]>>

Join(path, name) == IF path = <<>> THEN name ELSE path \o <<".">> \o name

RECURSIVE Meaning(_, _)
Meaning(node, path) ==
  CASE node.kind = "string" -> <<[key |-> path, value |-> node.chars]>>
    [] node.kind = "list" ->
         FlattenSeq([i \in DOMAIN node.parts |->
           Meaning(node.parts[i], Join(path, Numeral(i - 1)))])
    [] node.kind = "map" ->
         FlattenSeq([i \in DOMAIN node.parts |->
           Meaning(node.parts[i].node, Join(path, node.parts[i].name))])

RECURSIVE LongList(_)
LongList(node) ==
  \/ node.kind = "list" /\ Len(node.parts) > 10
  \/ node.kind = "list" /\ \E i \in DOMAIN node.parts : LongList(node.parts[i])
  \/ node.kind = "map" /\ \E i \in DOMAIN node.parts : LongList(node.parts[i].node)

-----------------------------------------------------------------------------
(* The files to be read, as records: the text, what it means, and what is  *)
(* wrong with it: nothing, a list with more than ten elements ("long"), an *)
(* escape with a wrong digit ("digit"), an end of the file in the middle   *)
(* of a token that should be allowed ("unended"), or a character that was  *)
(* lost from it ("damaged").                                               *)

Written(doc, gap, sep, trailer) ==
  [text |-> RenderEntries(doc.parts, gap, sep) \o trailer,
   means |-> Meaning(doc, <<>>),
   wrong |-> IF LongList(doc) THEN "long" ELSE "nothing"]

Spoilt(text, means, how) == [text |-> text, means |-> means, wrong |-> how]

\* text without each of the characters that hold its structure together.
Losses(text) ==
  SelectSeq([n \in DOMAIN text |-> n],
            LAMBDA n : text[n] \in {"=", "{", "}", "[", "]", "\""})

Damaged(text) ==
  [n \in DOMAIN Losses(text) |-> Spoilt(RemoveAt(text, Losses(text)[n]), <<>>, "damaged")]
=============================================================================
