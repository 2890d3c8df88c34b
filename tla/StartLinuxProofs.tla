-------------------------- MODULE StartLinuxProofs --------------------------
(***************************************************************************)
(* What holds of the images of tagger and of the start-up code for every   *)
(* configuration, start-up code, length of the kernel and of the buffer    *)
(* for the tags: proofs about StartLinux.                                  *)
(***************************************************************************)
EXTENDS StartLinux, SequenceTheorems, WellFoundedInduction, TLAPS

Letters == Characters \union {NUL}
Word == [num : Int, chars : Seq(Letters)]
Bound == WORD - 1

-----------------------------------------------------------------------------
(* The board.                                                              *)

Keys == {"mach_id", "board_rev", "ram0.start", "ram0.size", "ram1.start", "ram1.size",
         "fb.base", "fb.size", "serial.high", "serial.low", "bootargs", "sty_file"}
Strings == {"bootargs", "sty_file"}

BoardOK(b) ==
  /\ b \in [Keys -> (0 .. Bound) \union Seq(Characters)]
  /\ \A k \in Strings : b[k] \in Seq(Characters)
  /\ \A k \in Keys \ Strings : b[k] \in 0 .. Bound

LEMMA MapFacts ==
  /\ DOMAIN variable_map = Keys /\ Strings \subseteq Keys
  /\ \A k \in Keys : variable_map[k] = "TYPE_S" <=> k \in Strings
BY DEF variable_map, Keys, Strings

LEMMA NoBoardOK == BoardOK(NoBoard)
<1>1. 0 \in 0 .. Bound /\ <<>> \in Seq(Characters)
  BY TaggerAssumption, ConfigMapAssumption DEF Bound
<1>2. NoBoard = [k \in Keys |-> IF k \in Strings THEN <<>> ELSE 0]
  BY MapFacts, Zenon DEF NoBoard
<1>3. \A k \in Keys : NoBoard[k] = IF k \in Strings THEN <<>> ELSE 0
  BY <1>2, Zenon
<1> QED
  BY <1>1, <1>2, <1>3, MapFacts, Zenon DEF BoardOK

\* Without a NUL a string ends where it ends.
LEMMA WholeString == \A s \in Seq(Characters) : CString(s) = s
<1> SUFFICES ASSUME NEW s \in Seq(Characters) PROVE CString(s) = s
  OBVIOUS
<1> DEFINE kind == {s[k] : k \in DOMAIN s} \ {EndOfString}
           AtEnd(n) ==
             /\ \A k \in 1 .. n : s[k] \in kind
             /\ n = Len(s) \/ s[n + 1] \notin kind
<1>1. \A k \in 1 .. Len(s) : s[k] \in kind
  <2>1. \A k \in 1 .. Len(s) : k \in DOMAIN s /\ s[k] \in Characters
    OBVIOUS
  <2> QED
    BY <2>1, TaggerAssumption, Zenon DEF NUL
<1> HIDE DEF kind
<1>2. Len(s) \in Nat /\ AtEnd(Len(s)) /\ \A n \in 0 .. Len(s) : AtEnd(n) => n = Len(s)
  BY <1>1
<1>3. Span(s, kind) = CHOOSE n \in 0 .. Len(s) : AtEnd(n)
  BY DEF Span
<1> HIDE DEF AtEnd
<1>4. Span(s, kind) = Len(s)
  BY <1>2, <1>3
<1> QED
  BY <1>4 DEF CString, kind

LEMMA HandleOK ==
  ASSUME NEW b, BoardOK(b), NEW c \in Configs, NEW n \in 1 .. Len(c)
  PROVE  BoardOK(Handle(variable_map, b, c[n]))
<1> DEFINE e == c[n]
           v == Stored(variable_map, e)
<1>1. CASE Ignored(variable_map, e)
  BY <1>1, Zenon DEF Handle
<1>2. CASE ~Ignored(variable_map, e)
  <2>1. e.key \in Keys
    BY <1>2, MapFacts, Zenon DEF Ignored
  <2>2. n \in DOMAIN c /\ e \in [key : STRING, value : Seq(Characters)]
    <3> DEFINE Pairs == [key : STRING, value : Seq(Characters)]
    <3>1. c \in Seq(Pairs)
      BY TaggerAssumption, Zenon
    <3> HIDE DEF Pairs
    <3>2. n \in DOMAIN c /\ c[n] \in Pairs
      BY <3>1
    <3> QED
      BY <3>2, Zenon DEF Pairs
  <2>3. e.value \in Seq(Characters)
    <3> HIDE DEF e
    <3> QED
      BY <2>2
  <2>4. e.key \in Strings => v \in Seq(Characters)
    <3>1. CString(e.value) = e.value
      BY <2>3, WholeString, Zenon
    <3> QED
      BY <2>1, <2>3, <3>1, MapFacts, Zenon DEF Stored
  <2>5. e.key \notin Strings => v \in 0 .. Bound
    BY <1>2, <2>1, <2>2, MapFacts, NumbersFit, Zenon DEF Bound
  <2>6. Handle(variable_map, b, e) = [b EXCEPT ![e.key] = v]
    BY <1>2, Zenon DEF Handle
  <2> HIDE DEF e, v
  <2> QED
    BY <2>1, <2>4, <2>5, <2>6 DEF BoardOK, e
<1> QED
  BY <1>1, <1>2

-----------------------------------------------------------------------------
(* The setup functions.                                                    *)

ParamsOK(p) == p.at \in Nat /\ p.buffer \in [1 .. BUFFER -> Word]

\* A tag that is written is not longer than it says.
TagOK(tag) ==
  tag # <<>> => /\ tag[1].size \in Nat /\ tag[1].words \in Seq(Word)
                /\ Len(tag[1].words) <= tag[1].size

\* Of what is written behind p nothing is in front of it.
Agrees(buf, p) == \A w \in 1 .. BUFFER : w <= p.at => buf[w] = p.buffer[w]

Size(tag) == IF tag = <<>> THEN 0 ELSE tag[1].size

LEMMA UnclearedOK == ParamsOK(Uncleared) /\ Uncleared.at = 0
<1>1. Garbage \in Word
  <2>1. <<>> \in Seq(Letters)
    OBVIOUS
  <2> QED
    BY <2>1 DEF Garbage, Num, Word
<1> QED
  BY <1>1 DEF Uncleared, ParamsOK

LEMMA SetupFacts ==
  ASSUME NEW p, ParamsOK(p), NEW tag, TagOK(tag)
  PROVE  /\ ParamsOK(Setup(p, tag))
         /\ Setup(p, tag).at = p.at + Size(tag)
         /\ Agrees(Setup(p, tag).buffer, p)
         /\ tag # <<>> /\ p.at + Size(tag) <= BUFFER =>
              \A w \in 1 .. Len(tag[1].words) : Setup(p, tag).buffer[p.at + w] = tag[1].words[w]
<1>1. CASE tag = <<>>
  <2>1. Setup(p, tag) = p /\ Size(tag) = 0
    BY <1>1, SMT DEF Setup, Size
  <2>2. p.at = p.at + 0
    BY DEF ParamsOK
  <2> QED
    BY <1>1, <2>1, <2>2, Zenon DEF Agrees
<1>2. CASE tag # <<>>
  <2> DEFINE at == p.at
             b == p.buffer
             words == tag[1].words
             n == Len(words)
             q == Setup(p, tag)
             v(w) == IF w \in at + 1 .. at + n THEN words[w - at] ELSE b[w]
  <2>1. q = [buffer |-> WriteAt(b, at, words), at |-> at + tag[1].size]
    BY <1>2, SMT DEF Setup
  <2>2. /\ at \in Nat /\ b \in [1 .. BUFFER -> Word]
        /\ words \in Seq(Word) /\ n \in Nat /\ tag[1].size \in Nat /\ n <= tag[1].size
    BY <1>2 DEF ParamsOK, TagOK
  <2>3. q.at = at + tag[1].size /\ q.buffer = WriteAt(b, at, words)
    BY <2>1
  <2>4. WriteAt(b, at, words) = [w \in 1 .. BUFFER |-> v(w)]
    BY <2>2, Zenon DEF WriteAt
  <2> HIDE DEF q, at, b, words, n
  <2>5. ASSUME NEW w \in 1 .. BUFFER
        PROVE  v(w) \in Word /\ (w <= at => v(w) = b[w])
    <3>1. w \in at + 1 .. at + n => w - at \in 1 .. Len(words)
      BY <2>2 DEF n
    <3>2. w <= at => ~(w \in at + 1 .. at + n)
      BY <2>2
    <3>3. b[w] \in Word /\ (w - at \in 1 .. Len(words) => words[w - at] \in Word)
      BY <2>2
    <3> QED
      BY <3>1, <3>2, <3>3, Zenon
  <2>6. ASSUME NEW w \in 1 .. n, at + n <= BUFFER
        PROVE  at + w \in 1 .. BUFFER /\ v(at + w) = words[w]
    <3>1. at + w \in 1 .. BUFFER /\ at + w \in at + 1 .. at + n /\ (at + w) - at = w
      BY <2>2, <2>6, TaggerAssumption
    <3> QED
      BY <3>1, Zenon
  <2> HIDE DEF v
  <2>7. q.buffer \in [1 .. BUFFER -> Word] /\ \A w \in 1 .. BUFFER : q.buffer[w] = v(w)
    BY <2>3, <2>4, <2>5, Zenon
  <2>8. q.at \in Nat /\ q.at = at + Size(tag)
    BY <1>2, <2>2, <2>3 DEF Size
  <2>9. Agrees(q.buffer, p)
    BY <2>5, <2>7, Zenon DEF Agrees, at, b
  <2>10. at + Size(tag) <= BUFFER => \A w \in 1 .. n : q.buffer[at + w] = words[w]
    <3>1. at + Size(tag) <= BUFFER => at + n <= BUFFER
      BY <1>2, <2>2, TaggerAssumption DEF Size
    <3> QED
      BY <2>6, <2>7, <3>1, Zenon
  <2> QED
    BY <2>3, <2>7, <2>8, <2>9, <2>10, Zenon DEF ParamsOK, q, n, at, words
<1> QED
  BY <1>1, <1>2

-----------------------------------------------------------------------------
(* The command line.                                                       *)

\* The least element of a set of numbers, and the greatest of a bounded one.
LEMMA Least ==
  ASSUME NEW T \in SUBSET Nat, T # {}
  PROVE  \E e \in T : \A m \in T : e <= m
<1> DEFINE R == {ss \in Nat \X Nat : ss[1] < ss[2]}
<1>1. IsWellFoundedOn(R, Nat)
  BY NatLessThanWellFounded, Zenon DEF OpToRel
<1>2. \A x, y \in T : x \in Nat /\ y \in Nat /\ (<<y, x>> \notin R => x <= y)
  OBVIOUS
<1> HIDE DEF R
<1>3. \E x \in T : \A y \in T : <<y, x>> \notin R
  BY <1>1, WFMin, Zenon
<1> QED
  BY <1>2, <1>3, Zenon

LEMMA Greatest ==
  ASSUME NEW n \in Nat, NEW T \in SUBSET (0 .. n), T # {}
  PROVE  \E c \in T : \A m \in T : m <= c
<1> DEFINE U == {n - m : m \in T}
<1>1. U \in SUBSET Nat /\ U # {}
  <2>1. \A m \in T : n - m \in Nat
    OBVIOUS
  <2> QED
    BY <2>1, Zenon
<1>2. PICK u \in U : \A v \in U : u <= v
  <2> HIDE DEF U
  <2> QED
    BY <1>1, Least
<1>3. PICK c \in T : u = n - c
  OBVIOUS
<1>4. ASSUME NEW m \in T PROVE m <= c
  <2>1. n - m \in U
    OBVIOUS
  <2>2. n - c <= n - m /\ m \in Int /\ c \in Int
    BY <1>2, <1>3, <2>1
  <2> QED
    BY <2>2
<1> QED
  BY <1>4

\* What is left of a command line without the blanks in front.
LEMMA EatenFacts ==
  ASSUME NEW s \in Seq(Characters)
  PROVE  /\ Eaten(s) \in Seq(Characters)
         /\ Eaten(s) # <<>> <=> \E n \in DOMAIN s : ~IsBlank(s[n])
<1> DEFINE blanks == {n \in 0 .. Len(s) : \A m \in 1 .. n : IsBlank(s[m])}
           c == CHOOSE n \in blanks : \A m \in blanks : m <= n
<1>1. Len(s) \in Nat /\ DOMAIN s = 1 .. Len(s)
  OBVIOUS
<1>2. 0 \in blanks /\ blanks \in SUBSET (0 .. Len(s))
  OBVIOUS
<1>3. c \in blanks /\ \A m \in blanks : m <= c
  <2> HIDE DEF blanks
  <2>1. \E n \in blanks : \A m \in blanks : m <= n
    BY <1>1, <1>2, Greatest
  <2> QED
    BY <2>1
<1>4. Eaten(s) = SubSeq(s, 1 + c, Len(s))
  BY Zenon DEF Eaten
<1> HIDE DEF c
<1>5. c \in 0 .. Len(s) /\ \A m \in 1 .. c : IsBlank(s[m])
  BY <1>3
<1>6. Eaten(s) \in Seq(Characters) /\ Len(Eaten(s)) = Len(s) - c
  <2> DEFINE a == 1 + c
             l == Len(s)
  <2>1. a \in Nat \ {0} /\ l \in Nat /\ l - c = IF a <= l THEN l - a + 1 ELSE 0
    <3>1. c \in Nat /\ c <= l /\ l \in Nat
      BY <1>1, <1>5
    <3> HIDE DEF l
    <3> QED
      BY <3>1
  <2> HIDE DEF a
  <2>2. /\ SubSeq(s, a, l) \in Seq(Characters)
        /\ Len(SubSeq(s, a, l)) = IF a <= l THEN l - a + 1 ELSE 0
    BY <2>1
  <2> QED
    BY <1>4, <2>1, <2>2, Zenon DEF a
<1>7. ASSUME \A n \in 1 .. Len(s) : IsBlank(s[n]) PROVE Eaten(s) = <<>>
  <2>1. Len(s) \in blanks
    BY <1>1, <1>7
  <2>2. c = Len(s)
    BY <1>3, <1>5, <2>1
  <2> QED
    BY <1>1, <1>6, <2>2, EmptySeq
<1>8. ASSUME NEW n \in 1 .. Len(s), ~IsBlank(s[n]) PROVE Eaten(s) # <<>>
  <2>1. c < n
    BY <1>1, <1>5, <1>8
  <2> QED
    BY <1>1, <1>5, <1>6, <2>1, EmptySeq
<1> QED
  BY <1>1, <1>6, <1>7, <1>8

\* strcpy: the n-th character of the words is the one of the string, and the
\* one behind is its end.
LEMMA PackedFacts ==
  ASSUME NEW s \in Seq(Characters)
  PROVE  /\ Packed(s) \in Seq(Word)
         /\ Len(Packed(s)) = (Len(s) + 4) \div 4
         /\ \A n \in 1 .. Len(s) : CharAt(Packed(s), n) = s[n]
         /\ CharAt(Packed(s), Len(s) + 1) = NUL
<1> DEFINE l == Len(s)
           bytes == Append(s, NUL)
           to(k) == IF 4 * k < Len(bytes) THEN 4 * k ELSE Len(bytes)
           part(k) == SubSeq(bytes, 4 * k - 3, to(k))
           w == Packed(s)
           z == (l + 4) \div 4
<1>1. /\ bytes \in Seq(Letters) /\ l \in Nat /\ Len(bytes) = l + 1
      /\ \A n \in 1 .. l : bytes[n] = s[n]
      /\ bytes[l + 1] = NUL
  BY DEF Letters
<1>2. z \in Nat /\ (Len(bytes) + 3) \div 4 = z
  BY <1>1
<1>3. w = [k \in 1 .. z |-> Chars(part(k))]
  BY <1>2, Zenon DEF Packed
<1> HIDE DEF l, bytes, w, z
<1>4. ASSUME NEW k \in 1 .. z
      PROVE  /\ part(k) \in Seq(Letters) /\ Len(part(k)) = to(k) - (4 * k - 3) + 1
             /\ \A r \in 1 .. Len(part(k)) : part(k)[r] = bytes[(4 * k - 3) + r - 1]
  <2>1. 4 * k - 3 \in Nat \ {0} /\ to(k) \in 0 .. Len(bytes) /\ 4 * k - 3 <= to(k)
    BY <1>1 DEF z
  <2> HIDE DEF to
  <2> DEFINE a == 4 * k - 3
             b == to(k)
  <2>2. a \in Nat \ {0} /\ b \in 0 .. Len(bytes) /\ a <= b
    BY <2>1
  <2> HIDE DEF a, b
  <2>3. /\ SubSeq(bytes, a, b) \in Seq(Letters) /\ Len(SubSeq(bytes, a, b)) = b - a + 1
        /\ \A r \in 1 .. Len(SubSeq(bytes, a, b)) : SubSeq(bytes, a, b)[r] = bytes[a + r - 1]
    BY <1>1, <2>2
  <2> QED
    BY <2>3, Zenon DEF a, b
<1>5. w \in Seq(Word) /\ Len(w) = z
  <2>1. ASSUME NEW k \in 1 .. z PROVE Chars(part(k)) \in Word
    <3>1. part(k) \in Seq(Letters)
      BY <1>4
    <3> HIDE DEF part
    <3> QED
      BY <3>1 DEF Chars, Word
  <2> HIDE DEF part
  <2> QED
    BY <1>2, <1>3, <2>1
<1>6. ASSUME NEW n \in 1 .. l + 1
      PROVE  CharAt(w, n) = bytes[n]
  <2> DEFINE k == ((n - 1) \div 4) + 1
             r == ((n - 1) % 4) + 1
  <2>1. k \in 1 .. z /\ r \in 1 .. 4 /\ (4 * k - 3) + r - 1 = n
    BY <1>1 DEF z
  <2>2. r <= to(k) - (4 * k - 3) + 1
    BY <1>1, <2>1
  <2>3. w[k] = Chars(part(k))
    BY <1>3, <2>1, Zenon
  <2>4. CharAt(w, n) = IF r <= Len(w[k].chars) THEN w[k].chars[r] ELSE "none"
    BY Zenon DEF CharAt
  <2> HIDE DEF k, r
  <2>5. w[k].chars = part(k)
    <3> HIDE DEF part
    <3> QED
      BY <2>3 DEF Chars
  <2>6. r <= Len(part(k)) /\ r \in 1 .. Len(part(k))
    <3>1. Len(part(k)) = to(k) - (4 * k - 3) + 1
      BY <1>4, <2>1
    <3> HIDE DEF part
    <3> QED
      BY <2>1, <2>2, <3>1
  <2>7. part(k)[r] = bytes[(4 * k - 3) + r - 1]
    BY <1>4, <2>1, <2>6
  <2> HIDE DEF part
  <2> QED
    BY <2>1, <2>4, <2>5, <2>6, <2>7
<1> QED
  <2>1. \A n \in 1 .. l : n \in 1 .. l + 1
    BY <1>1
  <2>2. l + 1 \in 1 .. l + 1
    BY <1>1
  <2> QED
    BY <1>1, <1>5, <1>6, <2>1, <2>2, Zenon DEF l, w, z

\* The kernel finds the string again.
LEMMA TextFound ==
  ASSUME NEW s \in Seq(Characters)
  PROVE  Ends(Packed(s)) # {} /\ Text(Packed(s)) = s
<1> DEFINE w == Packed(s)
           l == Len(s)
           E == Ends(w)
           first == CHOOSE e \in E : \A m \in E : e <= m
<1>1. /\ Len(w) = (l + 4) \div 4
      /\ \A n \in 1 .. l : CharAt(w, n) = s[n]
      /\ CharAt(w, l + 1) = NUL
  BY PackedFacts
<1>2. l \in Nat /\ \A n \in 1 .. l : s[n] \in Characters
  OBVIOUS
<1> HIDE DEF w, l
<1>3. l + 1 \in 1 .. 4 * Len(w)
  BY <1>1, <1>2
<1>4. l + 1 \in E
  BY <1>1, <1>3 DEF Ends
<1>5. ASSUME NEW m \in E PROVE l + 1 <= m /\ m \in Int
  <2>1. m \in Int /\ m >= 1 /\ CharAt(w, m) = NUL
    BY DEF Ends
  <2>2. m \notin 1 .. l
    BY <1>1, <1>2, <2>1, TaggerAssumption
  <2> QED
    BY <1>2, <2>1, <2>2
<1> HIDE DEF E
<1>6. first = l + 1
  <2>1. first \in E /\ \A m \in E : first <= m
    <3>1. \E e \in E : \A m \in E : e <= m
      BY <1>4, <1>5
    <3> QED
      BY <3>1
  <2>2. first <= l + 1 /\ l + 1 <= first /\ first \in Int
    BY <1>4, <1>5, <2>1
  <2> QED
    BY <1>2, <2>2
<1>7. Text(w) = [n \in 1 .. first - 1 |-> CharAt(w, n)]
  BY Zenon DEF Text, E
<1> HIDE DEF first
<1>8. Text(w) = [n \in 1 .. l |-> s[n]]
  <2>1. first - 1 = l
    BY <1>2, <1>6
  <2> QED
    BY <1>1, <1>7, <2>1
<1>9. s = [n \in 1 .. l |-> s[n]]
  BY DEF l
<1> QED
  BY <1>4, <1>8, <1>9 DEF w, E

-----------------------------------------------------------------------------
(* The tags, each of which says what there is to say of the board.         *)

FactSet == [tag : Int, numbers : Seq(Int), text : Seq(Letters)]

\* What the walk needs of a tag to take a fact from it.
Tells(tag, fact) ==
  /\ fact \in FactSet
  /\ tag # <<>> =>
       /\ tag[1].size >= 3 /\ Len(tag[1].words) >= 2
       /\ tag[1].words[1].num = tag[1].size /\ tag[1].words[2].num # ATAG_NONE
       /\ \A content \in Seq(Word) :
            /\ Len(content) = tag[1].size - 2
            /\ \A n \in 1 .. Len(tag[1].words) - 2 : content[n] = tag[1].words[n + 2]
            => Taken(tag[1].words[2].num, content) = fact

LEMMA WordFacts ==
  /\ Garbage \in Word
  /\ \A n \in Int : Num(n) \in Word /\ Num(n).num = n
BY DEF Garbage, Num, Word

LEMMA TagFacts ==
  ASSUME NEW k \in Nat \ {0}, NEW size \in Nat, size >= 3, NEW content \in Seq(Word),
         Len(content) + 2 <= size, NEW fact \in FactSet,
         \A c \in Seq(Word) :
           Len(c) = size - 2 /\ (\A n \in 1 .. Len(content) : c[n] = content[n]) => Taken(k, c) = fact
  PROVE  TagOK(<<Tag(k, size, content)>>) /\ Tells(<<Tag(k, size, content)>>, fact)
<1> DEFINE front == <<Num(size), Num(k)>>
           words == front \o content
           tag == <<Tag(k, size, content)>>
           l == Len(content)
<1>1. front \in Seq(Word) /\ Len(front) = 2 /\ front[1].num = size /\ front[2].num = k
  <2>1. Num(size) \in Word /\ Num(k) \in Word /\ Num(size).num = size /\ Num(k).num = k
    BY WordFacts
  <2> QED
    BY <2>1
<1> HIDE DEF front
<1>2. /\ words \in Seq(Word) /\ Len(words) = 2 + l /\ l \in Nat
      /\ \A j \in 1 .. 2 + l : words[j] = IF j <= 2 THEN front[j] ELSE content[j - 2]
  <2>1. /\ words \in Seq(Word) /\ Len(words) = Len(front) + Len(content)
        /\ \A j \in 1 .. Len(front) + Len(content) :
             words[j] = IF j <= Len(front) THEN front[j] ELSE content[j - Len(front)]
    BY <1>1, ConcatProperties, Zenon
  <2>2. l \in Nat
    OBVIOUS
  <2> QED
    BY <1>1, <2>1, <2>2, Zenon
<1>3. tag # <<>> /\ tag[1].size = size /\ tag[1].words = words
  BY DEF Tag, front
<1> HIDE DEF words, l
<1>4. words[1].num = size /\ words[2].num = k /\ \A n \in 1 .. l : words[n + 2] = content[n]
  <2>1. words[1] = front[1] /\ words[2] = front[2]
    BY <1>2
  <2>2. ASSUME NEW n \in 1 .. l PROVE words[n + 2] = content[n]
    <3>1. n + 2 \in 1 .. 2 + l /\ ~(n + 2 <= 2) /\ (n + 2) - 2 = n
      BY <1>2
    <3> QED
      BY <1>2, <3>1, Zenon
  <2> QED
    BY <1>1, <2>1, <2>2, Zenon
<1>5. Len(words) - 2 = l /\ Len(words) >= 2 /\ Len(words) <= size /\ k # ATAG_NONE
  BY <1>2 DEF l, ATAG_NONE
<1>6. \A c \in Seq(Word) :
        Len(c) = size - 2 /\ (\A n \in 1 .. l : c[n] = words[n + 2]) => Taken(k, c) = fact
  BY <1>4, Zenon DEF l
<1> HIDE DEF tag
<1>7. TagOK(tag)
  BY <1>2, <1>3, <1>5, Zenon DEF TagOK
<1>8. Tells(tag, fact)
  BY <1>3, <1>4, <1>5, <1>6, Zenon DEF Tells
<1> QED
  BY <1>7, <1>8 DEF tag

\* A tag of numbers.
LEMMA NumbersTag ==
  ASSUME NEW k \in {ATAG_MEM, ATAG_SERIAL, ATAG_REVISION}, NEW size \in Nat,
         NEW numbers \in Seq(Int), size >= 3, Len(numbers) = size - 2
  PROVE  LET content == [n \in 1 .. Len(numbers) |-> Num(numbers[n])]
         IN  /\ TagOK(<<Tag(k, size, content)>>)
             /\ Tells(<<Tag(k, size, content)>>, Fact(k, numbers, <<>>))
<1> DEFINE l == Len(numbers)
           content == [n \in 1 .. l |-> Num(numbers[n])]
           fact == Fact(k, numbers, <<>>)
<1>1. l \in Nat /\ \A n \in 1 .. l : numbers[n] \in Int
  OBVIOUS
<1>2. /\ \A n \in 1 .. l : Num(numbers[n]) \in Word /\ Num(numbers[n]).num = numbers[n]
      /\ numbers = [n \in 1 .. l |-> numbers[n]]
  BY <1>1, WordFacts
<1>3. content \in Seq(Word) /\ Len(content) = l /\ \A n \in 1 .. l : content[n] = Num(numbers[n])
  <2> HIDE DEF l
  <2>1. content \in [1 .. l -> Word] /\ \A n \in 1 .. l : content[n] = Num(numbers[n])
    BY <1>2, Zenon
  <2> HIDE DEF content
  <2> QED
    BY <1>1, <2>1
<1>4. k \in Nat \ {0} /\ k # ATAG_CORE /\ k # ATAG_CMDLINE /\ k # ATAG_VIDEOLFB
  BY DEF ATAG_MEM, ATAG_SERIAL, ATAG_REVISION, ATAG_CORE, ATAG_CMDLINE, ATAG_VIDEOLFB
<1>5. fact \in FactSet
  <2>1. <<>> \in Seq(Letters) /\ k \in Int
    BY <1>4
  <2> QED
    BY <2>1 DEF Fact, FactSet
<1> HIDE DEF content, l
<1>6. ASSUME NEW c \in Seq(Word), Len(c) = size - 2, \A n \in 1 .. Len(content) : c[n] = content[n]
      PROVE  Taken(k, c) = fact
  <2>1. DOMAIN c = 1 .. l
    BY <1>6 DEF l
  <2>2. \A n \in 1 .. l : c[n].num = numbers[n]
    BY <1>2, <1>3, <1>6, Zenon
  <2>3. [n \in DOMAIN c |-> c[n].num] = numbers
    BY <1>2, <2>1, <2>2
  <2>4. Taken(k, c) = Fact(k, [n \in DOMAIN c |-> c[n].num], <<>>)
    BY <1>4, Zenon DEF Taken
  <2> QED
    BY <2>3, <2>4
<1>7. Len(content) + 2 <= size
  BY <1>3 DEF l
<1> HIDE DEF fact
<1>8. TagOK(<<Tag(k, size, content)>>) /\ Tells(<<Tag(k, size, content)>>, fact)
  BY <1>3, <1>4, <1>5, <1>6, <1>7, TagFacts
<1> QED
  BY <1>8 DEF content, fact, l

LEMMA BoardFacts ==
  ASSUME NEW b, BoardOK(b)
  PROVE  /\ b["bootargs"] \in Seq(Characters)
         /\ \A k \in Keys : k # "bootargs" /\ k # "sty_file" => b[k] \in Int /\ b[k] >= 0 /\ b[k] < WORD
<1>1. "bootargs" \in Strings /\ \A k \in Keys : k # "bootargs" /\ k # "sty_file" => k \in Keys \ Strings
  BY DEF Strings
<1>2. \A n \in 0 .. Bound : n \in Int /\ n >= 0 /\ n < WORD
  BY TaggerAssumption, ConfigMapAssumption DEF Bound
<1> QED
  BY <1>1, <1>2, Zenon DEF BoardOK

LEMMA CoreTag ==
  LET fact == Fact(ATAG_CORE, <<>>, <<>>)
  IN  StartTag # <<>> /\ TagOK(StartTag) /\ Tells(StartTag, fact) /\ fact \in FactSet
<1> DEFINE fact == Fact(ATAG_CORE, <<>>, <<>>)
           content == <<Num(0), Num(0), Num(0)>>
<1>1. content \in Seq(Word) /\ Len(content) = 3
  BY WordFacts
<1>2. fact \in FactSet
  <2>1. <<>> \in Seq(Letters) /\ <<>> \in Seq(Int) /\ ATAG_CORE \in Int
    BY DEF ATAG_CORE
  <2> QED
    BY <2>1 DEF Fact, FactSet
<1>3. \A c : Taken(ATAG_CORE, c) = fact
  <2>1. ATAG_CORE # ATAG_CMDLINE /\ ATAG_CORE # ATAG_VIDEOLFB
    BY DEF ATAG_CORE, ATAG_CMDLINE, ATAG_VIDEOLFB
  <2> QED
    BY <2>1, Zenon DEF Taken
<1>4. ATAG_CORE \in Nat \ {0} /\ 5 \in Nat /\ 5 >= 3 /\ Len(content) + 2 <= 5
  BY <1>1 DEF ATAG_CORE
<1> HIDE DEF content, fact
<1>5. TagOK(<<Tag(ATAG_CORE, 5, content)>>) /\ Tells(<<Tag(ATAG_CORE, 5, content)>>, fact)
  BY <1>1, <1>2, <1>3, <1>4, TagFacts
<1> QED
  BY <1>2, <1>5 DEF StartTag, content, fact

\* One number of the board, or two.
LEMMA OneNumber ==
  ASSUME NEW b, NEW key, b[key] \in Int, NEW k \in {ATAG_MEM, ATAG_SERIAL, ATAG_REVISION}
  PROVE  LET tag == <<Tag(k, 3, <<Num(b[key])>>)>>
         IN  TagOK(tag) /\ Tells(tag, Nums(b, k, <<key>>))
<1> DEFINE x == b[key]
           numbers == <<x>>
           content == [n \in 1 .. Len(numbers) |-> Num(numbers[n])]
<1>1. numbers \in Seq(Int) /\ Len(numbers) = 3 - 2
  OBVIOUS
<1>2. content = <<Num(x)>>
  OBVIOUS
<1>3. [n \in DOMAIN <<key>> |-> b[<<key>>[n]]] = numbers
  OBVIOUS
<1> HIDE DEF numbers
<1>4. TagOK(<<Tag(k, 3, content)>>) /\ Tells(<<Tag(k, 3, content)>>, Fact(k, numbers, <<>>))
  <2>1. 3 \in Nat /\ 3 >= 3
    OBVIOUS
  <2> QED
    BY <1>1, <2>1, NumbersTag, Zenon
<1> QED
  BY <1>2, <1>3, <1>4, Zenon DEF Nums

LEMMA TwoNumbers ==
  ASSUME NEW b, NEW key1, NEW key2, b[key1] \in Int, b[key2] \in Int,
         NEW k \in {ATAG_MEM, ATAG_SERIAL, ATAG_REVISION}
  PROVE  LET tag == <<Tag(k, 4, <<Num(b[key1]), Num(b[key2])>>)>>
         IN  TagOK(tag) /\ Tells(tag, Nums(b, k, <<key1, key2>>))
<1> DEFINE x == b[key1]
           y == b[key2]
           numbers == <<x, y>>
           content == [n \in 1 .. Len(numbers) |-> Num(numbers[n])]
<1>1. numbers \in Seq(Int) /\ Len(numbers) = 4 - 2
  OBVIOUS
<1>2. content = <<Num(x), Num(y)>>
  OBVIOUS
<1>3. [n \in DOMAIN <<key1, key2>> |-> b[<<key1, key2>>[n]]] = numbers
  OBVIOUS
<1> HIDE DEF numbers
<1>4. TagOK(<<Tag(k, 4, content)>>) /\ Tells(<<Tag(k, 4, content)>>, Fact(k, numbers, <<>>))
  <2>1. 4 \in Nat /\ 4 >= 3
    OBVIOUS
  <2> QED
    BY <1>1, <2>1, NumbersTag, Zenon
<1> QED
  BY <1>2, <1>3, <1>4, Zenon DEF Nums

LEMMA SerialTagFacts ==
  ASSUME NEW b, BoardOK(b)
  PROVE  /\ TagOK(SerialTag(b))
         /\ Tells(SerialTag(b), Nums(b, ATAG_SERIAL, <<"serial.low", "serial.high">>))
         /\ SerialTag(b) # <<>> <=>
              (b["serial.low"] # 0 \/ b["serial.high"] # 0) /\ ~SerialWraps(b)
<1> DEFINE h == b["serial.high"]
           l == b["serial.low"]
           fact == Nums(b, ATAG_SERIAL, <<"serial.low", "serial.high">>)
           tag == <<Tag(ATAG_SERIAL, 4, <<Num(l), Num(h)>>)>>
<1>1. h \in Int /\ h >= 0 /\ h < WORD /\ l \in Int /\ l >= 0 /\ l < WORD
  BY BoardFacts DEF Keys
<1>2. (h + l) % WORD = 0 <=> (h = 0 /\ l = 0) \/ h + l = WORD
  <2> HIDE DEF h, l
  <2>1. CASE h + l < WORD
    BY <1>1, <2>1, ConfigMapAssumption
  <2>2. CASE ~(h + l < WORD)
    <3>1. (h + l) % WORD = (h + l) - WORD
      <4> DEFINE r == (h + l) - WORD
      <4>1. r \in 0 .. WORD - 1 /\ h + l = 1 * WORD + r /\ WORD \in Nat \ {0}
        BY <1>1, <2>2, ConfigMapAssumption
      <4> HIDE DEF r
      <4>2. (1 * WORD + r) % WORD = r
        BY <4>1
      <4> QED
        BY <4>1, <4>2, Zenon DEF r
    <3> QED
      BY <1>1, <2>2, <3>1, ConfigMapAssumption
  <2> QED
    BY <2>1, <2>2
<1>3. TagOK(tag) /\ Tells(tag, fact)
  BY <1>1, TwoNumbers, Zenon
<1>4. SerialTag(b) = IF (h + l) % WORD = 0 THEN <<>> ELSE tag
  BY Zenon DEF SerialTag
<1>5. tag # <<>>
  OBVIOUS
<1>6. SerialWraps(b) <=> h + l = WORD
  BY Zenon DEF SerialWraps
<1> HIDE DEF tag, fact, h, l
<1>7. TagOK(SerialTag(b)) /\ Tells(SerialTag(b), fact)
  BY <1>3, <1>4, Zenon DEF TagOK, Tells
<1>8. SerialTag(b) # <<>> <=> ((l # 0 \/ h # 0) /\ ~(h + l = WORD))
  BY <1>2, <1>4, <1>5, Zenon
<1> QED
  BY <1>6, <1>7, <1>8, Zenon DEF fact, h, l

LEMMA RevisionTagFacts ==
  ASSUME NEW b, BoardOK(b)
  PROVE  /\ TagOK(RevisionTag(b))
         /\ Tells(RevisionTag(b), Nums(b, ATAG_REVISION, <<"board_rev">>))
         /\ RevisionTag(b) # <<>> <=> b["board_rev"] # 0
<1> DEFINE tag == <<Tag(ATAG_REVISION, 3, <<Num(b["board_rev"])>>)>>
           fact == Nums(b, ATAG_REVISION, <<"board_rev">>)
<1>1. b["board_rev"] \in Int
  BY BoardFacts DEF Keys
<1>2. TagOK(tag) /\ Tells(tag, fact)
  BY <1>1, OneNumber, Zenon
<1>3. tag # <<>>
  OBVIOUS
<1>4. RevisionTag(b) = IF b["board_rev"] = 0 THEN <<>> ELSE tag
  BY Zenon DEF RevisionTag
<1> HIDE DEF tag, fact
<1>5. TagOK(RevisionTag(b)) /\ Tells(RevisionTag(b), fact)
  BY <1>2, <1>4, Zenon DEF TagOK, Tells
<1> QED
  BY <1>3, <1>4, <1>5, Zenon DEF fact

LEMMA MemoryTagFacts ==
  ASSUME NEW b, BoardOK(b), NEW start \in {"ram0.start", "ram1.start"}, NEW size \in {"ram0.size", "ram1.size"}
  PROVE  LET tag == MemoryTag(b[start], b[size])
         IN  /\ TagOK(tag)
             /\ Tells(tag, Nums(b, ATAG_MEM, <<size, start>>))
             /\ tag # <<>> <=> b[size] # 0
<1> DEFINE tag == <<Tag(ATAG_MEM, 4, <<Num(b[size]), Num(b[start])>>)>>
           fact == Nums(b, ATAG_MEM, <<size, start>>)
           put == MemoryTag(b[start], b[size])
<1>1. b[size] \in Int /\ b[start] \in Int
  BY BoardFacts DEF Keys
<1>2. TagOK(tag) /\ Tells(tag, fact)
  BY <1>1, TwoNumbers, Zenon
<1>3. tag # <<>>
  OBVIOUS
<1>4. put = IF b[size] = 0 THEN <<>> ELSE tag
  BY Zenon DEF MemoryTag
<1> HIDE DEF tag, fact, put
<1>5. TagOK(put) /\ Tells(put, fact)
  BY <1>2, <1>4, Zenon DEF TagOK, Tells
<1> QED
  BY <1>3, <1>4, <1>5, Zenon DEF fact, put

LEMMA CommandlineTagFacts ==
  ASSUME NEW b, BoardOK(b)
  PROVE  LET fact == Fact(ATAG_CMDLINE, <<>>, Eaten(b["bootargs"]))
         IN  /\ TagOK(CommandlineTag(b)) /\ Tells(CommandlineTag(b), fact)
             /\ CommandlineTag(b) # <<>> <=> \E n \in DOMAIN b["bootargs"] : ~IsBlank(b["bootargs"][n])
<1> DEFINE p == Eaten(b["bootargs"])
           fact == Fact(ATAG_CMDLINE, <<>>, p)
           tag == <<Tag(ATAG_CMDLINE, CmdlineSize(Len(p)), Packed(p))>>
           size == CmdlineSize(Len(p))
<1>1. /\ p \in Seq(Characters)
      /\ p # <<>> <=> \E n \in DOMAIN b["bootargs"] : ~IsBlank(b["bootargs"][n])
  BY BoardFacts, EatenFacts, Zenon
<1>2. CommandlineTag(b) = IF p = <<>> THEN <<>> ELSE tag
  BY Zenon DEF CommandlineTag
<1>3. tag # <<>>
  OBVIOUS
<1> HIDE DEF p
<1>4. /\ Packed(p) \in Seq(Word) /\ Len(Packed(p)) = (Len(p) + 4) \div 4 /\ Len(p) \in Nat
  BY <1>1, PackedFacts
<1>5. size \in Nat /\ size >= 3 /\ Len(Packed(p)) + 2 = size
  BY <1>4 DEF CmdlineSize
<1>6. fact \in FactSet
  <2>1. p \in Seq(Letters) /\ <<>> \in Seq(Int) /\ ATAG_CMDLINE \in Int
    BY <1>1 DEF Letters, ATAG_CMDLINE
  <2> QED
    BY <2>1 DEF Fact, FactSet
<1>7. ASSUME NEW c \in Seq(Word), Len(c) = size - 2, \A n \in 1 .. Len(Packed(p)) : c[n] = Packed(p)[n]
      PROVE  Taken(ATAG_CMDLINE, c) = fact
  <2>1. Len(c) = Len(Packed(p))
    BY <1>4, <1>5, <1>7
  <2>2. c = Packed(p)
    BY <1>4, <1>7, <2>1, SeqEqual
  <2>3. Ends(c) # {} /\ Text(c) = p
    BY <1>1, <2>2, TextFound
  <2>4. ATAG_CMDLINE # ATAG_CORE /\ ATAG_CMDLINE # ATAG_VIDEOLFB
    BY DEF ATAG_CORE, ATAG_CMDLINE, ATAG_VIDEOLFB
  <2> QED
    BY <2>3, <2>4, Zenon DEF Taken
<1>8. ATAG_CMDLINE \in Nat \ {0} /\ Len(Packed(p)) + 2 <= size
  BY <1>5 DEF ATAG_CMDLINE
<1> HIDE DEF fact, size
<1>9. /\ TagOK(<<Tag(ATAG_CMDLINE, size, Packed(p))>>)
      /\ Tells(<<Tag(ATAG_CMDLINE, size, Packed(p))>>, fact)
  BY <1>4, <1>5, <1>6, <1>7, <1>8, TagFacts
<1>10. TagOK(tag) /\ Tells(tag, fact)
  BY <1>9, Zenon DEF size
<1> HIDE DEF tag
<1>11. TagOK(CommandlineTag(b)) /\ Tells(CommandlineTag(b), fact)
  BY <1>2, <1>10, Zenon DEF TagOK, Tells
<1> QED
  BY <1>1, <1>2, <1>3, <1>11, Zenon DEF fact, p

LEMMA VideolfbTagFacts ==
  ASSUME NEW b, BoardOK(b)
  PROVE  /\ TagOK(VideolfbTag(b))
         /\ Tells(VideolfbTag(b), Nums(b, ATAG_VIDEOLFB, <<"fb.base", "fb.size">>))
         /\ VideolfbTag(b) # <<>> <=> b["fb.size"] # 0
<1> DEFINE x == b["fb.base"]
           y == b["fb.size"]
           numbers == <<x, y>>
           fact == Nums(b, ATAG_VIDEOLFB, <<"fb.base", "fb.size">>)
           content == <<Garbage, Garbage, Num(x), Num(y)>>
           tag == <<Tag(ATAG_VIDEOLFB, 8, content)>>
<1>1. x \in Int /\ y \in Int
  BY BoardFacts DEF Keys
<1>2. fact = Fact(ATAG_VIDEOLFB, numbers, <<>>)
  <2>1. [n \in DOMAIN <<"fb.base", "fb.size">> |-> b[<<"fb.base", "fb.size">>[n]]] = numbers
    OBVIOUS
  <2> QED
    BY <2>1, Zenon DEF Nums
<1>3. tag # <<>>
  OBVIOUS
<1>4. VideolfbTag(b) = IF y = 0 THEN <<>> ELSE tag
  BY Zenon DEF VideolfbTag
<1> HIDE DEF x, y
<1>5. /\ content \in Seq(Word) /\ Len(content) = 4 /\ content[3] = Num(x) /\ content[4] = Num(y)
      /\ Num(x).num = x /\ Num(y).num = y
  <2>1. Garbage \in Word /\ Num(x) \in Word /\ Num(y) \in Word /\ Num(x).num = x /\ Num(y).num = y
    BY <1>1, WordFacts
  <2> QED
    BY <2>1
<1>6. fact \in FactSet
  <2>1. numbers \in Seq(Int) /\ <<>> \in Seq(Letters) /\ ATAG_VIDEOLFB \in Int
    BY <1>1 DEF ATAG_VIDEOLFB
  <2> HIDE DEF fact, numbers
  <2> QED
    BY <1>2, <2>1 DEF Fact, FactSet
<1> HIDE DEF content, fact
<1>7. ASSUME NEW c \in Seq(Word), Len(c) = 8 - 2, \A n \in 1 .. Len(content) : c[n] = content[n]
      PROVE  Taken(ATAG_VIDEOLFB, c) = fact
  <2>1. c[3] = content[3] /\ c[4] = content[4]
    BY <1>5, <1>7
  <2>2. <<c[3].num, c[4].num>> = numbers
    BY <1>5, <2>1
  <2>3. ATAG_VIDEOLFB # ATAG_CORE /\ ATAG_VIDEOLFB # ATAG_CMDLINE
    BY DEF ATAG_CORE, ATAG_CMDLINE, ATAG_VIDEOLFB
  <2>4. Taken(ATAG_VIDEOLFB, c) = Fact(ATAG_VIDEOLFB, <<c[3].num, c[4].num>>, <<>>)
    BY <2>3, Zenon DEF Taken
  <2> QED
    BY <1>2, <2>2, <2>4, Zenon
<1>8. ATAG_VIDEOLFB \in Nat \ {0} /\ 8 \in Nat /\ 8 >= 3 /\ Len(content) + 2 <= 8
  BY <1>5 DEF ATAG_VIDEOLFB
<1>9. TagOK(<<Tag(ATAG_VIDEOLFB, 8, content)>>) /\ Tells(<<Tag(ATAG_VIDEOLFB, 8, content)>>, fact)
  BY <1>5, <1>6, <1>7, <1>8, TagFacts
<1>10. TagOK(tag) /\ Tells(tag, fact)
  BY <1>9
<1> HIDE DEF tag
<1>11. TagOK(VideolfbTag(b)) /\ Tells(VideolfbTag(b), fact)
  BY <1>4, <1>10, Zenon DEF TagOK, Tells
<1> QED
  BY <1>3, <1>4, <1>11, Zenon DEF fact, y

LEMMA EndTagFacts ==
  /\ EndTag # <<>> /\ TagOK(EndTag) /\ Size(EndTag) = 2 /\ Len(EndTag[1].words) = 2
  /\ EndTag[1].words[2].num = ATAG_NONE
<1>1. Num(0) \in Word /\ Num(ATAG_NONE) \in Word /\ Num(ATAG_NONE).num = ATAG_NONE
  BY WordFacts DEF ATAG_NONE
<1>2. EndTag # <<>> /\ EndTag[1].size = 2 /\ EndTag[1].words = <<Num(0), Num(ATAG_NONE)>>
  BY DEF EndTag
<1>3. <<Num(0), Num(ATAG_NONE)>> \in Seq(Word) /\ Len(<<Num(0), Num(ATAG_NONE)>>) = 2
      /\ <<Num(0), Num(ATAG_NONE)>>[2] = Num(ATAG_NONE)
  BY <1>1
<1>4. 2 \in Nat /\ 2 <= 2
  OBVIOUS
<1> QED
  BY <1>1, <1>2, <1>3, <1>4, Zenon DEF TagOK, Size

-----------------------------------------------------------------------------
(* The walk over the tags.                                                 *)

\* Where the walk is after k steps.
After(words, k) ==
  CASE k = 0 -> AtFirst      [] k = 1 -> Walk1(words) [] k = 2 -> Walk2(words)
    [] k = 3 -> Walk3(words) [] k = 4 -> Walk4(words) [] k = 5 -> Walk5(words)
    [] k = 6 -> Walk6(words) [] k = 7 -> Walk7(words) [] k = 8 -> Walk8(words)

LEMMA WalkIsAfter ==
  ASSUME NEW words
  PROVE  Walk(words) = IF After(words, 8).at = 0 THEN After(words, 8).facts
                       ELSE After(words, 8).facts \o <<Broken>>
<1>1. After(words, 8) = Walk8(words)
  BY DEF After
<1> QED
  BY <1>1, Zenon DEF Walk

LEMMA AfterFacts ==
  ASSUME NEW words
  PROVE  /\ After(words, 0) = AtFirst
         /\ \A k \in 0 .. 7 : After(words, k + 1) = Look(words, After(words, k))
<1>1. /\ After(words, 0) = AtFirst /\ After(words, 1) = Walk1(words) /\ After(words, 2) = Walk2(words)
      /\ After(words, 3) = Walk3(words) /\ After(words, 4) = Walk4(words)
      /\ After(words, 5) = Walk5(words) /\ After(words, 6) = Walk6(words)
      /\ After(words, 7) = Walk7(words) /\ After(words, 8) = Walk8(words)
  BY DEF After
<1>2. /\ After(words, 1) = Look(words, After(words, 0)) /\ After(words, 2) = Look(words, After(words, 1))
      /\ After(words, 3) = Look(words, After(words, 2)) /\ After(words, 4) = Look(words, After(words, 3))
      /\ After(words, 5) = Look(words, After(words, 4)) /\ After(words, 6) = Look(words, After(words, 5))
      /\ After(words, 7) = Look(words, After(words, 6)) /\ After(words, 8) = Look(words, After(words, 7))
  BY <1>1, Zenon DEF Walk1, Walk2, Walk3, Walk4, Walk5, Walk6, Walk7, Walk8
<1>3. \A k \in 0 .. 7 : k = 0 \/ k = 1 \/ k = 2 \/ k = 3 \/ k = 4 \/ k = 5 \/ k = 6 \/ k = 7
  OBVIOUS
<1>4. 0 + 1 = 1 /\ 1 + 1 = 2 /\ 2 + 1 = 3 /\ 3 + 1 = 4 /\ 4 + 1 = 5 /\ 5 + 1 = 6 /\ 6 + 1 = 7 /\ 7 + 1 = 8
  OBVIOUS
<1> QED
  BY <1>1, <1>2, <1>3, <1>4, Zenon

LEMMA LookOver ==
  ASSUME NEW words, NEW w, w.at = 0
  PROVE  Look(words, w) = w
BY DEF Look

\* A walk that is over stays so.
LEMMA Settled ==
  ASSUME NEW words, NEW k \in 0 .. 8, After(words, k).at = 0
  PROVE  Walk(words) = After(words, k).facts
<1> DEFINE D(j) == After(words, j).at = 0 => After(words, 8) = After(words, j)
<1>1. ASSUME NEW j \in 0 .. 7, D(j + 1) PROVE D(j)
  <2>1. After(words, j + 1) = Look(words, After(words, j))
    BY AfterFacts
  <2>2. After(words, j).at = 0 => After(words, j + 1) = After(words, j)
    BY <2>1, LookOver, Zenon
  <2> QED
    BY <1>1, <2>2, Zenon
<1>2. D(8)
  OBVIOUS
<1>3. 7 \in 0 .. 7 /\ 7 + 1 = 8 /\ 6 \in 0 .. 7 /\ 6 + 1 = 7 /\ 5 \in 0 .. 7 /\ 5 + 1 = 6
      /\ 4 \in 0 .. 7 /\ 4 + 1 = 5 /\ 3 \in 0 .. 7 /\ 3 + 1 = 4 /\ 2 \in 0 .. 7 /\ 2 + 1 = 3
      /\ 1 \in 0 .. 7 /\ 1 + 1 = 2 /\ 0 \in 0 .. 7 /\ 0 + 1 = 1
  OBVIOUS
<1> HIDE DEF D
<1>4. D(7) /\ D(6) /\ D(5) /\ D(4) /\ D(3) /\ D(2) /\ D(1) /\ D(0)
  <2>1. D(7)
    BY <1>1, <1>3, <1>2, Zenon
  <2>2. D(6)
    BY <1>1, <1>3, <2>1, Zenon
  <2>3. D(5)
    BY <1>1, <1>3, <2>2, Zenon
  <2>4. D(4)
    BY <1>1, <1>3, <2>3, Zenon
  <2>5. D(3)
    BY <1>1, <1>3, <2>4, Zenon
  <2>6. D(2)
    BY <1>1, <1>3, <2>5, Zenon
  <2>7. D(1)
    BY <1>1, <1>3, <2>6, Zenon
  <2>8. D(0)
    BY <1>1, <1>3, <2>7, Zenon
  <2> QED
    BY <2>1, <2>2, <2>3, <2>4, <2>5, <2>6, <2>7, <2>8
<1>5. \A j \in 0 .. 8 : j = 0 \/ j = 1 \/ j = 2 \/ j = 3 \/ j = 4 \/ j = 5 \/ j = 6 \/ j = 7 \/ j = 8
  OBVIOUS
<1>6. D(k)
  BY <1>2, <1>4, <1>5, Zenon
<1> QED
  BY <1>6, WalkIsAfter, Zenon DEF D

\* A tag that lies where the walk is.
Lies(words, a, tag) ==
  /\ \A w \in 1 .. Len(tag[1].words) : words[a + w] = tag[1].words[w]
  /\ a + tag[1].size < Len(words)

Met(words, a, facts, tag, fact) ==
  Look(words, [at |-> a + 1, facts |-> facts]) =
    [at |-> a + 1 + tag[1].size, facts |-> facts \o <<fact>>]

LEMMA LookAtTag ==
  ASSUME NEW words \in Seq(Word), NEW a \in Nat, NEW facts, NEW tag, tag # <<>>,
         TagOK(tag), NEW fact, Tells(tag, fact),
         Lies(words, a, tag)
  PROVE  Met(words, a, facts, tag, fact)
<1> DEFINE size == tag[1].size
           own == tag[1].words
           walk == [at |-> a + 1, facts |-> facts]
           at == a + 1
           c == SubSeq(words, at + 2, (at + size) - 1)
<1>1. /\ size \in Nat /\ size >= 3 /\ own \in Seq(Word) /\ Len(own) >= 2 /\ Len(own) <= size
      /\ own[1].num = size /\ own[2].num # ATAG_NONE
  BY Zenon DEF TagOK, Tells
<1>2. \A content \in Seq(Word) :
        Len(content) = size - 2 /\ (\A n \in 1 .. Len(own) - 2 : content[n] = own[n + 2])
          => Taken(own[2].num, content) = fact
  BY Zenon DEF Tells
<1> HIDE DEF size, own
<1>3. \A w \in 1 .. Len(own) : words[a + w] = own[w]
  BY DEF Lies, own
<1>4. a + size < Len(words) /\ Len(words) \in Nat
  BY DEF Lies, size
<1>5. words[at].num = size /\ words[at + 1].num = own[2].num
  <2>1. 1 \in 1 .. Len(own) /\ 2 \in 1 .. Len(own) /\ a + 1 = at /\ a + 2 = at + 1
    BY <1>1
  <2> QED
    BY <1>1, <1>3, <2>1, Zenon
<1>6. c \in Seq(Word) /\ Len(c) = size - 2 /\ \A n \in 1 .. Len(own) - 2 : c[n] = own[n + 2]
  <2> DEFINE x == at + 2
             y == (at + size) - 1
  <2>1. /\ x \in Nat \ {0} /\ y \in 0 .. Len(words) /\ x <= y + 1 /\ (y - x) + 1 = size - 2
        /\ x = a + 3
    BY <1>1, <1>4
  <2> HIDE DEF x, y
  <2>2. /\ SubSeq(words, x, y) \in Seq(Word)
        /\ Len(SubSeq(words, x, y)) = IF x <= y THEN (y - x) + 1 ELSE 0
        /\ \A n \in 1 .. Len(SubSeq(words, x, y)) : SubSeq(words, x, y)[n] = words[(x + n) - 1]
    BY <2>1
  <2>3. c = SubSeq(words, x, y)
    BY Zenon DEF x, y
  <2> HIDE DEF c
  <2>4. Len(c) = size - 2
    BY <1>1, <2>1, <2>2, <2>3
  <2>5. ASSUME NEW n \in 1 .. Len(own) - 2 PROVE c[n] = own[n + 2]
    <3>1. n \in 1 .. Len(c) /\ n + 2 \in 1 .. Len(own) /\ (x + n) - 1 = a + (n + 2)
      BY <1>1, <2>1, <2>4
    <3> QED
      BY <1>3, <2>2, <2>3, <3>1, Zenon
  <2> QED
    BY <2>2, <2>3, <2>4, <2>5
<1>7. Taken(words[at + 1].num, c) = fact
  <2> HIDE DEF c
  <2> QED
    BY <1>2, <1>5, <1>6, Zenon
<1>8. /\ at # 0 /\ ~(at >= Len(words)) /\ ~(size < 3) /\ ~(at + size > Len(words) + 1)
      /\ walk.at = at /\ walk.facts = facts
  BY <1>1, <1>4
<1> HIDE DEF at, walk
<1>9. /\ SizeAt(words, at) = size /\ TagAt(words, at) # ATAG_NONE /\ ~EndsBeyond(words, at)
      /\ Taken(TagAt(words, at), ContentAt(words, at)) = fact
  BY <1>1, <1>5, <1>7, <1>8, Zenon DEF SizeAt, TagAt, ContentAt, EndsBeyond
<1>10. Look(words, walk) = [at |-> at + size, facts |-> facts \o <<fact>>]
  BY <1>8, <1>9, Zenon DEF Look
<1> QED
  BY <1>10, Zenon DEF Met, at, walk, size

-----------------------------------------------------------------------------
(* The setup functions one after the other, and the walk behind them.      *)

SaidBy(tag, fact) == IF tag = <<>> THEN <<>> ELSE <<fact>>

\* After m steps at most the walk is at p, with the facts f.
Reached(words, m, p, f) ==
  /\ f \in Seq(FactSet)
  /\ \E k \in 0 .. m : After(words, k) = [at |-> p.at + 1, facts |-> f]

\* The words contain what has been written up to q, and more.
Follows(words, q) ==
  /\ Len(words) <= BUFFER /\ q.at < Len(words)
  /\ \A w \in 1 .. Len(words) : w <= q.at => words[w] = q.buffer[w]

\* A walk that is where a setup function writes its tag is behind that tag,
\* with its fact, a step later, if it is written at all.
LEMMA StageWalked ==
  ASSUME NEW words \in Seq(Word), NEW m \in 0 .. 7, NEW p, ParamsOK(p),
         NEW tag, TagOK(tag), NEW fact, Tells(tag, fact),
         NEW f, Reached(words, m, p, f), Follows(words, Setup(p, tag))
  PROVE  Reached(words, m + 1, Setup(p, tag), f \o SaidBy(tag, fact))
<1> DEFINE q == Setup(p, tag)
<1>1. q.at = p.at + Size(tag) /\ p.at \in Nat /\ f \in Seq(FactSet)
  BY SetupFacts DEF ParamsOK, Reached
<1>2. PICK k \in 0 .. m : After(words, k) = [at |-> p.at + 1, facts |-> f]
  BY DEF Reached
<1>3. CASE tag = <<>>
  <2>1. Size(tag) = 0 /\ SaidBy(tag, fact) = <<>> /\ f \o <<>> = f /\ k \in 0 .. m + 1
    BY <1>1, <1>3 DEF Size, SaidBy
  <2>2. p.at + 0 = p.at
    BY <1>1
  <2> QED
    BY <1>1, <1>2, <2>1, <2>2, Zenon DEF Reached
<1>4. CASE tag # <<>>
  <2> DEFINE own == tag[1].words
             size == tag[1].size
             at == p.at
  <2>1. Size(tag) = size /\ SaidBy(tag, fact) = <<fact>>
    BY <1>4 DEF Size, SaidBy
  <2>2. size \in Nat /\ own \in Seq(Word) /\ Len(own) <= size
    BY <1>4, Zenon DEF TagOK
  <2>3. \A w \in 1 .. Len(own) : q.buffer[at + w] = own[w]
    <3>1. tag # <<>> /\ p.at + Size(tag) <= BUFFER =>
            \A w \in 1 .. Len(tag[1].words) : Setup(p, tag).buffer[p.at + w] = tag[1].words[w]
      BY SetupFacts
    <3>2. q.at <= BUFFER
      <4>1. Len(words) <= BUFFER /\ q.at < Len(words) /\ Len(words) \in Nat
        BY DEF Follows
      <4>2. q.at \in Nat
        BY SetupFacts DEF ParamsOK
      <4> HIDE DEF q
      <4> QED
        BY <4>1, <4>2, TaggerAssumption
    <3> QED
      BY <1>1, <1>4, <3>1, <3>2, Zenon
  <2>4. at + size < Len(words) /\ Len(words) <= BUFFER /\ Len(words) \in Nat
    BY <1>1, <2>1 DEF Follows
  <2>5. \A w \in 1 .. Len(words) : w <= at + size => words[w] = q.buffer[w]
    BY <1>1, <2>1, Zenon DEF Follows
  <2>6. at \in Nat /\ Len(own) \in Nat /\ q.at = at + size
    <3>1. Len(own) \in Nat
      BY <2>2
    <3> QED
      BY <1>1, <2>1, <3>1, Zenon
  <2> HIDE DEF own, size, at, q
  <2>7. ASSUME NEW w \in 1 .. Len(own) PROVE words[at + w] = own[w]
    <3>1. at + w \in 1 .. Len(words) /\ at + w <= at + size
      <4>1. size \in Nat /\ Len(own) <= size /\ at + size < Len(words) /\ Len(words) \in Nat
        BY <2>2, <2>4, Zenon
      <4> QED
        BY <2>6, <4>1
    <3> QED
      BY <2>3, <2>5, <3>1, Zenon
  <2>8. Look(words, [at |-> at + 1, facts |-> f]) = [at |-> at + 1 + size, facts |-> f \o <<fact>>]
    <3>1. at \in Nat /\ at + tag[1].size < Len(words)
      BY <2>4, <2>6, Zenon DEF size
    <3>2. Lies(words, at, tag)
      BY <2>7, <3>1, Zenon DEF Lies, own
    <3>3. Look(words, [at |-> at + 1, facts |-> f]) = [at |-> at + 1 + tag[1].size, facts |-> f \o <<fact>>]
      <4>1. Met(words, at, f, tag, fact)
        BY <1>4, <3>1, <3>2, LookAtTag
      <4> QED
        BY <4>1, Zenon DEF Met
    <3> QED
      BY <3>3, Zenon DEF size
  <2>9. k \in 0 .. 7 /\ k + 1 \in 0 .. m + 1 /\ q.at + 1 = at + 1 + size
    <3>1. size \in Nat
      BY <2>2, Zenon
    <3> QED
      BY <2>6, <3>1
  <2>10. After(words, k + 1) = [at |-> q.at + 1, facts |-> f \o <<fact>>]
    BY <1>2, <2>8, <2>9, AfterFacts, Zenon DEF at
  <2>11. f \o <<fact>> \in Seq(FactSet)
    <3>1. fact \in FactSet /\ f \in Seq(FactSet)
      BY <1>1, Zenon DEF Tells
    <3> HIDE DEF FactSet
    <3> QED
      BY <3>1
  <2> QED
    BY <2>1, <2>9, <2>10, <2>11, Zenon DEF q, Reached
<1> QED
  BY <1>3, <1>4

\* generate_tag, function by function.
Written1(b) == Setup(Uncleared, StartTag)
Written2(b) == Setup(Written1(b), SerialTag(b))
Written3(b) == Setup(Written2(b), RevisionTag(b))
Written4(b) == Setup(Written3(b), MemoryTag(b["ram0.start"], b["ram0.size"]))
Written5(b) == Setup(Written4(b), MemoryTag(b["ram1.start"], b["ram1.size"]))
Written6(b) == Setup(Written5(b), CommandlineTag(b))
Written7(b) == Setup(Written6(b), VideolfbTag(b))
Written8(b) == Setup(Written7(b), EndTag)

LEMMA WrittenInOrder ==
  ASSUME NEW b
  PROVE  generate_tag(b) = Written8(b)
BY Zenon DEF generate_tag, Written1, Written2, Written3, Written4, Written5, Written6, Written7, Written8

\* One function behind another: what is said of buf behind it is said in
\* front of it too.
Keeps(buf, n, p) == ParamsOK(p) /\ p.at <= n /\ Agrees(buf, p)

LEMMA KeptInFront ==
  ASSUME NEW p, ParamsOK(p), NEW tag, TagOK(tag), NEW buf, NEW n \in Nat, Keeps(buf, n, Setup(p, tag))
  PROVE  Keeps(buf, n, p)
<1> DEFINE q == Setup(p, tag)
<1>1. ParamsOK(q) /\ q.at = p.at + Size(tag) /\ Agrees(q.buffer, p)
  BY SetupFacts
<1>2. Agrees(buf, q) /\ q.at <= n
  BY DEF Keeps
<1> HIDE DEF q
<1>3. Size(tag) \in Nat /\ p.at \in Nat /\ q.at \in Nat
  BY <1>1 DEF Size, TagOK, ParamsOK
<1>4. p.at <= n /\ \A w \in 1 .. BUFFER : w <= p.at => w <= q.at
  BY <1>1, <1>2, <1>3, TaggerAssumption
<1>5. Agrees(buf, p)
  BY <1>1, <1>2, <1>4, Zenon DEF Agrees
<1> QED
  BY <1>4, <1>5 DEF Keeps

\* All the tags but the last.
LEMMA TagsOK ==
  ASSUME NEW b, BoardOK(b)
  PROVE  /\ TagOK(StartTag) /\ TagOK(SerialTag(b)) /\ TagOK(RevisionTag(b))
         /\ TagOK(MemoryTag(b["ram0.start"], b["ram0.size"]))
         /\ TagOK(MemoryTag(b["ram1.start"], b["ram1.size"]))
         /\ TagOK(CommandlineTag(b)) /\ TagOK(VideolfbTag(b))
BY CoreTag, SerialTagFacts, RevisionTagFacts, MemoryTagFacts, CommandlineTagFacts, VideolfbTagFacts, Zenon

LEMMA WrittenOK ==
  ASSUME NEW b, BoardOK(b)
  PROVE  /\ ParamsOK(Written1(b)) /\ ParamsOK(Written2(b)) /\ ParamsOK(Written3(b))
         /\ ParamsOK(Written4(b)) /\ ParamsOK(Written5(b)) /\ ParamsOK(Written6(b))
         /\ ParamsOK(Written7(b)) /\ ParamsOK(Written8(b))
<1>1. \A p, tag : ParamsOK(p) /\ TagOK(tag) => ParamsOK(Setup(p, tag))
  BY SetupFacts, Zenon
<1>2. TagOK(EndTag) /\ ParamsOK(Uncleared)
  BY EndTagFacts, UnclearedOK
<1> QED
  BY <1>1, <1>2, TagsOK, Zenon
     DEF Written1, Written2, Written3, Written4, Written5, Written6, Written7, Written8

LEMMA AllKept ==
  ASSUME NEW b, BoardOK(b), NEW buf, NEW n \in Nat, Keeps(buf, n, Written7(b))
  PROVE  /\ Keeps(buf, n, Written1(b)) /\ Keeps(buf, n, Written2(b)) /\ Keeps(buf, n, Written3(b))
         /\ Keeps(buf, n, Written4(b)) /\ Keeps(buf, n, Written5(b)) /\ Keeps(buf, n, Written6(b))
<1>1. \A p, tag : ParamsOK(p) /\ TagOK(tag) /\ Keeps(buf, n, Setup(p, tag)) => Keeps(buf, n, p)
  BY KeptInFront, Zenon
<1>2. Keeps(buf, n, Written6(b))
  BY <1>1, TagsOK, WrittenOK, Zenon DEF Written7
<1>3. Keeps(buf, n, Written5(b))
  BY <1>1, <1>2, TagsOK, WrittenOK, Zenon DEF Written6
<1>4. Keeps(buf, n, Written4(b))
  BY <1>1, <1>3, TagsOK, WrittenOK, Zenon DEF Written5
<1>5. Keeps(buf, n, Written3(b))
  BY <1>1, <1>4, TagsOK, WrittenOK, Zenon DEF Written4
<1>6. Keeps(buf, n, Written2(b))
  BY <1>1, <1>5, TagsOK, WrittenOK, Zenon DEF Written3
<1>7. Keeps(buf, n, Written1(b))
  BY <1>1, <1>6, TagsOK, WrittenOK, Zenon DEF Written2
<1> QED
  BY <1>2, <1>3, <1>4, <1>5, <1>6, <1>7

\* What is written out of the buffer.
LEMMA WrittenWords ==
  ASSUME NEW b, BoardOK(b), generate_tag(b).at <= BUFFER
  PROVE  LET words == SubSeq(generate_tag(b).buffer, 1, generate_tag(b).at)
             last == Written7(b).at
         IN  /\ words \in Seq(Word) /\ Len(words) = last + 2 /\ last \in Nat
             /\ words[last + 2].num = ATAG_NONE
             /\ Follows(words, Written1(b)) /\ Follows(words, Written2(b)) /\ Follows(words, Written3(b))
             /\ Follows(words, Written4(b)) /\ Follows(words, Written5(b)) /\ Follows(words, Written6(b))
             /\ Follows(words, Written7(b))
<1> DEFINE g == Written8(b)
           p == Written7(b)
           n == g.at
           buf == g.buffer
           words == SubSeq(buf, 1, n)
           last == p.at
<1>1. ParamsOK(p) /\ ParamsOK(g) /\ generate_tag(b) = g /\ n <= BUFFER
  BY WrittenOK, WrittenInOrder
<1>2. /\ n = last + 2 /\ Agrees(buf, p)
      /\ \A w \in 1 .. 2 : buf[last + w] = EndTag[1].words[w]
  <2>1. /\ Setup(p, EndTag).at = p.at + Size(EndTag)
        /\ Agrees(Setup(p, EndTag).buffer, p)
        /\ EndTag # <<>> /\ p.at + Size(EndTag) <= BUFFER =>
             \A w \in 1 .. Len(EndTag[1].words) :
               Setup(p, EndTag).buffer[p.at + w] = EndTag[1].words[w]
    BY <1>1, EndTagFacts, SetupFacts
  <2>2. g = Setup(p, EndTag)
    BY Zenon DEF Written8
  <2> HIDE DEF g, p
  <2> QED
    BY <1>1, <2>1, <2>2, EndTagFacts, Zenon
<1>3. n \in Nat /\ last \in Nat /\ buf \in [1 .. BUFFER -> Word] /\ BUFFER \in Nat
  BY <1>1, TaggerAssumption DEF ParamsOK
<1> HIDE DEF g, p, n, buf, last
<1>4. words \in Seq(Word) /\ Len(words) = n /\ \A w \in 1 .. n : words[w] = buf[w]
  <2>1. buf \in Seq(Word) /\ Len(buf) = BUFFER
    BY <1>3
  <2>2. n \in 0 .. Len(buf)
    BY <1>1, <1>3, <2>1
  <2> QED
    BY <2>1, <2>2
<1> HIDE DEF words
<1>5. words[last + 2].num = ATAG_NONE
  <2>1. 2 \in 1 .. 2 /\ last + 2 \in 1 .. n
    BY <1>2, <1>3
  <2>2. words[last + 2] = EndTag[1].words[2]
    BY <1>2, <1>4, <2>1, Zenon
  <2> QED
    BY <2>2, EndTagFacts
<1>6. Keeps(buf, last, p)
  <2>1. last <= last
    BY <1>3
  <2> QED
    BY <1>1, <1>2, <2>1, Zenon DEF Keeps, last
<1>7. ASSUME NEW q, Keeps(buf, last, q) PROVE Follows(words, q)
  <2>1. q.at \in Nat /\ q.at <= last /\ \A w \in 1 .. BUFFER : w <= q.at => buf[w] = q.buffer[w]
    BY <1>7 DEF Keeps, ParamsOK, Agrees
  <2>2. Len(words) <= BUFFER /\ q.at < Len(words)
    BY <1>1, <1>2, <1>3, <1>4, <2>1
  <2>3. \A w \in 1 .. Len(words) : w \in 1 .. BUFFER /\ w \in 1 .. n
    BY <1>1, <1>3, <1>4
  <2>4. \A w \in 1 .. Len(words) : w <= q.at => words[w] = q.buffer[w]
    BY <1>4, <2>1, <2>3, Zenon
  <2> QED
    BY <2>2, <2>4, Zenon DEF Follows
<1>8. /\ Follows(words, Written1(b)) /\ Follows(words, Written2(b)) /\ Follows(words, Written3(b))
      /\ Follows(words, Written4(b)) /\ Follows(words, Written5(b)) /\ Follows(words, Written6(b))
      /\ Follows(words, Written7(b))
  <2>1. Keeps(buf, last, Written7(b))
    BY <1>6, Zenon DEF p
  <2> QED
    BY <1>3, <1>7, <2>1, AllKept
<1> QED
  BY <1>1, <1>2, <1>3, <1>4, <1>5, <1>8, Zenon DEF words, last, p, buf, n

\* What the tags say, in the order in which they are written.
Told1 == <<>> \o SaidBy(StartTag, Fact(ATAG_CORE, <<>>, <<>>))
Told2(b) == Told1 \o SaidBy(SerialTag(b), Nums(b, ATAG_SERIAL, <<"serial.low", "serial.high">>))
Told3(b) == Told2(b) \o SaidBy(RevisionTag(b), Nums(b, ATAG_REVISION, <<"board_rev">>))
Told4(b) == Told3(b) \o SaidBy(MemoryTag(b["ram0.start"], b["ram0.size"]),
                              Nums(b, ATAG_MEM, <<"ram0.size", "ram0.start">>))
Told5(b) == Told4(b) \o SaidBy(MemoryTag(b["ram1.start"], b["ram1.size"]),
                              Nums(b, ATAG_MEM, <<"ram1.size", "ram1.start">>))
Told6(b) == Told5(b) \o SaidBy(CommandlineTag(b), Fact(ATAG_CMDLINE, <<>>, Eaten(b["bootargs"])))
Told7(b) == Told6(b) \o SaidBy(VideolfbTag(b), Nums(b, ATAG_VIDEOLFB, <<"fb.base", "fb.size">>))

LEMMA AllTold ==
  ASSUME NEW b, BoardOK(b)
  PROVE  Told7(b) = IF SerialWraps(b) THEN FactsWith(b, <<>>) ELSE Facts(b)
<1> DEFINE core == Fact(ATAG_CORE, <<>>, <<>>)
<1>1. Told1 = <<core>>
  <2>1. SaidBy(StartTag, core) = <<core>>
    BY CoreTag, Zenon DEF SaidBy
  <2>2. core \in FactSet
    BY CoreTag, Zenon
  <2> HIDE DEF core, FactSet
  <2>3. <<>> \o <<core>> = <<core>>
    BY <2>2
  <2> QED
    BY <2>1, <2>3, Zenon DEF Told1, core
<1>2. /\ SerialTag(b) # <<>> <=> ((b["serial.low"] # 0 \/ b["serial.high"] # 0) /\ ~SerialWraps(b))
      /\ RevisionTag(b) # <<>> <=> b["board_rev"] # 0
      /\ MemoryTag(b["ram0.start"], b["ram0.size"]) # <<>> <=> b["ram0.size"] # 0
      /\ MemoryTag(b["ram1.start"], b["ram1.size"]) # <<>> <=> b["ram1.size"] # 0
      /\ CommandlineTag(b) # <<>> <=> (\E n \in DOMAIN b["bootargs"] : ~IsBlank(b["bootargs"][n]))
      /\ VideolfbTag(b) # <<>> <=> b["fb.size"] # 0
  BY SerialTagFacts, RevisionTagFacts, MemoryTagFacts, CommandlineTagFacts, VideolfbTagFacts, Zenon
<1> DEFINE P(condition, fact) == IF condition THEN <<fact>> ELSE <<>>
<1>3. \A tag, fact : SaidBy(tag, fact) = P(tag # <<>>, fact)
  BY Zenon DEF SaidBy
<1>4. SaidBy(SerialTag(b), Nums(b, ATAG_SERIAL, <<"serial.low", "serial.high">>))
        = IF SerialWraps(b) THEN <<>> ELSE SerialFacts(b)
  BY <1>2, <1>3, Zenon DEF SerialFacts, Nums
<1>5. ASSUME NEW s, s = SaidBy(SerialTag(b), Nums(b, ATAG_SERIAL, <<"serial.low", "serial.high">>))
      PROVE  Told7(b) = FactsWith(b, s)
  BY <1>1, <1>2, <1>3, <1>5, Zenon
     DEF FactsWith, Nums, Told7, Told6, Told5, Told4, Told3, Told2
<1>6. CASE SerialWraps(b)
  BY <1>4, <1>5, <1>6, Zenon
<1>7. CASE ~SerialWraps(b)
  BY <1>4, <1>5, <1>7, Zenon DEF Facts
<1> QED
  BY <1>6, <1>7, Zenon

LEMMA WalkTellsBoard ==
  ASSUME NEW b, BoardOK(b), generate_tag(b).at <= BUFFER
  PROVE  Walk(SubSeq(generate_tag(b).buffer, 1, generate_tag(b).at))
           = IF SerialWraps(b) THEN FactsWith(b, <<>>) ELSE Facts(b)
<1> DEFINE words == SubSeq(generate_tag(b).buffer, 1, generate_tag(b).at)
           last == Written7(b).at
<1>1. /\ words \in Seq(Word) /\ Len(words) = last + 2 /\ last \in Nat
      /\ words[last + 2].num = ATAG_NONE
      /\ Follows(words, Written1(b)) /\ Follows(words, Written2(b)) /\ Follows(words, Written3(b))
      /\ Follows(words, Written4(b)) /\ Follows(words, Written5(b)) /\ Follows(words, Written6(b))
      /\ Follows(words, Written7(b))
  BY WrittenWords, Zenon
<1> HIDE DEF words, last
<1>2. Reached(words, 0, Uncleared, <<>>)
  <2>1. Uncleared.at + 1 = 1 /\ 0 \in 0 .. 0 /\ <<>> \in Seq(FactSet)
    BY UnclearedOK
  <2> QED
    BY <2>1, AfterFacts, Zenon DEF Reached, AtFirst
<1>3. ASSUME NEW m \in 0 .. 7, NEW n, n = m + 1, NEW p, ParamsOK(p), NEW tag, TagOK(tag),
             NEW fact, Tells(tag, fact), NEW f, Reached(words, m, p, f), Follows(words, Setup(p, tag))
      PROVE  Reached(words, n, Setup(p, tag), f \o SaidBy(tag, fact))
  BY <1>1, <1>3, StageWalked
<1>4. /\ 0 \in 0 .. 7 /\ 1 \in 0 .. 7 /\ 2 \in 0 .. 7 /\ 3 \in 0 .. 7 /\ 4 \in 0 .. 7 /\ 5 \in 0 .. 7
      /\ 6 \in 0 .. 7
      /\ 1 = 0 + 1 /\ 2 = 1 + 1 /\ 3 = 2 + 1 /\ 4 = 3 + 1 /\ 5 = 4 + 1 /\ 6 = 5 + 1 /\ 7 = 6 + 1
  OBVIOUS
<1>5. Reached(words, 1, Written1(b), Told1)
  BY <1>1, <1>2, <1>3, <1>4, UnclearedOK, TagsOK, CoreTag, Zenon DEF Written1, Told1
<1>6. Reached(words, 2, Written2(b), Told2(b))
  BY <1>1, <1>3, <1>4, <1>5, WrittenOK, TagsOK, SerialTagFacts, Zenon DEF Written2, Told2
<1>7. Reached(words, 3, Written3(b), Told3(b))
  BY <1>1, <1>3, <1>4, <1>6, WrittenOK, TagsOK, RevisionTagFacts, Zenon DEF Written3, Told3
<1>8. Reached(words, 4, Written4(b), Told4(b))
  BY <1>1, <1>3, <1>4, <1>7, WrittenOK, TagsOK, MemoryTagFacts, Zenon DEF Written4, Told4
<1>9. Reached(words, 5, Written5(b), Told5(b))
  BY <1>1, <1>3, <1>4, <1>8, WrittenOK, TagsOK, MemoryTagFacts, Zenon DEF Written5, Told5
<1>10. Reached(words, 6, Written6(b), Told6(b))
  BY <1>1, <1>3, <1>4, <1>9, WrittenOK, TagsOK, CommandlineTagFacts, Zenon DEF Written6, Told6
<1>11. Reached(words, 7, Written7(b), Told7(b))
  BY <1>1, <1>3, <1>4, <1>10, WrittenOK, TagsOK, VideolfbTagFacts, Zenon DEF Written7, Told7
<1>12. PICK k \in 0 .. 7 : After(words, k) = [at |-> last + 1, facts |-> Told7(b)]
  BY <1>11, Zenon DEF Reached, last
<1> DEFINE there == [at |-> last + 1, facts |-> Told7(b)]
<1>13. Look(words, there) = Over(Told7(b))
  <2>1. there.at = last + 1 /\ there.facts = Told7(b) /\ (last + 1) + 1 = last + 2
        /\ last + 1 # 0 /\ ~(last + 1 >= Len(words))
    BY <1>1
  <2> HIDE DEF there
  <2>2. TagAt(words, last + 1) = ATAG_NONE
    BY <1>1, <2>1, Zenon DEF TagAt
  <2> QED
    BY <2>1, <2>2, Zenon DEF Look
<1>14. k + 1 \in 0 .. 8 /\ After(words, k + 1) = Over(Told7(b))
  <2>1. k + 1 \in 0 .. 8
    OBVIOUS
  <2> QED
    BY <1>12, <1>13, <2>1, AfterFacts, Zenon
<1>15. Over(Told7(b)).at = 0 /\ Over(Told7(b)).facts = Told7(b)
  BY DEF Over
<1>16. Walk(words) = Told7(b)
  BY <1>14, <1>15, Settled, Zenon
<1> QED
  BY <1>16, AllTold, Zenon DEF words

-----------------------------------------------------------------------------
(* tagger: the board before the tags are made, and the buffer afterwards.  *)

ChainInv ==
  /\ config \in Configs /\ visited \in Nat /\ BoardOK(myboard)
  /\ pc \in {"config", "open"} => tlen = 0
  /\ tlen # 0 => /\ generate_tag(myboard).at <= BUFFER
                 /\ buffer = generate_tag(myboard).buffer /\ tlen = generate_tag(myboard).at
  /\ pc \in {"sty", "image"} => tlen # 0

LEMMA MadeFacts ==
  ASSUME NEW b, BoardOK(b)
  PROVE  generate_tag(b).at \in Nat \ {0}
<1>1. ParamsOK(Written7(b)) /\ Written8(b).at = Written7(b).at + 2
  <2>1. ParamsOK(Written7(b))
    BY WrittenOK
  <2>2. Setup(Written7(b), EndTag).at = Written7(b).at + Size(EndTag)
    BY <2>1, EndTagFacts, SetupFacts
  <2> QED
    BY <2>1, <2>2, EndTagFacts, Zenon DEF Written8
<1>2. Written7(b).at \in Nat
  BY <1>1 DEF ParamsOK
<1>3. Written8(b).at \in Nat \ {0}
  BY <1>1, <1>2
<1> QED
  BY <1>3, WrittenInOrder, Zenon

LEMMA ChainInit == Init => ChainInv
<1> SUFFICES ASSUME Init PROVE ChainInv
  OBVIOUS
<1>1. pc = "config" /\ config \in Configs /\ visited = 0 /\ myboard = NoBoard /\ tlen = 0
  BY Zenon DEF Init, TaggerInit
<1>2. BoardOK(myboard)
  BY <1>1, NoBoardOK, Zenon
<1> QED
  BY <1>1, <1>2 DEF ChainInv

\* Where neither the board nor the tags change.
LEMMA ChainKept ==
  ASSUME ChainInv, UNCHANGED <<config, visited, myboard, buffer, tlen>>,
         pc' \in {"config", "open"} => pc \in {"config", "open"},
         pc' \in {"sty", "image"} => pc \in {"sty", "image"}
  PROVE  ChainInv'
BY Zenon DEF ChainInv

LEMMA ChainStep == ChainInv /\ [Next]_vars => ChainInv'
<1> SUFFICES ASSUME ChainInv, [Next]_vars PROVE ChainInv'
  OBVIOUS
<1> DEFINE front == {"config", "open"}
           back == {"sty", "image"}
<1>1. ASSUME UNCHANGED taggerVars PROVE ChainInv'
  BY <1>1, ChainKept DEF taggerVars
<1>2. CASE ParseFails
  BY <1>2, ChainKept DEF ParseFails, Return, outputVars
<1>3. CASE Visit
  <2>1. visited + 1 \in 1 .. Len(config) /\ config \in Configs
    <3>1. visited \in Nat /\ visited < Len(config) /\ Len(config) \in Nat /\ config \in Configs
      BY <1>3, TaggerAssumption DEF ChainInv, Visit
    <3> QED
      BY <3>1
  <2>2. BoardOK(myboard') /\ visited' \in Nat
    BY <1>3, <2>1, HandleOK DEF ChainInv, Visit
  <2>3. tlen = 0 /\ pc' \in {"config", "undefined"} /\ UNCHANGED <<config, buffer, tlen>>
    BY <1>3, Zenon DEF ChainInv, Visit, outputVars
  <2> QED
    BY <2>1, <2>2, <2>3 DEF ChainInv
<1>4. CASE NoMorePairs
  BY <1>4, ChainKept DEF NoMorePairs, outputVars
<1>5. CASE OpenFilesFails
  BY <1>5, ChainKept DEF OpenFilesFails, Return, outputVars
<1>6. CASE Generate
  <2> DEFINE g == generate_tag(myboard)
  <2>1. UNCHANGED <<config, visited, myboard>> /\ BoardOK(myboard) /\ tlen = 0
    BY <1>6 DEF Generate, ChainInv
  <2>2. g.at \in Nat \ {0}
    BY <2>1, MadeFacts
  <2>3. \/ g.at <= BUFFER /\ pc' = "sty" /\ buffer' = g.buffer /\ tlen' = g.at
        \/ pc' = "undefined" /\ tlen' = tlen
    BY <1>6, Zenon DEF Generate
  <2>4. generate_tag(myboard') = g
    BY <2>1
  <2> HIDE DEF g
  <2> QED
    BY <2>1, <2>2, <2>3, <2>4 DEF ChainInv
<1>7. CASE CopySty
  BY <1>7, ChainKept DEF CopySty
<1>8. CASE WriteTags
  BY <1>8, ChainKept DEF WriteTags
<1>9. CASE CopyImage
  BY <1>9, ChainKept DEF CopyImage
<1>10. CASE Close
  BY <1>10, ChainKept DEF Close, Return, outputVars
<1>11. CASE CutFile
  BY <1>11, ChainKept DEF CutFile, outputVars
<1>12. CASE DiskFull
  BY <1>12, ChainKept DEF DiskFull, outputVars
<1>13. CASE Boot \/ CopyWord \/ Jump \/ Terminated \/ UNCHANGED vars
  BY <1>1, <1>13 DEF Boot, CopyWord, Jump, Terminated, vars
<1> QED
  BY <1>2, <1>3, <1>4, <1>5, <1>6, <1>7, <1>8, <1>9, <1>10, <1>11, <1>12, <1>13
     DEF Next, RunTagger, TaggerNext

LEMMA ChainHolds == Spec => []ChainInv
BY ChainInit, ChainStep, PTL DEF Spec

\* Whatever configuration tagger has been given, a kernel that walks the tags
\* finds every fact about the board, in order and whole, if they fitted into
\* the buffer; so that the size in every header is the one by which the setup
\* function behind it was moved. (tagger.c:50-192, tagger.h:149-150)
THEOREM TagsTellBoard == Spec => []ChainDescribesBoard
<1>1. ChainInv => ChainDescribesBoard
  BY WalkTellsBoard, Zenon DEF ChainInv, ChainDescribesBoard
<1> QED
  BY <1>1, ChainHolds, PTL

-----------------------------------------------------------------------------
(* The parts of the image, and what the start-up code makes of them.       *)

\* Nothing has been lost so far.
Intact == ~full /\ styHas = Len(Sty)

\* The first n words of the start-up code, the tags behind it, and the first
\* n words of the kernel behind these.
StyThere(n) == \A k \in 1 .. n : out[k] = Patched(Sty[k])
TagsThere == \A k \in 1 .. tlen : out[Len(Sty) + k] = buffer[k]
KernelThere(n) == \A k \in 1 .. n : out[Len(Sty) + tlen + k] = Kernel(k)

Typed ==
  /\ out \in Seq(Word) /\ ch \in Word
  /\ styHas \in Nat /\ styHas <= Len(Sty)
  /\ imageHas \in Nat /\ len \in Nat /\ i \in Nat

StyInv ==
  pc = "sty" =>
    /\ i <= len /\ styHas <= len /\ len <= Len(Sty)
    /\ Intact => Len(out) = i /\ StyThere(i)

ImageInv ==
  (pc = "image" \/ (pc = "exited" /\ out # <<>>)) =>
    /\ tlen # 0 /\ i <= len /\ imageHas <= len /\ (pc = "exited" => i = len)
    /\ Intact => /\ Len(out) = Len(Sty) + tlen + i
                 /\ StyThere(Len(Sty)) /\ TagsThere
                 /\ imageHas = len => KernelThere(i)

OutInv ==
  /\ Typed /\ StyInv /\ ImageInv
  /\ pc \in {"config", "open"} => out = <<>> /\ styHas = Len(Sty)

\* The words that have been copied.
RamThere == ram \in Seq(Word) /\ \A k \in 1 .. Len(ram) : ram[k] = buffer[k]

BootInv ==
  /\ step \in {"off", "copy", "jump", "kernel"}
  /\ step = "off" => ram = <<>>
  /\ step # "off" => pc = "exited" /\ out # <<>> /\ Intact /\ RamThere
  /\ step = "copy" => /\ Len(ram) < tlen
                      /\ r1 = (4 * tlen + 8) - 4 * Len(ram) /\ r0 = Len(Sty) + Len(ram)
  /\ step \in {"jump", "kernel"} => Len(ram) = tlen
  /\ step = "kernel" => r0 = 0 /\ r1 = myboard["mach_id"] /\ r3 = Len(Sty) + tlen

LEMMA StyFacts ==
  /\ Sty \in Seq(Word) /\ Len(Code) \in Nat /\ Len(Sty) = Len(Code) + 3
  /\ Sty[Len(Code) + 1] = MAGIC_MACHID /\ Sty[Len(Code) + 2] = MAGIC_INTERIMSIZE
<1> DEFINE back == <<MAGIC_MACHID, MAGIC_INTERIMSIZE, Num(0)>>
           l == Len(Code)
<1>1. /\ back \in Seq(Word) /\ Len(back) = 3
      /\ back[1] = MAGIC_MACHID /\ back[2] = MAGIC_INTERIMSIZE
  <2>1. MAGIC_MACHID \in Word /\ MAGIC_INTERIMSIZE \in Word /\ Num(0) \in Word
    BY WordFacts DEF MAGIC_MACHID, MAGIC_INTERIMSIZE
  <2> QED
    BY <2>1
<1>2. Code \in Seq(Word) /\ l \in Nat
  <2> DEFINE Raw == [num : Int, chars : Seq(Characters)]
  <2>1. Code \in Seq(Raw)
    BY TaggerAssumption, Zenon
  <2>2. \A w \in Raw : w \in Word
    BY DEF Word, Letters
  <2> HIDE DEF Raw
  <2> QED
    BY <2>1, <2>2
<1> HIDE DEF back
<1>3. /\ Code \o back \in Seq(Word) /\ Len(Code \o back) = l + 3
      /\ \A k \in 1 .. l + 3 : (Code \o back)[k] = IF k <= l THEN Code[k] ELSE back[k - l]
  <2>1. /\ Code \o back \in Seq(Word) /\ Len(Code \o back) = Len(Code) + Len(back)
        /\ \A k \in 1 .. Len(Code) + Len(back) :
             (Code \o back)[k] = IF k <= Len(Code) THEN Code[k] ELSE back[k - Len(Code)]
    BY <1>1, <1>2, ConcatProperties, Zenon
  <2> QED
    BY <1>1, <2>1, Zenon
<1>4. Sty = Code \o back
  BY Zenon DEF Sty, back
<1> HIDE DEF l
<1>5. /\ l + 1 \in 1 .. l + 3 /\ ~(l + 1 <= l) /\ (l + 1) - l = 1
      /\ l + 2 \in 1 .. l + 3 /\ ~(l + 2 <= l) /\ (l + 2) - l = 2
  BY <1>2
<1>6. Sty[l + 1] = back[1] /\ Sty[l + 2] = back[2]
  BY <1>3, <1>4, <1>5, Zenon
<1> QED
  BY <1>1, <1>2, <1>3, <1>4, <1>6, Zenon DEF l

LEMMA PatchedFacts ==
  ASSUME ChainInv
  PROVE  /\ tlen \in Nat /\ tlen <= BUFFER /\ myboard["mach_id"] \in Int
         /\ tlen # 0 => buffer \in [1 .. BUFFER -> Word]
         /\ \A w \in Word : Patched(w) \in Word
         /\ Patched(MAGIC_MACHID) = Num(myboard["mach_id"])
         /\ Patched(MAGIC_INTERIMSIZE) = Num(4 * tlen)
<1>1. BoardOK(myboard) /\ myboard["mach_id"] \in Int
  BY BoardFacts DEF ChainInv, Keys
<1>2. ParamsOK(generate_tag(myboard))
  BY <1>1, WrittenOK, WrittenInOrder
<1>3. /\ tlen \in Nat /\ tlen <= BUFFER
      /\ tlen # 0 => buffer \in [1 .. BUFFER -> Word]
  <2>1. CASE tlen = 0
    BY <2>1, TaggerAssumption
  <2>2. CASE tlen # 0
    BY <1>2, <2>2, Zenon DEF ChainInv, ParamsOK
  <2> QED
    BY <2>1, <2>2
<1>4. 4 * tlen \in Int
  BY <1>3
<1>5. Num(myboard["mach_id"]) \in Word /\ Num(4 * tlen) \in Word
  BY <1>1, <1>4, WordFacts
<1>6. MAGIC_MACHID # MAGIC_INTERIMSIZE
  BY DEF MAGIC_MACHID, MAGIC_INTERIMSIZE, Num
<1>7. \A w \in Word : Patched(w) \in Word
  BY <1>5, Zenon DEF Patched
<1>8. /\ Patched(MAGIC_MACHID) = Num(myboard["mach_id"])
      /\ Patched(MAGIC_INTERIMSIZE) = Num(4 * tlen)
  BY <1>6, Zenon DEF Patched
<1> QED
  BY <1>1, <1>3, <1>7, <1>8

\* Something is written behind the output.
LEMMA Grown ==
  ASSUME NEW o \in Seq(Word), NEW s \in Seq(Word)
  PROVE  /\ o \o s \in Seq(Word) /\ Len(o \o s) = Len(o) + Len(s)
         /\ \A k \in 1 .. Len(o) : (o \o s)[k] = o[k]
         /\ \A k \in 1 .. Len(s) : (o \o s)[Len(o) + k] = s[k]
OBVIOUS

LEMMA OutInit == Init => OutInv
<1> SUFFICES ASSUME Init PROVE OutInv
  OBVIOUS
<1>1. /\ pc = "config" /\ styHas = Len(Sty) /\ imageHas \in ImageLengths
      /\ len = 0 /\ i = 0 /\ ch = Unread /\ out = <<>>
  BY Zenon DEF Init, TaggerInit
<1>2. styHas \in Nat /\ styHas <= Len(Sty) /\ imageHas \in Nat /\ ch \in Word /\ out \in Seq(Word)
  <2>1. Unread \in Word
    BY WordFacts DEF Unread
  <2>2. Len(Sty) \in Nat
    BY StyFacts
  <2> HIDE DEF Word
  <2> QED
    BY <1>1, <2>1, <2>2, TaggerAssumption
<1> QED
  BY <1>1, <1>2 DEF OutInv, Typed, StyInv, ImageInv

LEMMA OutKept ==
  ASSUME OutInv, UNCHANGED <<myboard, buffer, tlen, len, i, ch, out>>, UNCHANGED <<styHas, imageHas, full>>,
         \/ pc' = pc
         \/ pc' = "exited" /\ out = <<>>
         \/ pc' = "exited" /\ pc = "image" /\ i = len
         \/ pc' = "undefined"
         \/ pc = "config" /\ pc' = "open"
  PROVE  OutInv'
<1>1. \A w : Patched(w)' = Patched(w)
  BY Zenon DEF Patched
<1>2. Intact' = Intact /\ TagsThere' = TagsThere /\ KernelThere(i)' = KernelThere(i)
  BY Zenon DEF Intact, TagsThere, KernelThere
<1>3. StyThere(i)' = StyThere(i) /\ StyThere(Len(Sty))' = StyThere(Len(Sty))
  BY <1>1, Zenon DEF StyThere
<1>4. Typed' /\ (pc' \in {"config", "open"} => out' = <<>> /\ styHas' = Len(Sty))
  BY DEF OutInv, Typed
<1>5. StyInv'
  <2>1. pc' = "sty" => pc = "sty"
    OBVIOUS
  <2> QED
    BY <1>2, <1>3, <2>1, Zenon DEF OutInv, StyInv
<1>6. ImageInv'
  <2>1. pc' = "image" \/ (pc' = "exited" /\ out # <<>>) =>
          /\ pc = "image" \/ (pc = "exited" /\ out # <<>>)
          /\ pc' = "exited" /\ pc # "exited" => i = len
    OBVIOUS
  <2> QED
    BY <1>2, <1>3, <2>1, Zenon DEF OutInv, ImageInv
<1> QED
  BY <1>4, <1>5, <1>6 DEF OutInv

LEMMA CopyStyKeeps == ASSUME ChainInv, OutInv, CopySty PROVE OutInv'
<1> DEFINE source == IF i < styHas THEN Sty[i + 1] ELSE Num(0)
           w == Patched(source)
<1>1. /\ pc = "sty" /\ i < len /\ out' = IF full THEN out ELSE out \o <<w>>
      /\ i' = i + 1
      /\ UNCHANGED <<pc, myboard, buffer, tlen, len, ch>> /\ UNCHANGED <<styHas, imageHas, full>>
  BY Zenon DEF CopySty, Writes, fileVars
<1>2. /\ out \in Seq(Word) /\ ch \in Word /\ styHas \in Nat /\ styHas <= Len(Sty)
      /\ imageHas \in Nat /\ len \in Nat /\ i \in Nat
      /\ styHas <= len /\ len <= Len(Sty)
      /\ Intact => Len(out) = i /\ StyThere(i)
  BY <1>1 DEF OutInv, Typed, StyInv
<1>3. source \in Word
  <2>1. i < styHas => i + 1 \in 1 .. Len(Sty)
    BY <1>2, StyFacts
  <2>2. Num(0) \in Word /\ Sty \in Seq(Word)
    BY WordFacts, StyFacts
  <2> HIDE DEF Word
  <2> QED
    BY <2>1, <2>2
<1> HIDE DEF source
<1>4. w \in Word /\ <<w>> \in Seq(Word) /\ Len(<<w>>) = 1 /\ <<w>>[1] = w
  <2>1. w \in Word
    BY <1>3, PatchedFacts, Zenon
  <2> HIDE DEF Word, w
  <2> QED
    BY <2>1
<1> HIDE DEF w
<1>5. /\ out \o <<w>> \in Seq(Word) /\ Len(out \o <<w>>) = Len(out) + 1
      /\ \A k \in 1 .. Len(out) : (out \o <<w>>)[k] = out[k]
      /\ (out \o <<w>>)[Len(out) + 1] = w
  <2>1. 1 \in 1 .. 1
    OBVIOUS
  <2> QED
    BY <1>2, <1>4, <2>1, Grown, Zenon
<1>6. Typed'
  <2>1. out' \in Seq(Word) /\ i + 1 \in Nat
    BY <1>1, <1>2, <1>5
  <2> QED
    BY <1>1, <1>2, <2>1 DEF Typed
<1>7. \A x : Patched(x)' = Patched(x)
  BY <1>1, Zenon DEF Patched
<1>8. Intact' => Len(out') = i + 1 /\ \A k \in 1 .. i + 1 : out'[k] = Patched(Sty[k])
  <2> SUFFICES ASSUME Intact' PROVE Len(out') = i + 1 /\ \A k \in 1 .. i + 1 : out'[k] = Patched(Sty[k])
    OBVIOUS
  <2>1. Intact /\ Len(out) = i /\ ~full /\ StyThere(i)
    BY <1>1, <1>2, Zenon DEF Intact
  <2>2. i < styHas
    BY <1>1, <1>2, <2>1 DEF Intact
  <2>3. w = Patched(Sty[i + 1]) /\ out' = out \o <<w>>
    BY <1>1, <2>1, <2>2 DEF w, source
  <2>4. \A k \in 1 .. i + 1 : k \in 1 .. i \/ k = i + 1
    BY <1>2
  <2> QED
    BY <1>5, <2>1, <2>3, <2>4, Zenon DEF StyThere
<1>9. StyInv'
  <2>1. Intact' => Len(out)' = i' /\ StyThere(i)'
    BY <1>1, <1>7, <1>8, Zenon DEF StyThere
  <2>2. i' <= len' /\ styHas' <= len' /\ len' <= Len(Sty)
    BY <1>1, <1>2
  <2> QED
    BY <2>1, <2>2, Zenon DEF StyInv
<1>10. ImageInv' /\ pc' = "sty"
  BY <1>1 DEF ImageInv
<1> QED
  BY <1>6, <1>9, <1>10 DEF OutInv

LEMMA WriteTagsKeeps == ASSUME ChainInv, OutInv, WriteTags PROVE OutInv'
<1> DEFINE tags == SubSeq(buffer, 1, tlen)
<1>1. /\ pc = "sty" /\ i = len /\ out' = IF full THEN out ELSE out \o tags
      /\ len' = imageHas /\ i' = 0 /\ pc' = "image"
      /\ UNCHANGED <<myboard, buffer, tlen, ch>> /\ UNCHANGED <<styHas, imageHas, full>>
  BY Zenon DEF WriteTags, Writes, fileVars
<1>2. /\ out \in Seq(Word) /\ ch \in Word /\ styHas \in Nat /\ styHas <= Len(Sty)
      /\ imageHas \in Nat /\ len \in Nat /\ i \in Nat
      /\ styHas <= len /\ len <= Len(Sty)
      /\ Intact => Len(out) = i /\ StyThere(i)
  BY <1>1 DEF OutInv, Typed, StyInv
<1>3. tlen \in Nat /\ tlen # 0 /\ tlen <= BUFFER /\ buffer \in [1 .. BUFFER -> Word]
  BY <1>1, PatchedFacts DEF ChainInv
<1>4. tags \in Seq(Word) /\ Len(tags) = tlen /\ \A k \in 1 .. tlen : tags[k] = buffer[k]
  <2>1. buffer \in Seq(Word) /\ Len(buffer) = BUFFER /\ tlen \in 0 .. BUFFER
    BY <1>3, TaggerAssumption
  <2> QED
    BY <2>1
<1> HIDE DEF tags
<1>5. /\ out \o tags \in Seq(Word) /\ Len(out \o tags) = Len(out) + tlen
      /\ \A k \in 1 .. Len(out) : (out \o tags)[k] = out[k]
      /\ \A k \in 1 .. tlen : (out \o tags)[Len(out) + k] = buffer[k]
  BY <1>2, <1>4, Grown, Zenon
<1>6. Typed'
  <2>1. out' \in Seq(Word)
    BY <1>1, <1>2, <1>5, Zenon
  <2> QED
    BY <1>1, <1>2, <2>1 DEF Typed
<1>7. \A x : Patched(x)' = Patched(x)
  BY <1>1, Zenon DEF Patched
<1>8. Intact' => /\ Len(out') = Len(Sty) + tlen
                 /\ \A k \in 1 .. Len(Sty) : out'[k] = Patched(Sty[k])
                 /\ \A k \in 1 .. tlen : out'[Len(Sty) + k] = buffer[k]
  <2> SUFFICES ASSUME Intact'
               PROVE  /\ Len(out') = Len(Sty) + tlen
                      /\ \A k \in 1 .. Len(Sty) : out'[k] = Patched(Sty[k])
                      /\ \A k \in 1 .. tlen : out'[Len(Sty) + k] = buffer[k]
    OBVIOUS
  <2>1. Intact /\ Len(out) = i /\ ~full /\ StyThere(i)
    BY <1>1, <1>2, Zenon DEF Intact
  <2>2. i = Len(Sty)
    BY <1>1, <1>2, <2>1, StyFacts DEF Intact
  <2> QED
    BY <1>1, <1>5, <2>1, <2>2, Zenon DEF StyThere
<1>9. ImageInv'
  <2>1. Intact' => /\ Len(out)' = (Len(Sty) + tlen + i)' /\ StyThere(Len(Sty))' /\ TagsThere'
                   /\ KernelThere(i)'
    <3>1. Len(Sty) + tlen + 0 = Len(Sty) + tlen
      BY <1>3, StyFacts
    <3>2. \A k \in 1 .. 0 : out'[Len(Sty) + tlen + k] = Kernel(k)
      OBVIOUS
    <3> QED
      BY <1>1, <1>7, <1>8, <3>1, <3>2, Zenon DEF StyThere, TagsThere, KernelThere
  <2>2. tlen' # 0 /\ i' <= len' /\ imageHas' <= len' /\ pc' # "exited"
    BY <1>1, <1>2, <1>3
  <2> QED
    BY <2>1, <2>2, Zenon DEF ImageInv
<1>10. StyInv' /\ pc' = "image"
  BY <1>1 DEF StyInv
<1> QED
  BY <1>6, <1>9, <1>10 DEF OutInv

LEMMA CopyImageKeeps == ASSUME ChainInv, OutInv, CopyImage PROVE OutInv'
<1> DEFINE w == IF i < imageHas THEN Kernel(i + 1) ELSE ch
<1>1. /\ pc = "image" /\ i < len /\ out' = IF full THEN out ELSE out \o <<w>>
      /\ ch' = w /\ i' = i + 1
      /\ UNCHANGED <<pc, myboard, buffer, tlen, len>> /\ UNCHANGED <<styHas, imageHas, full>>
  BY Zenon DEF CopyImage, Writes, fileVars
<1>2. /\ out \in Seq(Word) /\ ch \in Word /\ styHas \in Nat /\ styHas <= Len(Sty)
      /\ imageHas \in Nat /\ len \in Nat /\ i \in Nat
      /\ tlen # 0 /\ imageHas <= len
      /\ Intact => /\ Len(out) = Len(Sty) + tlen + i
                   /\ StyThere(Len(Sty)) /\ TagsThere
                   /\ imageHas = len => KernelThere(i)
  BY <1>1 DEF OutInv, Typed, ImageInv
<1>3. tlen \in Nat /\ Len(Sty) \in Nat
  BY PatchedFacts, StyFacts
<1>4. w \in Word /\ <<w>> \in Seq(Word) /\ Len(<<w>>) = 1 /\ <<w>>[1] = w
  <2>1. -10 - (i + 1) \in Int
    BY <1>2
  <2>2. Kernel(i + 1) \in Word
    BY <2>1, WordFacts, Zenon DEF Kernel
  <2>3. w \in Word
    BY <1>2, <2>2, Zenon
  <2> HIDE DEF Word, w
  <2> QED
    BY <2>3
<1>5. imageHas = len => w = Kernel(i + 1)
  BY <1>1
<1> HIDE DEF w
<1>6. /\ out \o <<w>> \in Seq(Word) /\ Len(out \o <<w>>) = Len(out) + 1
      /\ \A k \in 1 .. Len(out) : (out \o <<w>>)[k] = out[k]
      /\ (out \o <<w>>)[Len(out) + 1] = w
  <2>1. 1 \in 1 .. 1
    OBVIOUS
  <2> QED
    BY <1>2, <1>4, <2>1, Grown, Zenon
<1>7. Typed'
  <2>1. out' \in Seq(Word) /\ i + 1 \in Nat
    BY <1>1, <1>2, <1>6
  <2> QED
    BY <1>1, <1>2, <1>4, <2>1 DEF Typed
<1>8. \A x : Patched(x)' = Patched(x)
  BY <1>1, Zenon DEF Patched
<1>9. Intact' => /\ Len(out)' = (Len(Sty) + tlen + i)' /\ StyThere(Len(Sty))' /\ TagsThere'
                 /\ (imageHas = len)' => KernelThere(i)'
  <2> SUFFICES ASSUME Intact'
               PROVE  /\ Len(out)' = (Len(Sty) + tlen + i)' /\ StyThere(Len(Sty))' /\ TagsThere'
                      /\ (imageHas = len)' => KernelThere(i)'
    OBVIOUS
  <2>1. /\ Intact /\ out' = out \o <<w>> /\ Len(out) = Len(Sty) + tlen + i
        /\ StyThere(Len(Sty)) /\ TagsThere
    BY <1>1, <1>2, Zenon DEF Intact
  <2>2. Len(out') = Len(Sty) + tlen + (i + 1)
    BY <1>2, <1>3, <1>6, <2>1
  <2>3. ASSUME NEW k \in 1 .. Len(Sty) PROVE out'[k] = Patched(Sty[k])
    <3>1. k \in 1 .. Len(out)
      BY <1>2, <1>3, <2>1
    <3> QED
      BY <1>6, <2>1, <3>1, Zenon DEF StyThere
  <2>4. ASSUME NEW k \in 1 .. tlen PROVE out'[Len(Sty) + k] = buffer[k]
    <3>1. Len(Sty) + k \in 1 .. Len(out)
      BY <1>2, <1>3, <2>1
    <3> QED
      BY <1>6, <2>1, <3>1, Zenon DEF TagsThere
  <2>5. ASSUME NEW k \in 1 .. i + 1, imageHas = len PROVE out'[Len(Sty) + tlen + k] = Kernel(k)
    <3>1. CASE k = i + 1
      <4>1. Len(Sty) + tlen + (i + 1) = Len(out) + 1
        BY <1>2, <1>3, <2>1
      <4> QED
        BY <1>5, <1>6, <2>1, <2>5, <3>1, <4>1, Zenon
    <3>2. CASE k # i + 1
      <4>1. k \in 1 .. i /\ Len(Sty) + tlen + k \in 1 .. Len(out)
        BY <1>2, <1>3, <2>1, <3>2
      <4> QED
        BY <1>2, <1>6, <2>1, <2>5, <4>1, Zenon DEF KernelThere
    <3> QED
      BY <3>1, <3>2
  <2> QED
    BY <1>1, <1>8, <2>2, <2>3, <2>4, <2>5, Zenon DEF StyThere, TagsThere, KernelThere
<1>10. ImageInv'
  <2>1. tlen' # 0 /\ i' <= len' /\ imageHas' <= len' /\ pc' # "exited"
    BY <1>1, <1>2
  <2> QED
    BY <1>9, <2>1, Zenon DEF ImageInv
<1>11. StyInv' /\ pc' = "image"
  BY <1>1 DEF StyInv
<1> QED
  BY <1>7, <1>10, <1>11 DEF OutInv

\* What others do: the image is not whole any more, or its kernel is not.
LEMMA LessKept ==
  ASSUME ChainInv, OutInv, pc \in {"sty", "image"}, pc' = pc,
         UNCHANGED <<myboard, buffer, tlen, len, i, ch, out>>,
         styHas' \in Nat, imageHas' \in Nat, styHas' <= styHas, imageHas' <= imageHas,
         ~Intact' \/ (imageHas' < imageHas /\ UNCHANGED <<styHas, full>>)
  PROVE  OutInv'
<1>1. \A w : Patched(w)' = Patched(w)
  BY Zenon DEF Patched
<1>2. TagsThere' = TagsThere /\ (Intact' => Intact)
  <2>1. TagsThere' = TagsThere
    BY Zenon DEF TagsThere
  <2>2. styHas' = styHas /\ full' = full => (Intact' => Intact)
    BY DEF Intact
  <2> QED
    BY <2>1, <2>2
<1>3. StyThere(i)' = StyThere(i) /\ StyThere(Len(Sty))' = StyThere(Len(Sty))
  BY <1>1, Zenon DEF StyThere
<1>4. Typed' /\ pc' \notin {"config", "open"}
  <2>1. styHas \in Nat /\ styHas <= Len(Sty) /\ Len(Sty) \in Nat
    BY StyFacts DEF OutInv, Typed
  <2>2. styHas' <= Len(Sty)
    BY <2>1
  <2> QED
    BY <2>2 DEF OutInv, Typed
<1>5. StyInv'
  <2>1. CASE pc # "sty"
    BY <2>1 DEF StyInv
  <2>2. CASE pc = "sty"
    <3>1. /\ i <= len /\ styHas <= len /\ len <= Len(Sty)
          /\ Intact => Len(out) = i /\ StyThere(i)
      BY <2>2, Zenon DEF OutInv, StyInv
    <3>2. styHas' <= len
      BY <3>1 DEF OutInv, Typed
    <3> QED
      BY <1>2, <1>3, <3>1, <3>2, Zenon DEF StyInv
  <2> QED
    BY <2>1, <2>2
<1>6. ImageInv'
  <2>1. CASE pc # "image"
    BY <2>1 DEF ImageInv
  <2>2. CASE pc = "image"
    <3>1. /\ tlen # 0 /\ i <= len /\ imageHas <= len
          /\ Intact => Len(out) = Len(Sty) + tlen + i /\ StyThere(Len(Sty)) /\ TagsThere
      BY <2>2, Zenon DEF OutInv, ImageInv
    <3>2. imageHas' <= len /\ (imageHas' = len => ~Intact')
      BY <3>1 DEF OutInv, Typed
    <3>3. pc' # "exited"
      BY <2>2
    <3> QED
      BY <1>2, <1>3, <3>1, <3>2, <3>3, Zenon DEF ImageInv
  <2> QED
    BY <2>1, <2>2
<1> QED
  BY <1>4, <1>5, <1>6 DEF OutInv

LEMMA OutStep == ChainInv /\ OutInv /\ [Next]_vars => OutInv'
<1> SUFFICES ASSUME ChainInv, OutInv, [Next]_vars PROVE OutInv'
  OBVIOUS
<1>1. ASSUME UNCHANGED taggerVars PROVE OutInv'
  BY <1>1, OutKept DEF taggerVars
<1>2. CASE ParseFails \/ OpenFilesFails
  <2>1. pc \in {"config", "open"} /\ pc' = "exited"
    BY <1>2 DEF ParseFails, OpenFilesFails, Return
  <2>2. out = <<>>
    BY <2>1 DEF OutInv
  <2> QED
    BY <1>2, <2>1, <2>2, OutKept DEF ParseFails, OpenFilesFails, outputVars, fileVars
<1>3. CASE Visit
  <2>1. /\ pc = "config" /\ pc' \in {"config", "undefined"}
        /\ UNCHANGED <<buffer, tlen, len, i, ch, out>> /\ UNCHANGED <<styHas, imageHas, full>>
    BY <1>3, Zenon DEF Visit, outputVars, fileVars
  <2> QED
    BY <2>1 DEF OutInv, Typed, StyInv, ImageInv
<1>4. CASE NoMorePairs
  BY <1>4, OutKept DEF NoMorePairs, outputVars, fileVars
<1>5. CASE Generate
  <2>1. /\ pc = "open" /\ pc' \in {"sty", "undefined"} /\ len' = styHas /\ i' = 0
        /\ UNCHANGED <<ch, out>> /\ UNCHANGED <<styHas, imageHas, full>>
    BY <1>5 DEF Generate, fileVars
  <2>2. out = <<>> /\ styHas = Len(Sty) /\ Typed
    BY <2>1 DEF OutInv
  <2>3. Typed'
    BY <2>1, <2>2 DEF Typed
  <2>4. StyInv'
    <3>1. 0 <= styHas /\ styHas <= styHas /\ styHas <= Len(Sty) /\ Len(out) = 0
      BY <2>2 DEF Typed
    <3>2. \A k \in 1 .. 0 : out'[k] = Patched(Sty[k])'
      OBVIOUS
    <3> QED
      BY <2>1, <3>1, <3>2, Zenon DEF StyInv, StyThere
  <2>5. ImageInv'
    BY <2>1, <2>2 DEF ImageInv
  <2> QED
    BY <2>1, <2>3, <2>4, <2>5 DEF OutInv
<1>6. CASE CopySty
  BY <1>6, CopyStyKeeps
<1>7. CASE WriteTags
  BY <1>7, WriteTagsKeeps
<1>8. CASE CopyImage
  BY <1>8, CopyImageKeeps
<1>9. CASE Close
  BY <1>9, OutKept DEF Close, Return, outputVars, fileVars
<1>10. CASE CutFile
  <2>1. /\ pc \in {"sty", "image"} /\ pc' = pc
        /\ UNCHANGED <<myboard, buffer, tlen, len, i, ch, out>> /\ full' = full
        /\ \/ styHas' \in 0 .. styHas - 1 /\ imageHas' = imageHas
           \/ imageHas' \in 0 .. imageHas - 1 /\ styHas' = styHas
    BY <1>10 DEF CutFile, outputVars
  <2>2. styHas \in Nat /\ imageHas \in Nat /\ styHas <= Len(Sty) /\ Len(Sty) \in Nat
    BY StyFacts DEF OutInv, Typed
  <2>3. styHas' \in Nat /\ imageHas' \in Nat /\ styHas' <= styHas /\ imageHas' <= imageHas
        /\ (styHas' < styHas \/ (imageHas' < imageHas /\ styHas' = styHas))
    BY <2>1, <2>2
  <2>4. styHas' < styHas => ~Intact'
    BY <2>2, <2>3 DEF Intact
  <2> QED
    BY <2>1, <2>3, <2>4, LessKept
<1>11. CASE DiskFull
  <2>1. /\ pc \in {"sty", "image"} /\ pc' = pc
        /\ UNCHANGED <<myboard, buffer, tlen, len, i, ch, out>> /\ full' = TRUE
        /\ styHas' = styHas /\ imageHas' = imageHas
    BY <1>11 DEF DiskFull, outputVars
  <2>2. styHas' \in Nat /\ imageHas' \in Nat /\ styHas' <= styHas /\ imageHas' <= imageHas
    BY <2>1 DEF OutInv, Typed
  <2>3. ~Intact'
    BY <2>1 DEF Intact
  <2> QED
    BY <2>1, <2>2, <2>3, LessKept
<1>12. CASE Boot \/ CopyWord \/ Jump \/ Terminated \/ UNCHANGED vars
  BY <1>1, <1>12 DEF Boot, CopyWord, Jump, Terminated, vars
<1> QED
  BY <1>2, <1>3, <1>4, <1>5, <1>6, <1>7, <1>8, <1>9, <1>10, <1>11, <1>12
     DEF Next, RunTagger, TaggerNext

\* What an image that can be booted holds.
LEMMA BootableFacts ==
  ASSUME ChainInv, OutInv, pc = "exited", out # <<>>, Intact
  PROVE  /\ tlen \in Nat \ {0} /\ tlen <= BUFFER /\ buffer \in [1 .. BUFFER -> Word]
         /\ out \in Seq(Word) /\ len \in Nat /\ myboard["mach_id"] \in Int
         /\ Len(Sty) \in Nat /\ sty_end + 1 = Len(Sty)
         /\ Load(mach_id) = Num(myboard["mach_id"]) /\ Load(interim_data_size) = Num(4 * tlen)
         /\ Len(out) = Len(Sty) + tlen + len /\ TagsThere
         /\ imageHas = len => KernelThere(len)
<1>1. /\ tlen # 0 /\ i = len /\ Len(out) = Len(Sty) + tlen + i
      /\ StyThere(Len(Sty)) /\ TagsThere /\ (imageHas = len => KernelThere(i))
  BY Zenon DEF OutInv, ImageInv
<1>2. out \in Seq(Word) /\ len \in Nat
  BY DEF OutInv, Typed
<1>3. /\ tlen \in Nat /\ tlen <= BUFFER /\ buffer \in [1 .. BUFFER -> Word]
      /\ myboard["mach_id"] \in Int
      /\ Patched(MAGIC_MACHID) = Num(myboard["mach_id"])
      /\ Patched(MAGIC_INTERIMSIZE) = Num(4 * tlen)
  BY <1>1, PatchedFacts
<1>4. /\ Len(Sty) \in Nat /\ sty_end + 1 = Len(Sty)
      /\ Len(Code) + 1 \in 1 .. Len(Sty) /\ Len(Code) + 2 \in 1 .. Len(Sty)
      /\ mach_id + 1 = Len(Code) + 1 /\ interim_data_size + 1 = Len(Code) + 2
  BY StyFacts DEF sty_end, mach_id, interim_data_size
<1>5. /\ out[Len(Code) + 1] = Patched(MAGIC_MACHID)
      /\ out[Len(Code) + 2] = Patched(MAGIC_INTERIMSIZE)
  BY <1>1, <1>4, StyFacts, Zenon DEF StyThere
<1>6. Load(mach_id) = Num(myboard["mach_id"]) /\ Load(interim_data_size) = Num(4 * tlen)
  BY <1>3, <1>4, <1>5, Zenon DEF Load
<1>7. tlen \in Nat \ {0}
  BY <1>1, <1>3
<1> QED
  BY <1>1, <1>2, <1>3, <1>4, <1>6, <1>7, Zenon

LEMMA BootInit == Init => BootInv
BY DEF Init, BootInv

\* The files do not change any more.
LEMMA BootKept ==
  ASSUME BootInv, UNCHANGED taggerVars, UNCHANGED linuxVars
  PROVE  BootInv'
<1>1. Intact' = Intact /\ RamThere' = RamThere
  BY DEF taggerVars, linuxVars, Intact, RamThere
<1> QED
  BY <1>1 DEF taggerVars, linuxVars, BootInv

LEMMA BootStep == ChainInv /\ OutInv /\ BootInv /\ [Next]_vars => BootInv'
<1> SUFFICES ASSUME ChainInv, OutInv, BootInv, [Next]_vars PROVE BootInv'
  OBVIOUS
<1>1. CASE RunTagger
  <2>1. pc # "exited" /\ UNCHANGED linuxVars
    BY <1>1 DEF RunTagger, TaggerNext, ParseFails, Visit, NoMorePairs, OpenFilesFails, Generate,
                CopySty, WriteTags, CopyImage, Close, CutFile, DiskFull
  <2>2. step = "off" /\ ram = <<>> /\ step' = step /\ ram' = ram
    BY <2>1 DEF BootInv, linuxVars
  <2> QED
    BY <2>2 DEF BootInv
<1>2. CASE Boot
  <2>1. /\ step = "off" /\ pc = "exited" /\ out # <<>> /\ Intact /\ ram = <<>>
        /\ step' = "copy" /\ r0' = sty_end + 1 /\ r1' = Load(interim_data_size).num + 8
        /\ ram' = ram /\ UNCHANGED <<pc, out, tlen, buffer>> /\ UNCHANGED <<full, styHas>>
    BY <1>2 DEF Boot, Intact, BootInv, taggerVars
  <2>2. /\ tlen \in Nat \ {0} /\ sty_end + 1 = Len(Sty) /\ Len(Sty) \in Nat
        /\ Load(interim_data_size).num = 4 * tlen
    <3>1. 4 * tlen \in Int
      BY <2>1, BootableFacts
    <3>2. Num(4 * tlen).num = 4 * tlen
      BY <3>1, WordFacts
    <3> QED
      BY <2>1, <3>2, BootableFacts
  <2>3. Intact' /\ RamThere' /\ Len(ram') = 0
    BY <2>1 DEF Intact, RamThere
  <2>4. /\ Len(ram') < tlen' /\ r1' = (4 * tlen' + 8) - 4 * Len(ram') /\ r0' = Len(Sty) + Len(ram')
    BY <2>1, <2>2, <2>3
  <2> QED
    BY <2>1, <2>3, <2>4 DEF BootInv
<1>3. CASE CopyWord
  <2> DEFINE n == Len(ram)
             w == Load(r0)
  <2>1. /\ step = "copy" /\ r1' = r1 - 4 /\ ram' = Append(ram, w)
        /\ step' = IF r1' <= 8 THEN "jump" ELSE "copy"
        /\ r0' = r0 + 1 /\ UNCHANGED <<pc, out, tlen, buffer>> /\ UNCHANGED <<full, styHas>>
    BY <1>3 DEF CopyWord, Copied, taggerVars
  <2>2. /\ pc = "exited" /\ out # <<>> /\ Intact /\ ram \in Seq(Word)
        /\ \A k \in 1 .. n : ram[k] = buffer[k]
        /\ n < tlen /\ r1 = (4 * tlen + 8) - 4 * n /\ r0 = Len(Sty) + n /\ n \in Nat
    BY <2>1 DEF BootInv, RamThere
  <2>3. /\ tlen \in Nat /\ tlen <= BUFFER /\ buffer \in [1 .. BUFFER -> Word] /\ Len(Sty) \in Nat
        /\ \A k \in 1 .. tlen : out[Len(Sty) + k] = buffer[k]
    BY <2>2, BootableFacts DEF TagsThere
  <2> HIDE DEF n, w
  <2>4. w = buffer[n + 1] /\ w \in Word
    <3>1. n + 1 \in 1 .. tlen /\ n + 1 \in 1 .. BUFFER /\ r0 + 1 = Len(Sty) + (n + 1)
      BY <2>2, <2>3, TaggerAssumption
    <3>2. w = out[r0 + 1]
      BY DEF w, Load
    <3>3. out[Len(Sty) + (n + 1)] = buffer[n + 1] /\ buffer[n + 1] \in Word
      BY <2>3, <3>1, Zenon
    <3> QED
      BY <3>1, <3>2, <3>3, Zenon
  <2>5. /\ Append(ram, w) \in Seq(Word) /\ Len(Append(ram, w)) = n + 1
        /\ \A k \in 1 .. n + 1 : Append(ram, w)[k] = buffer[k]
    <3>1. /\ Append(ram, w) \in Seq(Word) /\ Len(Append(ram, w)) = n + 1
          /\ \A k \in 1 .. n : Append(ram, w)[k] = ram[k]
          /\ Append(ram, w)[n + 1] = w
      BY <2>2, <2>4 DEF n
    <3>2. \A k \in 1 .. n + 1 : k \in 1 .. n \/ k = n + 1
      BY <2>2
    <3> QED
      BY <2>2, <2>4, <3>1, <3>2, Zenon
  <2>6. RamThere' /\ Intact' /\ Len(ram') = n + 1
    BY <2>1, <2>2, <2>5, Zenon DEF RamThere, Intact
  <2>7. /\ step' = IF n + 1 < tlen THEN "copy" ELSE "jump"
        /\ r1' = (4 * tlen + 8) - 4 * (n + 1) /\ r0' = Len(Sty) + (n + 1)
        /\ (~(n + 1 < tlen) => n + 1 = tlen)
    <3>1. r1 - 4 = (4 * tlen + 8) - 4 * (n + 1) /\ r0 + 1 = Len(Sty) + (n + 1)
          /\ (r1 - 4 <= 8 <=> ~(n + 1 < tlen)) /\ (~(n + 1 < tlen) => n + 1 = tlen)
      BY <2>2, <2>3
    <3> QED
      BY <2>1, <3>1
  <2>8. pc' = "exited" /\ out' # <<>> /\ tlen' = tlen
    BY <2>1, <2>2
  <2> QED
    BY <2>6, <2>7, <2>8 DEF BootInv
<1>4. CASE Jump
  <2>1. /\ step = "jump" /\ step' = "kernel" /\ r0' = 0 /\ r1' = Load(mach_id).num
        /\ r3' = sty_end + (Load(interim_data_size).num \div 4) + 1 /\ ram' = ram
        /\ UNCHANGED <<pc, out, tlen, buffer, myboard>> /\ UNCHANGED <<full, styHas>>
    BY <1>4 DEF Jump, taggerVars
  <2>2. pc = "exited" /\ out # <<>> /\ Intact /\ RamThere /\ Len(ram) = tlen
    BY <2>1 DEF BootInv
  <2>3. /\ tlen \in Nat /\ Len(Sty) \in Nat /\ sty_end + 1 = Len(Sty) /\ sty_end \in Int
        /\ Load(mach_id).num = myboard["mach_id"] /\ Load(interim_data_size).num = 4 * tlen
    <3>1. 4 * tlen \in Int /\ sty_end \in Int
      BY <2>2, BootableFacts, StyFacts DEF sty_end
    <3>2. Num(4 * tlen).num = 4 * tlen
      BY <3>1, WordFacts
    <3>3. Num(myboard["mach_id"]).num = myboard["mach_id"]
      BY <2>2, BootableFacts, WordFacts
    <3> QED
      BY <2>2, <3>1, <3>2, <3>3, BootableFacts
  <2>4. r3' = Len(Sty) + tlen
    <3>1. (4 * tlen) \div 4 = tlen
      BY <2>3
    <3>2. sty_end + tlen + 1 = Len(Sty) + tlen
      BY <2>3
    <3> QED
      BY <2>1, <2>3, <3>1, <3>2
  <2>5. Intact' /\ RamThere' /\ Len(ram') = tlen' /\ r1' = myboard'["mach_id"]
    BY <2>1, <2>2, <2>3 DEF Intact, RamThere
  <2> QED
    BY <2>1, <2>2, <2>4, <2>5 DEF BootInv
<1>5. CASE Terminated \/ UNCHANGED vars
  BY <1>5, BootKept DEF Terminated, vars
<1> QED
  BY <1>1, <1>2, <1>3, <1>4, <1>5 DEF Next

LEMMA BootHolds == Spec => [](ChainInv /\ OutInv /\ BootInv)
<1>1. Init => ChainInv /\ OutInv /\ BootInv
  BY ChainInit, OutInit, BootInit
<1>2. ChainInv /\ OutInv /\ BootInv /\ [Next]_vars => (ChainInv /\ OutInv /\ BootInv)'
  BY ChainStep, OutStep, BootStep
<1> QED
  BY <1>1, <1>2, PTL DEF Spec

\* The start-up code of whatever length, with whatever tags and kernel behind
\* it: where it has jumped, the tags have been copied whole and not a word
\* more, the machine is the board's and the kernel begins where it was jumped
\* to. (sty-omap3.S:295-359, tagger.c:375-409)
THEOREM KernelStartsWithTags == Spec => []KernelFindsTags
<1>1. ASSUME ChainInv, OutInv, BootInv PROVE KernelFindsTags
  <2> SUFFICES ASSUME step = "kernel" PROVE
        /\ ram = SubSeq(buffer, 1, tlen)
        /\ r0 = 0 /\ r1 = myboard["mach_id"]
        /\ imageHas = len => SubSeq(out, r3 + 1, Len(out)) = [n \in 1 .. len |-> Kernel(n)]
    BY DEF KernelFindsTags
  <2>1. /\ pc = "exited" /\ out # <<>> /\ Intact /\ ram \in Seq(Word) /\ Len(ram) = tlen
        /\ \A k \in 1 .. Len(ram) : ram[k] = buffer[k]
        /\ r0 = 0 /\ r1 = myboard["mach_id"] /\ r3 = Len(Sty) + tlen
    BY <1>1 DEF BootInv, RamThere
  <2>2. /\ tlen \in Nat /\ tlen <= BUFFER /\ buffer \in [1 .. BUFFER -> Word]
        /\ out \in Seq(Word) /\ len \in Nat /\ Len(Sty) \in Nat
        /\ Len(out) = Len(Sty) + tlen + len
        /\ imageHas = len => \A k \in 1 .. len : out[Len(Sty) + tlen + k] = Kernel(k)
    BY <1>1, <2>1, BootableFacts DEF KernelThere
  <2>3. ram = SubSeq(buffer, 1, tlen)
    <3> DEFINE s == SubSeq(buffer, 1, tlen)
    <3>1. buffer \in Seq(Word) /\ Len(buffer) = BUFFER /\ tlen \in 0 .. BUFFER
      BY <2>2, TaggerAssumption
    <3>2. s \in Seq(Word) /\ Len(s) = tlen /\ \A k \in 1 .. tlen : s[k] = buffer[k]
      BY <3>1
    <3> HIDE DEF s
    <3>3. ram = s
      BY <2>1, <3>2, SeqEqual
    <3> QED
      BY <3>3 DEF s
  <2>4. ASSUME imageHas = len PROVE SubSeq(out, r3 + 1, Len(out)) = [n \in 1 .. len |-> Kernel(n)]
    <3> DEFINE m == r3 + 1
               l == Len(out)
               s == SubSeq(out, m, l)
               f == [n \in 1 .. len |-> Kernel(n)]
    <3>1. m \in Nat \ {0} /\ l \in Nat /\ (l - m) + 1 = len /\ m <= l + 1
      BY <2>1, <2>2
    <3> HIDE DEF m
    <3>2. s \in Seq(Word) /\ Len(s) = (l - m) + 1 /\ \A k \in 1 .. Len(s) : s[k] = out[(m + k) - 1]
      BY <2>2, <3>1
    <3>3. \A k \in 1 .. len : s[k] = Kernel(k)
      <4>1. ASSUME NEW k \in 1 .. len PROVE (m + k) - 1 = Len(Sty) + tlen + k
        BY <2>1, <2>2 DEF m
      <4> HIDE DEF s, l
      <4> QED
        BY <2>2, <2>4, <3>1, <3>2, <4>1
    <3>4. s = [k \in 1 .. Len(s) |-> s[k]]
      BY <3>2
    <3> HIDE DEF s, l
    <3>5. s = f
      BY <3>1, <3>2, <3>3, <3>4
    <3> QED
      BY <3>5 DEF s, l, m
  <2> QED
    BY <2>1, <2>3, <2>4
<1> QED
  BY <1>1, BootHolds, PTL
=============================================================================
