---------------------------- MODULE Escape_proofs ----------------------------
(***************************************************************************)
(* Proofs about Escape, for names of any length over any alphabet.  First  *)
(* what the word of a name is made of, then where in the word each         *)
(* character of the name begins (Layout, Written), how far unescape has    *)
(* come (Walk) and what it has stored (Stored), and at last that what is   *)
(* stored determines the name (NameTold).                                  *)
(***************************************************************************)
EXTENDS Escape, SequenceTheorems, WellFoundedInduction, TLAPS

\* The digits and letters that escape writes are graphic characters.
LEMMA HexDigitLemma ==
    ASSUME NEW d \in 0 .. 15
    PROVE  HexDigit(d) \in 33 .. 126
  BY DEF HexDigit

\* The sequences escapeChar is made of.
LEMMA TupleLemma ==
    ASSUME NEW S
    PROVE  /\ \A c \in S : <<c>> \in Seq(S)
           /\ \A c, d \in S : <<c, d>> \in Seq(S)
  OBVIOUS

\* What is known of the elements of a sequence.
LEMMA ElementLemma ==
    ASSUME NEW S, NEW t \in Seq(S)
    PROVE  \A k \in DOMAIN t : t[k] \in S
  OBVIOUS

\* A function from the first numbers is a sequence.
LEMMA FunctionLemma ==
    ASSUME NEW S, NEW T, S \subseteq T, NEW n \in Nat, NEW f \in [1 .. n -> S]
    PROVE  f \in Seq(T)
  OBVIOUS

\* The digits of a character are graphic, two or eight of them.
LEMMA HexLemma ==
    ASSUME NEW c \in 0 .. 255
    PROVE  Hex(c) \in Seq(33 .. 126)
<1> DEFINE G == 33 .. 126
<1>1. c \div 16 \in 0 .. 15 /\ c % 16 \in 0 .. 15
  OBVIOUS
<1>2. HexDigit(c \div 16) \in G /\ HexDigit(c % 16) \in G /\ HexDigit(15) \in G
  BY <1>1, HexDigitLemma
<1> HIDE DEF G
<1>3. << HexDigit(c \div 16), HexDigit(c % 16) >> \in Seq(G)
  BY <1>2, TupleLemma
<1>4. [k \in 1 .. 6 |-> HexDigit(15)] \in Seq(G)
  BY <1>2
<1>5. (IF c < 128 THEN <<>> ELSE [k \in 1 .. 6 |-> HexDigit(15)]) \in Seq(G)
  BY <1>4
<1>6. Hex(c) \in Seq(G)
  BY <1>3, <1>5 DEF Hex
<1> QED BY <1>6 DEF G

\* The four things escapeChar writes.
LEMMA PieceLemma ==
    ASSUME NEW c \in 0 .. 255
    PROVE  \/ c \in Plain /\ escapeChar(c) = <<Backslash, c>>
           \/ c \in 7 .. 13 /\ escapeChar(c) = <<Backslash, Letters[c - 6]>>
           \/ c \notin Plain /\ isgraph(c) /\ escapeChar(c) = <<c>>
           \/ c \notin 7 .. 13 /\ ~isgraph(c) /\ escapeChar(c) = <<Backslash, LetterX>> \o Hex(c)
<1>1. c \in Plain => c \notin 7 .. 13 /\ isgraph(c)
  BY DEF Plain, Quote, Backslash, isgraph
<1>2. c \in 7 .. 13 => c \notin Plain /\ ~isgraph(c)
  BY DEF Plain, Quote, Backslash, isgraph
<1> QED BY <1>1, <1>2 DEF escapeChar

\* Whatever the character, escapeChar writes graphic characters only.
LEMMA escapeCharLemma ==
    ASSUME NEW c \in 0 .. 255
    PROVE  escapeChar(c) \in Seq(33 .. 126)
<1> DEFINE G == 33 .. 126
<1>1. Backslash \in G /\ LetterX \in G
  BY DEF Backslash, LetterX
<1>2. CASE c \in Plain /\ escapeChar(c) = <<Backslash, c>>
  <2>1. c \in G
    BY <1>2 DEF Plain, Quote, Backslash
  <2> QED BY <1>1, <1>2, <2>1, TupleLemma
<1>3. CASE c \in 7 .. 13 /\ escapeChar(c) = <<Backslash, Letters[c - 6]>>
  <2>1. Letters[c - 6] \in G
    BY <1>3 DEF Letters
  <2> QED BY <1>1, <1>3, <2>1, TupleLemma
<1>4. CASE isgraph(c) /\ escapeChar(c) = <<c>>
  <2>1. c \in G
    BY <1>4 DEF isgraph
  <2> QED BY <1>4, <2>1, TupleLemma
<1>5. CASE escapeChar(c) = <<Backslash, LetterX>> \o Hex(c)
  <2>1. <<Backslash, LetterX>> \in Seq(G)
    BY <1>1, TupleLemma
  <2>2. Hex(c) \in Seq(G)
    BY HexLemma
  <2> HIDE DEF G
  <2>3. <<Backslash, LetterX>> \o Hex(c) \in Seq(G)
    BY <2>1, <2>2
  <2> QED BY <1>5, <2>3 DEF G
<1>6. \/ c \in Plain /\ escapeChar(c) = <<Backslash, c>>
      \/ c \in 7 .. 13 /\ escapeChar(c) = <<Backslash, Letters[c - 6]>>
      \/ c \notin Plain /\ isgraph(c) /\ escapeChar(c) = <<c>>
      \/ c \notin 7 .. 13 /\ ~isgraph(c) /\ escapeChar(c) = <<Backslash, LetterX>> \o Hex(c)
  BY PieceLemma
<1> QED BY <1>2, <1>3, <1>4, <1>5, <1>6, Zenon

-----------------------------------------------------------------------------

\* While it is written, an escaped name is graphic and begins with its quote.
WordInv ==
    /\ name \in Seq(0 .. 255)
    /\ pc \in {"escape", "sent"} =>
        /\ s \in Seq(33 .. 126)
        /\ s # <<>>
        /\ s[1] = Quote
    /\ pc = "sent" => s[Len(s)] = Quote

LEMMA InitWordInv == Init => WordInv
<1> SUFFICES ASSUME Init PROVE WordInv
  OBVIOUS
<1>1. PICK n \in 0 .. MaxLength : name \in [1 .. n -> Alphabet]
  BY DEF Init
<1>2. n \in Nat
  BY MaxLengthAssumption
<1> DEFINE Byte == 0 .. 255
<1>3. Alphabet \subseteq Byte
  BY AlphabetAssumption
<1> HIDE DEF Byte
<1>4. name \in Seq(Byte)
  BY <1>1, <1>2, <1>3, FunctionLemma
<1> QED BY <1>4 DEF Byte, Init, WordInv, Quote

\* Each iteration of escape and its end keep it.
LEMMA escapeWordInv ==
    ASSUME WordInv, escape
    PROVE  WordInv'
<1>1. CASE i \in DOMAIN name /\ s' = s \o escapeChar(name[i]) /\ UNCHANGED pc
  <2>1. name[i] \in 0 .. 255
    BY <1>1, ElementLemma DEF WordInv
  <2>2. escapeChar(name[i]) \in Seq(33 .. 126)
    BY <2>1, escapeCharLemma
  <2>3. s \in Seq(33 .. 126) /\ s # <<>> /\ s[1] = Quote
    BY DEF WordInv, escape
  <2>4. s' \in Seq(33 .. 126) /\ s' # <<>> /\ s'[1] = Quote
    BY <1>1, <2>2, <2>3
  <2> QED BY <1>1, <2>4 DEF WordInv, escape
<1>2. CASE s' = Append(s, Quote) /\ pc' = "sent"
  <2>1. s \in Seq(33 .. 126) /\ s # <<>> /\ s[1] = Quote
    BY DEF WordInv, escape
  <2>2. s' \in Seq(33 .. 126) /\ s' # <<>> /\ s'[1] = Quote /\ s'[Len(s')] = Quote
    BY <1>2, <2>1 DEF Quote
  <2> QED BY <1>2, <2>2 DEF WordInv, escape
<1> QED BY <1>1, <1>2 DEF escape

LEMMA NextWordInv == WordInv /\ [Next]_vars => WordInv'
<1> SUFFICES ASSUME WordInv, [Next]_vars PROVE WordInv'
  OBVIOUS
<1>1. CASE escape
  BY <1>1, escapeWordInv
<1>2. CASE receive
  BY <1>2 DEF receive, WordInv
<1>3. CASE unescape
  BY <1>3 DEF unescape, WordInv
<1>4. CASE unescapeStep
  BY <1>4 DEF unescapeStep, WordInv
<1>5. CASE UNCHANGED vars
  BY <1>5 DEF vars, WordInv
<1> QED BY <1>1, <1>2, <1>3, <1>4, <1>5 DEF Next

\* OneWord: an escaped name is one word of graphic characters between two quotes,
\* whatever characters the name has.
THEOREM EscapedIsOneWord == Spec => []OneWord
<1>1. WordInv => OneWord
  BY ElementLemma DEF WordInv, OneWord, isgraph
<1> QED BY <1>1, InitWordInv, NextWordInv, PTL DEF Spec

-----------------------------------------------------------------------------
(* The pieces of a word, one for each character of the name. *)

\* The elements of two sequences, one after the other.
LEMMA ConcatLemma ==
    ASSUME NEW S, NEW a \in Seq(S), NEW b \in Seq(S)
    PROVE  /\ a \o b \in Seq(S) /\ Len(a \o b) = Len(a) + Len(b)
           /\ \A j \in 1 .. Len(a) : (a \o b)[j] = a[j]
           /\ \A j \in 1 .. Len(b) : (a \o b)[Len(a) + j] = b[j]
  OBVIOUS

LEMMA LengthsLemma ==
    ASSUME NEW a, NEW b, NEW c, NEW m, NEW n, Len(a) = m, Len(b) = n,
           Len(c) = Len(a) + Len(b),
           \A j \in 1 .. Len(a) : c[j] = a[j],
           \A j \in 1 .. Len(b) : c[Len(a) + j] = b[j]
    PROVE  /\ Len(c) = m + n
           /\ \A j \in 1 .. m : c[j] = a[j]
           /\ \A j \in 1 .. n : c[m + j] = b[j]
  OBVIOUS

\* Two characters, six and two.
LEMMA LongPieceLemma ==
    ASSUME NEW a, NEW f, NEW d, NEW h, NEW p,
           Len(h) = 6 + 2, Len(p) = 2 + 8,
           \A j \in 1 .. 6 : h[j] = f[j], \A j \in 1 .. 2 : h[6 + j] = d[j],
           \A j \in 1 .. 2 : p[j] = a[j], \A j \in 1 .. 8 : p[2 + j] = h[j]
    PROVE  /\ Len(p) = 10 /\ p[1] = a[1] /\ p[2] = a[2]
           /\ \A j \in 3 .. 8 : p[j] = f[j - 2]
           /\ p[9] = d[1] /\ p[10] = d[2]
<1>1. h[7] = d[1] /\ h[8] = d[2]
  OBVIOUS
<1>2. \A j \in 3 .. 10 : p[j] = h[j - 2]
  <2> TAKE j \in 3 .. 10
  <2>1. j - 2 \in 1 .. 8 /\ 2 + (j - 2) = j
    OBVIOUS
  <2>2. p[2 + (j - 2)] = h[j - 2]
    BY <2>1
  <2> QED BY <2>1, <2>2
<1>3. p[9] = h[7] /\ p[10] = h[8]
  BY <1>2
<1>4. \A j \in 3 .. 8 : j \in 3 .. 10 /\ j - 2 \in 1 .. 6
  OBVIOUS
<1> QED BY <1>1, <1>2, <1>3, <1>4

\* The digits of a character give the character.
LEMMA DigitsLemma ==
    ASSUME NEW c \in 0 .. 255
    PROVE  hexToChar(HexDigit(c \div 16), HexDigit(c % 16)) = c
<1>1. \A d \in 0 .. 15 : HexValue(HexDigit(d)) = d
  BY DEF HexValue, HexDigit
<1>2. c \div 16 \in 0 .. 15 /\ c % 16 \in 0 .. 15 /\ (c \div 16) * 16 + (c % 16) = c
  OBVIOUS
<1>3. HexValue(HexDigit(c \div 16)) = c \div 16 /\ HexValue(HexDigit(c % 16)) = c % 16
  BY <1>1, <1>2
<1> QED BY <1>2, <1>3 DEF hexToChar

HexPiece(c) == <<Backslash, LetterX>> \o Hex(c)

\* A hexadecimal escape: two digits or, for a negative char, six times f before them.
LEMMA HexPieceLemma ==
    ASSUME NEW c \in 0 .. 255, NEW p, p = HexPiece(c)
    PROVE  /\ Len(p) = IF c < 128 THEN 4 ELSE 10
           /\ p[1] = Backslash /\ p[2] = LetterX
           /\ c < 128 => p[3] = HexDigit(c \div 16) /\ p[4] = HexDigit(c % 16)
           /\ c >= 128 => /\ \A j \in 3 .. 8 : p[j] = 102
                          /\ p[9] = HexDigit(c \div 16) /\ p[10] = HexDigit(c % 16)
<1> DEFINE high == HexDigit(c \div 16)
           low == HexDigit(c % 16)
           f == [k \in 1 .. 6 |-> 102]
           G == 33 .. 126
<1>1. HexDigit(15) = 102 /\ 102 \in G
  BY DEF HexDigit
<1>2. Hex(c) = (IF c < 128 THEN <<>> ELSE f) \o <<high, low>>
  BY <1>1 DEF Hex
<1>3. high \in G /\ low \in G /\ Backslash \in G /\ LetterX \in G
  <2>1. c \div 16 \in 0 .. 15 /\ c % 16 \in 0 .. 15
    OBVIOUS
  <2>2. high \in G /\ low \in G
    BY <2>1, HexDigitLemma
  <2> QED BY <2>2 DEF Backslash, LetterX
<1> DEFINE prefix == <<Backslash, LetterX>>
           digits == <<high, low>>
<1>4. f \in Seq(G) /\ \A j \in 3 .. 8 : f[j - 2] = 102
  BY <1>1
<1>5. Len(f) = 6
  OBVIOUS
<1> HIDE DEF f, G
<1>6. prefix \in Seq(G) /\ digits \in Seq(G)
  BY <1>3, TupleLemma
<1>7. /\ Len(prefix) = 2 /\ prefix[1] = Backslash /\ prefix[2] = LetterX
      /\ Len(digits) = 2 /\ digits[1] = high /\ digits[2] = low
  OBVIOUS
<1>8. p = prefix \o Hex(c)
  BY DEF HexPiece
<1>11. Hex(c) = (IF c < 128 THEN <<>> ELSE f) \o digits
  BY <1>2
<1> HIDE DEF high, low, prefix, digits
<1>9. CASE c < 128
  <2>1. Hex(c) = <<>> \o digits
    BY <1>9, <1>11, Zenon
  <2>2. Hex(c) = digits
    BY <1>6, <2>1, ConcatEmptySeq
  <2>3. p = prefix \o digits
    BY <1>8, <2>2
  <2>4. Len(p) = Len(prefix) + Len(digits)
    BY <1>6, <2>3, ConcatLemma
  <2>5. \A j \in 1 .. Len(prefix) : p[j] = prefix[j]
    BY <1>6, <2>3, ConcatLemma
  <2>6. \A j \in 1 .. Len(digits) : p[Len(prefix) + j] = digits[j]
    BY <1>6, <2>3, ConcatLemma
  <2>7. /\ Len(p) = 2 + 2
        /\ \A j \in 1 .. 2 : p[j] = prefix[j]
        /\ \A j \in 1 .. 2 : p[2 + j] = digits[j]
    BY <1>7, <2>4, <2>5, <2>6, LengthsLemma
  <2>8. p[1] = Backslash /\ p[2] = LetterX /\ p[3] = high /\ p[4] = low
    BY <1>7, <2>7
  <2> QED BY <1>9, <2>7, <2>8 DEF high, low
<1>10. CASE c >= 128
  <2> DEFINE h == Hex(c)
  <2>1. h = f \o digits
    <3>1. ~ (c < 128)
      BY <1>10
    <3> QED BY <1>11, <3>1, Zenon
  <2>2. p = prefix \o h
    BY <1>8
  <2> HIDE DEF h
  <2>3. h \in Seq(G)
    BY <1>4, <1>6, <2>1, ConcatLemma
  <2>4. Len(h) = Len(f) + Len(digits)
    BY <1>4, <1>6, <2>1, ConcatLemma
  <2>5. \A j \in 1 .. Len(f) : h[j] = f[j]
    BY <1>4, <1>6, <2>1, ConcatLemma
  <2>6. \A j \in 1 .. Len(digits) : h[Len(f) + j] = digits[j]
    BY <1>4, <1>6, <2>1, ConcatLemma
  <2>7. /\ Len(h) = 6 + 2
        /\ \A j \in 1 .. 6 : h[j] = f[j]
        /\ \A j \in 1 .. 2 : h[6 + j] = digits[j]
    BY <1>5, <1>7, <2>4, <2>5, <2>6, LengthsLemma
  <2>8. Len(p) = Len(prefix) + Len(h)
    BY <1>6, <2>2, <2>3, ConcatLemma
  <2>9. \A j \in 1 .. Len(prefix) : p[j] = prefix[j]
    BY <1>6, <2>2, <2>3, ConcatLemma
  <2>10. \A j \in 1 .. Len(h) : p[Len(prefix) + j] = h[j]
    BY <1>6, <2>2, <2>3, ConcatLemma
  <2>11. /\ Len(p) = 2 + 8
         /\ \A j \in 1 .. 2 : p[j] = prefix[j]
         /\ \A j \in 1 .. 8 : p[2 + j] = h[j]
    BY <1>7, <2>7, <2>8, <2>9, <2>10, LengthsLemma
  <2>12. /\ Len(p) = 10 /\ p[1] = prefix[1] /\ p[2] = prefix[2]
         /\ \A j \in 3 .. 8 : p[j] = f[j - 2]
         /\ p[9] = digits[1] /\ p[10] = digits[2]
    BY <2>7, <2>11, LongPieceLemma
  <2> QED BY <1>4, <1>7, <1>10, <2>12 DEF high, low
<1> QED BY <1>9, <1>10

\* A quote is written only as the second of two characters, after its backslash.
LEMMA QuoteLemma ==
    ASSUME NEW c \in 0 .. 255, NEW j \in 1 .. Len(escapeChar(c)), escapeChar(c)[j] = Quote
    PROVE  c = Quote /\ j = 2 /\ escapeChar(c) = <<Backslash, Quote>>
<1> DEFINE p == escapeChar(c)
<1>1. CASE c \in Plain /\ p = <<Backslash, c>>
  <2>1. Len(p) = 2 /\ p[1] = Backslash /\ p[2] = c
    BY <1>1
  <2> QED BY <1>1, <2>1 DEF Backslash, Quote
<1>2. CASE c \in 7 .. 13 /\ p = <<Backslash, Letters[c - 6]>>
  <2>1. Len(p) = 2 /\ p[1] = Backslash /\ p[2] = Letters[c - 6]
    BY <1>2
  <2>2. Letters[c - 6] # Quote
    BY <1>2 DEF Letters, Quote
  <2> QED BY <2>1, <2>2 DEF Backslash, Quote
<1>3. CASE c \notin Plain /\ p = <<c>>
  <2>1. Len(p) = 1 /\ p[1] = c
    BY <1>3
  <2> QED BY <1>3, <2>1 DEF Plain
<1>4. CASE p = HexPiece(c)
  <2>1. /\ Len(p) = IF c < 128 THEN 4 ELSE 10
        /\ p[1] = Backslash /\ p[2] = LetterX
        /\ c < 128 => p[3] = HexDigit(c \div 16) /\ p[4] = HexDigit(c % 16)
        /\ c >= 128 => /\ \A k \in 3 .. 8 : p[k] = 102
                       /\ p[9] = HexDigit(c \div 16) /\ p[10] = HexDigit(c % 16)
    BY <1>4, HexPieceLemma
  <2>2. \A d \in 0 .. 15 : HexDigit(d) # Quote
    BY DEF HexDigit, Quote
  <2>3. c \div 16 \in 0 .. 15 /\ c % 16 \in 0 .. 15
    OBVIOUS
  <2>4. HexDigit(c \div 16) # Quote /\ HexDigit(c % 16) # Quote
    BY <2>2, <2>3
  <2>5. Backslash # Quote /\ LetterX # Quote /\ 102 # Quote
    BY DEF Backslash, LetterX, Quote
  <2> HIDE DEF p
  <2>6. p[j] # Quote
    BY <2>1, <2>4, <2>5 DEF p
  <2> QED BY <2>6 DEF p
<1> QED BY <1>1, <1>2, <1>3, <1>4, PieceLemma DEF HexPiece

\* The two digits of a character.
High(c) == HexDigit(c \div 16)
Low(c)  == HexDigit(c % 16)

LEMMA HighLowLemma ==
    ASSUME NEW c \in 0 .. 255
    PROVE  /\ HexDigit(c \div 16) = High(c) /\ HexDigit(c % 16) = Low(c)
           /\ hexToChar(High(c), Low(c)) = c
           /\ High(c) \in Nat /\ Low(c) \in Nat
           /\ High(c) # Backslash /\ Low(c) # Backslash
<1>1. \A d \in 0 .. 15 : HexDigit(d) \in Nat /\ HexDigit(d) # Backslash
  BY DEF HexDigit, Backslash
<1>2. c \div 16 \in 0 .. 15 /\ c % 16 \in 0 .. 15
  OBVIOUS
<1> QED BY <1>1, <1>2, DigitsLemma DEF High, Low

\* The piece of c stands at k.
Shown(c, k) == \A j \in 1 .. Len(escapeChar(c)) : s[k + j - 1] = escapeChar(c)[j]

\* What unescape makes of a piece it reads from the start: the character or, of a
\* negative char, 255, with six digits left to read.
Understood(c, k) ==
    /\ s[k] # Backslash => c < 128 /\ s[k] = c /\ Len(escapeChar(c)) = 1
    /\ s[k] = Backslash /\ c < 128 => Unescaped(k) = c /\ Width(k) = Len(escapeChar(c))
    /\ c >= 128 => /\ s[k] = Backslash /\ Unescaped(k) = 255 /\ Width(k) = 4
                   /\ Len(escapeChar(c)) = 10
                   /\ \A j \in 4 .. 7 : s[k + j] = 102
                   /\ s[k + 8] = High(c) /\ s[k + 9] = Low(c)

LEMMA ReadPieceLemma ==
    ASSUME NEW c \in 0 .. 255, NEW k \in Nat, Shown(c, k)
    PROVE  Understood(c, k)
<1> USE DEF Understood
<1> DEFINE p == escapeChar(c)
<1>1. CASE c \in Plain /\ p = <<Backslash, c>>
  <2>1. Len(p) = 2 /\ p[1] = Backslash /\ p[2] = c
    BY <1>1
  <2>2. s[k] = Backslash /\ s[k + 1] = c
    BY <2>1 DEF Shown
  <2>3. c < 128 /\ c # LetterX
    BY <1>1 DEF Plain, Quote, Backslash, LetterX
  <2>4. Unescaped(k) = c /\ Width(k) = 2
    BY <1>1, <2>2, <2>3 DEF Unescaped, Width
  <2> QED BY <2>1, <2>2, <2>3, <2>4
<1>2. CASE c \in 7 .. 13 /\ p = <<Backslash, Letters[c - 6]>>
  <2>1. Len(p) = 2 /\ p[1] = Backslash /\ p[2] = Letters[c - 6]
    BY <1>2
  <2>2. s[k] = Backslash /\ s[k + 1] = Letters[c - 6]
    BY <2>1 DEF Shown
  <2>3. /\ DOMAIN Letters = 1 .. 7
        /\ \A l \in 1 .. 7 : Letters[l] \notin Plain \cup {LetterX}
        /\ \A l, m \in 1 .. 7 : Letters[l] = Letters[m] => l = m
    BY DEF Letters, Plain, Quote, Backslash, LetterX
  <2>4. c - 6 \in 1 .. 7
    BY <1>2
  <2>5. (CHOOSE l \in DOMAIN Letters : Letters[l] = s[k + 1]) = c - 6
    BY <2>2, <2>3, <2>4
  <2>6. Unescaped(k) = c /\ Width(k) = 2
    BY <1>2, <2>2, <2>3, <2>4, <2>5 DEF Unescaped, Width
  <2> QED BY <1>2, <2>1, <2>2, <2>6
<1>3. CASE c \notin Plain /\ isgraph(c) /\ p = <<c>>
  <2>1. Len(p) = 1 /\ p[1] = c
    BY <1>3
  <2>2. s[k] = c
    BY <2>1 DEF Shown
  <2>3. c # Backslash /\ c < 128
    BY <1>3 DEF Plain, isgraph
  <2> QED BY <2>1, <2>2, <2>3
<1>4. CASE p = HexPiece(c)
  <2>1. /\ Len(p) = IF c < 128 THEN 4 ELSE 10
        /\ p[1] = Backslash /\ p[2] = LetterX
        /\ c < 128 => p[3] = High(c) /\ p[4] = Low(c)
        /\ c >= 128 => /\ \A j \in 3 .. 8 : p[j] = 102
                       /\ p[9] = High(c) /\ p[10] = Low(c)
    BY <1>4, HexPieceLemma DEF High, Low
  <2> HIDE DEF p
  <2>2. \A j \in 1 .. Len(p) : s[k + j - 1] = p[j]
    BY DEF Shown, p
  <2>3. s[k] = Backslash /\ s[k + 1] = LetterX /\ s[k + 2] = p[3] /\ s[k + 3] = p[4]
    BY <2>1, <2>2
  <2>4. LetterX \notin Plain
    BY DEF LetterX, Plain, Quote, Backslash
  <2>5. Unescaped(k) = hexToChar(p[3], p[4]) /\ Width(k) = 4
    BY <2>3, <2>4 DEF Unescaped, Width
  <2>6. CASE c < 128
    BY <2>1, <2>3, <2>5, <2>6, HighLowLemma DEF p
  <2>7. CASE c >= 128
    <3>1. hexToChar(102, 102) = 255
      BY DEF hexToChar, HexValue
    <3>2. \A j \in 4 .. 7 : s[k + j] = 102
      <4> TAKE j \in 4 .. 7
      <4>1. j + 1 \in 1 .. Len(p) /\ j + 1 \in 3 .. 8 /\ k + (j + 1) - 1 = k + j
        BY <2>1, <2>7
      <4> QED BY <2>1, <2>2, <2>7, <4>1
    <3>3. s[k + 8] = p[9] /\ s[k + 9] = p[10]
      BY <2>1, <2>2, <2>7
    <3> QED BY <2>1, <2>3, <2>5, <2>7, <3>1, <3>2, <3>3 DEF p
  <2> QED BY <2>6, <2>7
<1>5. \/ c \in Plain /\ p = <<Backslash, c>>
      \/ c \in 7 .. 13 /\ p = <<Backslash, Letters[c - 6]>>
      \/ c \notin Plain /\ isgraph(c) /\ p = <<c>>
      \/ c \notin 7 .. 13 /\ ~isgraph(c) /\ p = HexPiece(c)
  BY PieceLemma DEF HexPiece
<1> QED BY <1>1, <1>2, <1>3, <1>4, <1>5, Zenon

-----------------------------------------------------------------------------
(* Where the pieces are in the word. *)

Piece(k) == escapeChar(name[k])

\* pos[k] is the place of the piece of the k-th of the first m characters, pos[m + 1]
\* the place after them: the word begins with a quote, the pieces follow each other.
Layout(pos, m) ==
    /\ pos \in [1 .. m + 1 -> Nat]
    /\ pos[1] = 2
    /\ \A k \in 1 .. m : pos[k + 1] = pos[k] + Len(Piece(k))
    /\ \A k, l \in 1 .. m + 1 : k <= l => pos[k] <= pos[l]
    /\ \A p \in 2 .. pos[m + 1] - 1 : \E k \in 1 .. m : p \in pos[k] .. pos[k + 1] - 1

\* The word has these pieces there, as far as it goes.
Written(pos, m) ==
    \A k \in 1 .. m : \A j \in 1 .. Len(Piece(k)) :
        pos[k] + j - 1 <= Len(s) => s[pos[k] + j - 1] = Piece(k)[j]

LEMMA PieceLengthLemma ==
    ASSUME NEW c \in 0 .. 255
    PROVE  Len(escapeChar(c)) \in Nat \ {0}
<1>1. Len(<<Backslash, c>>) = 2 /\ Len(<<c>>) = 1
  OBVIOUS
<1>2. Len(<<Backslash, Letters[c - 6]>>) = 2
  OBVIOUS
<1>3. Len(HexPiece(c)) \in {4, 10}
  BY HexPieceLemma
<1>4. \/ escapeChar(c) = <<Backslash, c>>
      \/ escapeChar(c) = <<Backslash, Letters[c - 6]>>
      \/ escapeChar(c) = <<c>>
      \/ escapeChar(c) = HexPiece(c)
  BY PieceLemma, Zenon DEF HexPiece
<1>5. Len(escapeChar(c)) \in {1, 2, 4, 10}
  BY <1>1, <1>2, <1>3, <1>4, Zenon
<1>6. \A n \in {1, 2, 4, 10} : n \in Nat \ {0}
  OBVIOUS
<1> QED BY <1>5, <1>6, Zenon

\* One more piece.
LEMMA LayoutStep ==
    ASSUME NEW m \in Nat, name \in Seq(0 .. 255), m + 1 \in DOMAIN name,
           NEW pos, Layout(pos, m)
    PROVE  \E more : /\ Layout(more, m + 1)
                     /\ \A k \in 1 .. m + 1 : more[k] = pos[k]
                     /\ more[m + 2] = pos[m + 1] + Len(Piece(m + 1))
<1> DEFINE n == Len(Piece(m + 1))
           more == [k \in 1 .. m + 2 |-> IF k <= m + 1 THEN pos[k] ELSE pos[m + 1] + n]
<1>1. n \in Nat \ {0}
  <2>1. name[m + 1] \in 0 .. 255
    BY ElementLemma
  <2> QED BY <2>1, PieceLengthLemma DEF Piece
<1>2. /\ pos \in [1 .. m + 1 -> Nat] /\ pos[1] = 2
      /\ \A k \in 1 .. m : pos[k + 1] = pos[k] + Len(Piece(k))
      /\ \A k, l \in 1 .. m + 1 : k <= l => pos[k] <= pos[l]
      /\ \A p \in 2 .. pos[m + 1] - 1 : \E k \in 1 .. m : p \in pos[k] .. pos[k + 1] - 1
  BY DEF Layout
<1> HIDE DEF n
<1>3. /\ more \in [1 .. m + 2 -> Nat]
      /\ \A k \in 1 .. m + 1 : more[k] = pos[k]
      /\ more[m + 2] = pos[m + 1] + n
  BY <1>1, <1>2
<1> HIDE DEF more
<1>4. \A k \in 1 .. m + 1 : more[k + 1] = more[k] + Len(Piece(k))
  <2> TAKE k \in 1 .. m + 1
  <2>1. CASE k = m + 1
    BY <1>3, <2>1 DEF n
  <2>2. CASE k \in 1 .. m
    BY <1>2, <1>3, <2>2
  <2> QED BY <2>1, <2>2
<1>5. \A k, l \in 1 .. m + 2 : k <= l => more[k] <= more[l]
  <2> SUFFICES ASSUME NEW k \in 1 .. m + 2, NEW l \in 1 .. m + 2, k <= l
               PROVE  more[k] <= more[l]
    OBVIOUS
  <2>1. CASE l \in 1 .. m + 1
    BY <1>2, <1>3, <2>1
  <2>2. CASE l = m + 2 /\ k = m + 2
    BY <1>3, <2>2
  <2>3. CASE l = m + 2 /\ k \in 1 .. m + 1
    <3>1. pos[k] <= pos[m + 1] /\ pos[k] \in Nat /\ pos[m + 1] \in Nat
      BY <1>2, <2>3
    <3> QED BY <1>1, <1>3, <2>3, <3>1
  <2> QED BY <2>1, <2>2, <2>3
<1>6. \A p \in 2 .. more[m + 2] - 1 : \E k \in 1 .. m + 1 : p \in more[k] .. more[k + 1] - 1
  <2> TAKE p \in 2 .. more[m + 2] - 1
  <2>1. CASE p \in 2 .. pos[m + 1] - 1
    <3>1. PICK k \in 1 .. m : p \in pos[k] .. pos[k + 1] - 1
      BY <1>2, <2>1
    <3>2. more[k] = pos[k] /\ more[k + 1] = pos[k + 1]
      BY <1>3
    <3> QED BY <3>1, <3>2
  <2>2. CASE p >= pos[m + 1]
    <3>1. p \in more[m + 1] .. more[(m + 1) + 1] - 1
      BY <1>1, <1>2, <1>3, <2>2
    <3> QED BY <3>1
  <2> QED BY <1>2, <2>1, <2>2
<1>7. more[1] = 2
  BY <1>2, <1>3
<1>8. Layout(more, m + 1)
  BY <1>3, <1>4, <1>5, <1>6, <1>7 DEF Layout
<1> QED BY <1>3, <1>8 DEF n

\* No piece ends after the place that follows all.
LEMMA LayoutBounds ==
    ASSUME NEW m \in Nat, NEW pos, Layout(pos, m), NEW k \in 1 .. m,
           \A l \in 1 .. m : Len(Piece(l)) \in Nat \ {0}
    PROVE  /\ pos[k] \in Nat /\ pos[k + 1] \in Nat /\ pos[m + 1] \in Nat
           /\ 2 <= pos[k] /\ pos[k] < pos[k + 1] /\ pos[k + 1] <= pos[m + 1]
           /\ \A j \in 1 .. Len(Piece(k)) : pos[k] + j - 1 <= pos[k + 1] - 1
<1>1. k + 1 \in 1 .. m + 1 /\ m + 1 \in 1 .. m + 1 /\ k \in 1 .. m + 1 /\ 1 \in 1 .. m + 1
  OBVIOUS
<1>2. pos[k] \in Nat /\ pos[k + 1] \in Nat /\ pos[m + 1] \in Nat
  BY <1>1 DEF Layout
<1>3. pos[1] <= pos[k] /\ pos[1] = 2 /\ pos[k + 1] <= pos[m + 1]
  BY <1>1 DEF Layout
<1>4. pos[k + 1] = pos[k] + Len(Piece(k)) /\ Len(Piece(k)) \in Nat \ {0}
  BY DEF Layout
<1> QED BY <1>2, <1>3, <1>4

-----------------------------------------------------------------------------
(* What unescape has read. *)

\* What unescape makes of the piece of a character: of a negative char the byte ff and
\* the six digits behind it.
Heard(c) ==
    IF c < 128 THEN <<c>>
    ELSE <<255, 102, 102, 102, 102, High(c), Low(c)>>

\* oss holds what is heard of m characters and the first j of what is heard of the
\* next one; at[k] is the place of the k-th.
Stored(at, m, j) ==
    /\ at \in [1 .. m + 1 -> Nat]
    /\ at[1] = 1
    /\ \A k \in 1 .. m : at[k + 1] = at[k] + Len(Heard(name[k]))
    /\ \A k, l \in 1 .. m + 1 : k <= l => at[k] <= at[l]
    /\ \A k \in 1 .. m + 1 : (\A l \in 1 .. k - 1 : name[l] < 128) => at[k] = k
    /\ Len(oss) = at[m + 1] - 1 + j
    /\ \A k \in 1 .. m : \A q \in 1 .. Len(Heard(name[k])) :
            oss[at[k] + q - 1] = Heard(name[k])[q]
    /\ \A q \in 1 .. j : oss[at[m + 1] + q - 1] = Heard(name[m + 1])[q]

LEMMA HeardLemma ==
    ASSUME NEW c \in 0 .. 255
    PROVE  /\ c < 128 => Len(Heard(c)) = 1 /\ Heard(c)[1] = c
           /\ c >= 128 => /\ Len(Heard(c)) = 7 /\ Heard(c)[1] = 255
                          /\ \A q \in 2 .. 5 : Heard(c)[q] = 102
                          /\ Heard(c)[6] = High(c)
                          /\ Heard(c)[7] = Low(c)
           /\ Len(Heard(c)) \in Nat \ {0}
<1> DEFINE h == High(c)
           l == Low(c)
           seven == <<255, 102, 102, 102, 102, h, l>>
<1> HIDE DEF h, l
<1>1. Len(<<c>>) = 1 /\ <<c>>[1] = c
  OBVIOUS
<1>2. /\ Len(seven) = 7 /\ seven[1] = 255
      /\ \A q \in 2 .. 5 : seven[q] = 102
      /\ seven[6] = h /\ seven[7] = l
  OBVIOUS
<1>3. CASE c < 128
  <2>1. Heard(c) = <<c>>
    BY <1>3 DEF Heard
  <2> QED BY <1>1, <1>3, <2>1
<1>4. CASE c >= 128
  <2>1. Heard(c) = seven
    BY <1>4 DEF Heard, h, l
  <2> HIDE DEF seven
  <2> QED BY <1>2, <1>4, <2>1 DEF h, l
<1> QED BY <1>3, <1>4

\* unescape appends a character.
Hears(x) == oss' = Append(oss, x) /\ UNCHANGED name

\* A place within a piece of length l that ends before b.
LEMMA PlaceLemma ==
    ASSUME NEW a \in Nat, NEW b \in Nat, NEW l \in Nat, NEW q \in 1 .. l, NEW j \in Nat,
           1 <= a, a + l <= b + j
    PROVE  a + q - 1 \in 1 .. b - 1 + j
  OBVIOUS

\* One more character of oss: either within what is heard of a piece or its end.
LEMMA StoredStep ==
    ASSUME NEW m \in Nat, NEW j \in Nat, name \in Seq(0 .. 255), m + 1 \in DOMAIN name,
           oss \in Seq(Nat), NEW at, Stored(at, m, j),
           j + 1 <= Len(Heard(name[m + 1])), NEW x \in Nat, x = Heard(name[m + 1])[j + 1],
           Hears(x)
    PROVE  /\ j + 1 < Len(Heard(name[m + 1])) => Stored(at, m, j + 1)'
           /\ j + 1 = Len(Heard(name[m + 1])) => \E more : Stored(more, m + 1, 0)'
<1> DEFINE n == Len(Heard(name[m + 1]))
<1>10. \A k \in 1 .. m + 1 : name[k] \in 0 .. 255
  <2>1. DOMAIN name = 1 .. Len(name) /\ Len(name) \in Nat
    OBVIOUS
  <2>2. 1 .. m + 1 \subseteq DOMAIN name
    BY <2>1
  <2> QED BY <2>2, ElementLemma
<1>1. name[m + 1] \in 0 .. 255
  BY <1>10
<1>2. n \in Nat \ {0} /\ (name[m + 1] < 128 => n = 1)
  BY <1>1, HeardLemma
<1> HIDE DEF n
<1>3. /\ at \in [1 .. m + 1 -> Nat] /\ at[1] = 1
      /\ \A k \in 1 .. m : at[k + 1] = at[k] + Len(Heard(name[k]))
      /\ \A k, l \in 1 .. m + 1 : k <= l => at[k] <= at[l]
      /\ \A k \in 1 .. m + 1 : (\A l \in 1 .. k - 1 : name[l] < 128) => at[k] = k
      /\ Len(oss) = at[m + 1] - 1 + j
      /\ \A k \in 1 .. m : \A q \in 1 .. Len(Heard(name[k])) :
            oss[at[k] + q - 1] = Heard(name[k])[q]
      /\ \A q \in 1 .. j : oss[at[m + 1] + q - 1] = Heard(name[m + 1])[q]
  BY DEF Stored
<1>4. /\ \A k \in 1 .. m + 1 : at[k] \in Nat /\ 1 <= at[k] /\ at[k] <= at[m + 1]
      /\ at[m + 1] \in Nat /\ 1 <= at[m + 1]
  <2>1. 1 \in 1 .. m + 1 /\ m + 1 \in 1 .. m + 1
    OBVIOUS
  <2> QED BY <1>3, <2>1
<1>5. /\ Len(oss') = at[m + 1] - 1 + (j + 1)
      /\ \A p \in 1 .. at[m + 1] - 1 + j : oss'[p] = oss[p]
      /\ oss'[at[m + 1] + (j + 1) - 1] = x
  <2>1. Len(oss') = Len(oss) + 1 /\ \A p \in 1 .. Len(oss) : oss'[p] = oss[p]
    BY DEF Hears
  <2>2. oss'[Len(oss) + 1] = x
    BY DEF Hears
  <2>3. at[m + 1] \in Nat /\ Len(oss) = at[m + 1] - 1 + j
    BY <1>3, <1>4
  <2> QED BY <2>1, <2>2, <2>3
<1>6. \A k \in 1 .. m : \A q \in 1 .. Len(Heard(name[k])) :
            oss'[at[k] + q - 1] = Heard(name[k])[q]
  <2> TAKE k \in 1 .. m
  <2> TAKE q \in 1 .. Len(Heard(name[k]))
  <2>1. name[k] \in 0 .. 255 /\ k \in 1 .. m + 1 /\ k + 1 \in 1 .. m + 1
    BY <1>10
  <2>2. Len(Heard(name[k])) \in Nat
    BY <2>1, HeardLemma
  <2>3. at[k + 1] = at[k] + Len(Heard(name[k]))
    BY <1>3
  <2>5. at[k + 1] <= at[m + 1] /\ at[k] \in Nat /\ 1 <= at[k] /\ at[m + 1] \in Nat
    BY <1>4, <2>1
  <2>4. at[k] + q - 1 \in 1 .. at[m + 1] - 1 + j
    <3>1. at[k] + Len(Heard(name[k])) <= at[m + 1] + j
      BY <2>2, <2>3, <2>5
    <3> QED BY <2>2, <2>5, <3>1, PlaceLemma
  <2> QED BY <1>3, <1>5, <2>4
<1>7. \A q \in 1 .. j + 1 : oss'[at[m + 1] + q - 1] = Heard(name[m + 1])[q]
  <2> TAKE q \in 1 .. j + 1
  <2>1. CASE q = j + 1
    BY <1>5, <2>1
  <2>2. CASE q \in 1 .. j
    <3>1. at[m + 1] + q - 1 \in 1 .. at[m + 1] - 1 + j
      BY <1>4, <2>2, PlaceLemma
    <3> QED BY <1>3, <1>5, <2>2, <3>1
  <2>3. q = j + 1 \/ q \in 1 .. j
    OBVIOUS
  <2> QED BY <2>1, <2>2, <2>3, Zenon
<1>11. name' = name
  BY DEF Hears
<1>8. Stored(at, m, j + 1)'
  BY <1>3, <1>5, <1>6, <1>7, <1>11 DEF Stored
<1>9. ASSUME j + 1 = n
      PROVE  \E more : Stored(more, m + 1, 0)'
  <2>1. PICK more : /\ more \in [1 .. m + 2 -> Nat]
                    /\ \A k \in 1 .. m + 1 : more[k] = at[k]
                    /\ more[m + 2] = at[m + 1] + n
    <3> DEFINE f == [k \in 1 .. m + 2 |-> IF k <= m + 1 THEN at[k] ELSE at[m + 1] + n]
    <3>1. at[m + 1] + n \in Nat
      BY <1>2, <1>4
    <3>2. /\ f \in [1 .. m + 2 -> Nat]
          /\ \A k \in 1 .. m + 1 : f[k] = at[k]
          /\ f[m + 2] = at[m + 1] + n
      BY <1>4, <3>1
    <3> QED BY <3>2
  <2>2. \A k \in 1 .. m + 1 : more[k + 1] = more[k] + Len(Heard(name[k]))
    <3> TAKE k \in 1 .. m + 1
    <3>1. CASE k = m + 1
      BY <2>1, <3>1 DEF n
    <3>2. CASE k \in 1 .. m
      BY <1>3, <2>1, <3>2
    <3> QED BY <3>1, <3>2
  <2>3. \A k, l \in 1 .. m + 2 : k <= l => more[k] <= more[l]
    <3> SUFFICES ASSUME NEW k \in 1 .. m + 2, NEW l \in 1 .. m + 2, k <= l
                 PROVE  more[k] <= more[l]
      OBVIOUS
    <3>1. CASE l \in 1 .. m + 1
      <4>1. k \in 1 .. m + 1 /\ at[k] <= at[l]
        BY <1>3, <3>1
      <4> QED BY <2>1, <3>1, <4>1
    <3>2. CASE l = m + 2 /\ k = m + 2
      BY <2>1, <3>2
    <3>3. CASE l = m + 2 /\ k \in 1 .. m + 1
      <4>1. at[k] <= at[m + 1] /\ at[k] \in Nat /\ at[m + 1] \in Nat
        BY <1>4, <3>3
      <4> QED BY <1>2, <2>1, <3>3, <4>1
    <3> QED BY <3>1, <3>2, <3>3
  <2>4. \A k \in 1 .. m + 2 : (\A l \in 1 .. k - 1 : name[l] < 128) => more[k] = k
    <3> SUFFICES ASSUME NEW k \in 1 .. m + 2, \A l \in 1 .. k - 1 : name[l] < 128
                 PROVE  more[k] = k
      OBVIOUS
    <3>1. CASE k \in 1 .. m + 1
      BY <1>3, <2>1, <3>1
    <3>2. CASE k = m + 2
      <4>1. name[m + 1] < 128 /\ \A l \in 1 .. (m + 1) - 1 : name[l] < 128
        BY <3>2
      <4>2. n = 1 /\ at[m + 1] = m + 1
        BY <1>2, <1>3, <4>1
      <4> QED BY <2>1, <3>2, <4>2
    <3> QED BY <3>1, <3>2
  <2>5. Len(oss') = more[(m + 1) + 1] - 1 + 0
    BY <1>4, <1>5, <1>9, <2>1
  <2>6. \A k \in 1 .. m + 1 : \A q \in 1 .. Len(Heard(name[k])) :
            oss'[more[k] + q - 1] = Heard(name[k])[q]
    <3> TAKE k \in 1 .. m + 1
    <3>1. CASE k = m + 1
      BY <1>7, <1>9, <2>1, <3>1 DEF n
    <3>2. CASE k \in 1 .. m
      <4>1. k \in 1 .. m + 1 /\ more[k] = at[k]
        BY <2>1, <3>2
      <4> QED BY <1>6, <3>2, <4>1
    <3>3. k = m + 1 \/ k \in 1 .. m
      OBVIOUS
    <3> QED BY <3>1, <3>2, <3>3, Zenon
  <2>7. more[1] = 1
    BY <1>3, <2>1
  <2>8. Stored(more, m + 1, 0)'
    <3> DEFINE e == (m + 1) + 1
    <3>1. e = m + 2
      OBVIOUS
    <3> HIDE DEF e
    <3>2. more \in [1 .. e -> Nat] /\ more[1] = 1
      BY <2>1, <2>7, <3>1
    <3>3. \A k \in 1 .. m + 1 : more[k + 1] = more[k] + Len(Heard(name'[k]))
      BY <1>11, <2>2
    <3>4. \A k, l \in 1 .. e : k <= l => more[k] <= more[l]
      BY <2>3, <3>1
    <3>5. \A k \in 1 .. e : (\A l \in 1 .. k - 1 : name'[l] < 128) => more[k] = k
      BY <1>11, <2>4, <3>1
    <3>6. Len(oss') = more[e] - 1 + 0
      BY <2>5 DEF e
    <3>7. \A k \in 1 .. m + 1 : \A q \in 1 .. Len(Heard(name'[k])) :
            oss'[more[k] + q - 1] = Heard(name'[k])[q]
      BY <1>11, <2>6
    <3>8. \A q \in 1 .. 0 : oss'[more[e] + q - 1] = Heard(name'[e])[q]
      OBVIOUS
    <3> QED BY <3>2, <3>3, <3>4, <3>5, <3>6, <3>7, <3>8 DEF Stored, e
  <2> QED BY <2>8
<1> QED BY <1>8, <1>9 DEF n

-----------------------------------------------------------------------------
(* The word on its way, and how far unescape has come in it. *)

\* The word of name, without the characters that are cut off.
Word(pos) ==
    /\ Layout(pos, Len(name))
    /\ Written(pos, Len(name))
    /\ Len(s) + cut = pos[Len(name) + 1]
    /\ 2 <= Len(s)

\* unescape has read m pieces and, of the piece of a negative char, as much as makes j
\* characters; a quote that a cut left at the end belongs to a piece not yet read.
Walk(pos, at, m, j) ==
    /\ Stored(at, m, j)
    /\ j = 0 => i = pos[m + 1]
    /\ j > 0 => /\ m < Len(name)
                /\ name[m + 1] >= 128
                /\ i = pos[m + 1] + 3 + j
    /\ cut > 0 => \E e \in m + 1 .. Len(name) : name[e] = Quote /\ pos[e] = Len(s) - 1

EscapeInv ==
    /\ name \in Seq(0 .. 255)
    /\ s \in Seq(Nat)
    /\ oss \in Seq(Nat)
    /\ i \in Nat
    /\ cut \in Nat
    /\ pc = "escape" => /\ cut = 0
                        /\ oss = <<>>
                        /\ i \in 1 .. Len(name) + 1
                        /\ \E pos : /\ Layout(pos, i - 1)
                                    /\ Written(pos, i - 1)
                                    /\ Len(s) = pos[i] - 1
    /\ pc = "sent" => cut = 0
    /\ pc \in {"sent", "received"} => oss = <<>> /\ \E pos : Word(pos)
    /\ pc = "unescape" =>
        \E pos : /\ Word(pos)
                 /\ \E m \in 0 .. Len(name), j \in 0 .. 6 : \E at : Walk(pos, at, m, j)
    /\ pc = "unescaped" => cut = 0 /\ \E at : Stored(at, Len(name), 0)

\* A place in a piece that ends before b, which is not behind c.
LEMMA BetweenLemma ==
    ASSUME NEW a \in Nat, NEW b \in Nat, NEW c \in Nat, NEW j \in Nat, 1 <= a, 1 <= j,
           a + j - 1 <= b - 1, b <= c
    PROVE  a + j - 1 \in 1 .. c - 1
  OBVIOUS

\* A sequence over a set is one over any larger set.
LEMMA WidenLemma ==
    ASSUME NEW S, NEW T, S \subseteq T, NEW t \in Seq(S)
    PROVE  t \in Seq(T)
  OBVIOUS

\* The pieces of a name are not empty.
LEMMA PiecesLemma ==
    ASSUME name \in Seq(0 .. 255)
    PROVE  /\ Len(name) \in Nat
           /\ \A k \in 1 .. Len(name) :
                /\ k \in DOMAIN name /\ name[k] \in 0 .. 255
                /\ Len(Piece(k)) \in Nat \ {0}
                /\ Piece(k) \in Seq(33 .. 126)
<1>1. Len(name) \in Nat /\ DOMAIN name = 1 .. Len(name)
  OBVIOUS
<1>2. \A k \in 1 .. Len(name) : name[k] \in 0 .. 255
  BY <1>1, ElementLemma
<1> QED BY <1>1, <1>2, PieceLengthLemma, escapeCharLemma DEF Piece

LEMMA InitEscapeInv == Init => EscapeInv
<1> SUFFICES ASSUME Init PROVE EscapeInv
  OBVIOUS
<1>1. name \in Seq(0 .. 255)
  BY InitWordInv DEF WordInv
<1> DEFINE first == [k \in 1 .. 1 |-> 2]
<1>2. /\ first \in [1 .. 0 + 1 -> Nat] /\ first[1] = 2
      /\ \A k, l \in 1 .. 0 + 1 : k = 1 /\ l = 1
      /\ 1 .. 0 = {} /\ 2 .. 2 - 1 = {}
  OBVIOUS
<1> HIDE DEF first
<1>3. Layout(first, 0) /\ Written(first, 0)
  <2>1. \A k, l \in 1 .. 0 + 1 : k <= l => first[k] <= first[l]
    BY <1>2
  <2>2. first[0 + 1] = 2
    BY <1>2
  <2> QED BY <1>2, <2>1, <2>2 DEF Layout, Written
<1>4. s \in Seq(Nat) /\ Len(s) = 1
  BY DEF Init, Quote
<1>5. i = 1 /\ cut = 0 /\ oss = <<>> /\ pc = "escape"
  BY DEF Init
<1>6. Len(name) \in Nat
  BY <1>1
<1>7. \E pos : Layout(pos, i - 1) /\ Written(pos, i - 1) /\ Len(s) = pos[i] - 1
  <2>1. i - 1 = 0 /\ Len(s) = first[i] - 1
    BY <1>2, <1>4, <1>5
  <2> QED BY <1>3, <2>1
<1>8. oss \in Seq(Nat) /\ i \in Nat /\ cut \in Nat /\ i \in 1 .. Len(name) + 1
  BY <1>5, <1>6
<1> QED BY <1>1, <1>4, <1>5, <1>7, <1>8 DEF EscapeInv

\* escape writes the next piece.
LEMMA escapePiece ==
    ASSUME EscapeInv, pc = "escape", i \in DOMAIN name,
           s' = s \o escapeChar(name[i]), i' = i + 1, UNCHANGED <<pc, name, cut, oss>>
    PROVE  EscapeInv'
<1>1. /\ name \in Seq(0 .. 255) /\ s \in Seq(Nat) /\ i \in 1 .. Len(name)
      /\ Len(name) \in Nat /\ cut = 0 /\ oss = <<>> /\ oss \in Seq(Nat) /\ cut \in Nat
  BY DEF EscapeInv
<1>2. PICK pos : Layout(pos, i - 1) /\ Written(pos, i - 1) /\ Len(s) = pos[i] - 1
  BY DEF EscapeInv
<1>3. PICK m \in Nat : m = i - 1 /\ i = m + 1
  BY <1>1
<1>4. PICK more : /\ Layout(more, m + 1)
                  /\ \A k \in 1 .. m + 1 : more[k] = pos[k]
                  /\ more[m + 2] = pos[m + 1] + Len(Piece(m + 1))
  BY <1>1, <1>2, <1>3, LayoutStep
<1>5. /\ \A k \in 1 .. m + 1 : Len(Piece(k)) \in Nat \ {0}
      /\ Piece(i) \in Seq(33 .. 126)
  BY <1>1, <1>3, PiecesLemma
<1> DEFINE piece == Piece(i)
<1>6. /\ s' \in Seq(Nat) /\ Len(s') = Len(s) + Len(piece)
      /\ \A k \in 1 .. Len(s) : s'[k] = s[k]
      /\ \A k \in 1 .. Len(piece) : s'[Len(s) + k] = piece[k]
  <2>1. s' = s \o piece
    BY DEF Piece
  <2>2. piece \in Seq(Nat)
    <3>1. 33 .. 126 \subseteq Nat
      OBVIOUS
    <3> QED BY <1>5, <3>1, WidenLemma
  <2> HIDE DEF piece
  <2> QED BY <1>1, <2>1, <2>2, ConcatLemma
<1>7. pos[m + 1] \in Nat /\ Len(s) \in Nat /\ Len(s) = pos[m + 1] - 1
  <2>1. m + 1 \in 1 .. m + 1
    OBVIOUS
  <2> QED BY <1>1, <1>2, <1>3, <2>1 DEF Layout
<1>8. Written(more, m + 1)'
  <2> SUFFICES ASSUME NEW k \in 1 .. m + 1, NEW j \in 1 .. Len(Piece(k))
               PROVE  s'[more[k] + j - 1] = Piece(k)[j]
    BY DEF Written, Piece
  <2>1. CASE k = m + 1
    <3>1. more[k] + j - 1 = Len(s) + j
      BY <1>3, <1>4, <1>7, <2>1
    <3> QED BY <1>3, <1>6, <2>1, <3>1
  <2>2. CASE k \in 1 .. m
    <3>1. /\ pos[k] \in Nat /\ 2 <= pos[k] /\ pos[k + 1] <= pos[m + 1] /\ pos[k + 1] \in Nat
          /\ \A q \in 1 .. Len(Piece(k)) : pos[k] + q - 1 <= pos[k + 1] - 1
      <4>1. Layout(pos, m)
        BY <1>2, <1>3
      <4>2. \A l \in 1 .. m : Len(Piece(l)) \in Nat \ {0}
        BY <1>5
      <4> QED BY <2>2, <4>1, <4>2, LayoutBounds
    <3>5. Len(Piece(k)) \in Nat
      BY <1>5
    <3>2. pos[k] + j - 1 <= Len(s)
      <4>1. pos[k] + j - 1 <= pos[k + 1] - 1
        BY <3>1
      <4>2. /\ pos[k] \in Nat /\ 1 <= pos[k] /\ pos[k + 1] \in Nat
            /\ pos[k + 1] <= pos[m + 1]
        BY <3>1
      <4>3. j \in Nat /\ 1 <= j
        BY <3>5
      <4>4. pos[k] + j - 1 \in 1 .. pos[m + 1] - 1
        BY <1>7, <4>1, <4>2, <4>3, BetweenLemma
      <4> QED BY <1>7, <4>2, <4>3, <4>4
    <3>3. s[pos[k] + j - 1] = Piece(k)[j]
      BY <1>2, <1>3, <2>2, <3>2 DEF Written
    <3>4. pos[k] + j - 1 \in 1 .. Len(s)
      BY <1>7, <3>1, <3>2, <3>5
    <3> QED BY <1>4, <1>6, <3>3, <3>4
  <2>3. k = m + 1 \/ k \in 1 .. m
    OBVIOUS
  <2> QED BY <2>1, <2>2, <2>3, Zenon
<1>9. Layout(more, m + 1)'
  BY <1>4 DEF Layout, Piece
<1>10. i' - 1 = m + 1 /\ i' = m + 2 /\ i' \in 1 .. Len(name') + 1 /\ i' \in Nat
  BY <1>1, <1>3
<1>11. Len(s') = more[i'] - 1
  <2>1. more[i'] = pos[m + 1] + Len(piece) /\ Len(s') = Len(s) + Len(piece)
    BY <1>3, <1>4, <1>6, <1>10
  <2>2. Len(piece) \in Nat
    BY <1>3, <1>5
  <2> HIDE DEF piece
  <2> QED BY <1>7, <2>1, <2>2
<1> QED BY <1>1, <1>6, <1>8, <1>9, <1>10, <1>11 DEF EscapeInv

\* escape closes the word.
LEMMA escapeEnd ==
    ASSUME EscapeInv, pc = "escape", i = Len(name) + 1,
           s' = Append(s, Quote), pc' = "sent", UNCHANGED <<i, name, cut, oss>>
    PROVE  EscapeInv'
<1>1. /\ name \in Seq(0 .. 255) /\ s \in Seq(Nat) /\ i \in Nat /\ oss \in Seq(Nat)
      /\ cut \in Nat /\ cut = 0 /\ oss = <<>>
  BY DEF EscapeInv
<1>2. PICK pos : Layout(pos, i - 1) /\ Written(pos, i - 1) /\ Len(s) = pos[i] - 1
  BY DEF EscapeInv
<1>3. Len(name) \in Nat /\ i - 1 = Len(name)
  BY <1>1
<1>4. Quote \in Nat
  BY DEF Quote
<1>5. /\ s' \in Seq(Nat) /\ Len(s') = Len(s) + 1 /\ Len(s) \in Nat
      /\ \A k \in 1 .. Len(s) : s'[k] = s[k]
  BY <1>1, <1>4
<1>6. pos[Len(name) + 1] \in Nat /\ 2 <= pos[Len(name) + 1]
  <2>1. 1 \in 1 .. Len(name) + 1 /\ Len(name) + 1 \in 1 .. Len(name) + 1 /\ 1 <= Len(name) + 1
    BY <1>3
  <2>2. pos \in [1 .. Len(name) + 1 -> Nat] /\ pos[1] = 2 /\ pos[1] <= pos[Len(name) + 1]
    BY <1>2, <1>3, <2>1 DEF Layout
  <2> QED BY <2>1, <2>2
<1>7. Written(pos, Len(name))'
  <2> SUFFICES ASSUME NEW k \in 1 .. Len(name), NEW j \in 1 .. Len(Piece(k))
               PROVE  s'[pos[k] + j - 1] = Piece(k)[j]
    BY DEF Written, Piece
  <2>1. Layout(pos, Len(name)) /\ \A l \in 1 .. Len(name) : Len(Piece(l)) \in Nat \ {0}
    BY <1>1, <1>2, <1>3, PiecesLemma
  <2>2. /\ pos[k] \in Nat /\ 2 <= pos[k] /\ pos[k + 1] <= pos[Len(name) + 1] /\ pos[k + 1] \in Nat
        /\ \A q \in 1 .. Len(Piece(k)) : pos[k] + q - 1 <= pos[k + 1] - 1
    BY <1>3, <2>1, LayoutBounds
  <2>3. j \in Nat /\ 1 <= j
    BY <2>1
  <2>4. pos[k] + j - 1 <= pos[k + 1] - 1
    BY <2>2
  <2>5. pos[k] + j - 1 \in 1 .. Len(s)
    <3>1. Len(s) = pos[Len(name) + 1] - 1
      BY <1>2, <1>3
    <3>2. pos[k] \in Nat /\ 2 <= pos[k] /\ pos[k + 1] <= pos[Len(name) + 1] /\ pos[k + 1] \in Nat
      BY <2>2
    <3>3. 1 <= pos[k]
      BY <3>2
    <3>4. pos[k] + j - 1 \in 1 .. pos[Len(name) + 1] - 1
      BY <1>6, <2>3, <2>4, <3>2, <3>3, BetweenLemma
    <3> QED BY <3>1, <3>4
  <2>6. s[pos[k] + j - 1] = Piece(k)[j]
    BY <1>2, <1>3, <2>5 DEF Written
  <2> QED BY <1>5, <2>5, <2>6
<1>8. Layout(pos, Len(name))'
  BY <1>2, <1>3 DEF Layout, Piece
<1>9. Len(s') + cut' = pos[Len(name) + 1] /\ 2 <= Len(s')
  <2>1. Len(s) = pos[Len(name) + 1] - 1
    BY <1>2, <1>3
  <2> QED BY <1>1, <1>5, <1>6, <2>1
<1>10. Word(pos)'
  BY <1>7, <1>8, <1>9 DEF Word
<1>11. name' = name /\ i' = i /\ cut' = cut /\ oss' = oss
  OBVIOUS
<1> QED BY <1>1, <1>5, <1>10, <1>11 DEF EscapeInv

\* A read cuts the end off the word.
LEMMA receiveKeeps ==
    ASSUME EscapeInv, receive
    PROVE  EscapeInv'
<1>1. /\ name \in Seq(0 .. 255) /\ s \in Seq(Nat) /\ i \in Nat /\ oss \in Seq(Nat)
      /\ cut = 0 /\ oss = <<>>
  BY DEF EscapeInv, receive
<1>2. PICK pos : Word(pos)
  BY DEF EscapeInv, receive
<1>3. PICK k \in 0 .. MaxCut : k + 2 <= Len(s) /\ cut' = k /\ s' = SubSeq(s, 1, Len(s) - k)
  BY DEF receive
<1>4. k \in Nat /\ Len(s) \in Nat
  BY <1>1, MaxCutAssumption
<1>5. /\ s' \in Seq(Nat) /\ Len(s') = Len(s) - k
      /\ \A p \in 1 .. Len(s') : s'[p] = s[p]
  <2> DEFINE l == Len(s) - k
  <2>1. l \in Nat /\ l <= Len(s)
    BY <1>3, <1>4
  <2>2. s' = SubSeq(s, 1, l)
    BY <1>3
  <2> HIDE DEF l
  <2>3. s' \in Seq(Nat) /\ Len(s') = l /\ \A p \in 1 .. l : s'[p] = s[p]
    BY <1>1, <1>4, <2>1, <2>2
  <2> QED BY <2>3 DEF l
<1>6. UNCHANGED <<name, i, oss>> /\ pc' = "received"
  BY DEF receive
<1>7. Layout(pos, Len(name))'
  BY <1>2, <1>6 DEF Word, Layout, Piece
<1>8. Written(pos, Len(name))'
  <2> SUFFICES ASSUME NEW e \in 1 .. Len(name), NEW j \in 1 .. Len(Piece(e)),
                      pos[e] + j - 1 <= Len(s')
               PROVE  s'[pos[e] + j - 1] = Piece(e)[j]
    BY <1>6 DEF Written, Piece
  <2>1. Layout(pos, Len(name)) /\ \A l \in 1 .. Len(name) : Len(Piece(l)) \in Nat \ {0}
    BY <1>1, <1>2, PiecesLemma DEF Word
  <2>2. pos[e] \in Nat /\ 2 <= pos[e]
    BY <1>1, <2>1, PiecesLemma, LayoutBounds
  <2>3. j \in Nat /\ 1 <= j
    BY <2>1
  <2>4. pos[e] + j - 1 \in 1 .. Len(s')
    BY <1>3, <1>4, <1>5, <2>2, <2>3
  <2>5. pos[e] + j - 1 <= Len(s)
    BY <1>3, <1>4, <1>5, <2>2, <2>3
  <2>6. s[pos[e] + j - 1] = Piece(e)[j]
    BY <1>2, <2>5 DEF Word, Written
  <2> QED BY <1>5, <2>4, <2>6
<1>9. Len(s') + cut' = pos[Len(name) + 1] /\ 2 <= Len(s')
  <2>1. Len(s) + 0 = pos[Len(name) + 1]
    BY <1>1, <1>2 DEF Word
  <2>2. cut' = k /\ Len(s') = Len(s) - k /\ k + 2 <= Len(s)
    BY <1>3, <1>5
  <2> QED BY <1>4, <2>1, <2>2
<1>10. Word(pos)'
  BY <1>6, <1>7, <1>8, <1>9 DEF Word
<1>11. name' = name /\ i' = i /\ oss' = oss /\ cut' \in Nat
  BY <1>3, <1>4, <1>6
<1> QED BY <1>1, <1>5, <1>6, <1>10, <1>11 DEF EscapeInv

\* The place of each piece not yet read, in a word that may have lost its end: a piece
\* of which the first characters are there is there as a whole.
LEMMA WholePieceLemma ==
    ASSUME name \in Seq(0 .. 255), s \in Seq(Nat), cut \in Nat, NEW pos, Word(pos),
           NEW m \in Nat, m < Len(name),
           cut > 0 => \E e \in m + 1 .. Len(name) : name[e] = Quote /\ pos[e] = Len(s) - 1
    PROVE  /\ pos[m + 1] \in Nat /\ pos[m + 2] \in Nat /\ 2 <= pos[m + 1]
           /\ pos[m + 2] = pos[m + 1] + Len(Piece(m + 1))
           /\ pos[m + 2] - 1 <= Len(s)
           /\ Shown(name[m + 1], pos[m + 1])
<1>1. /\ Len(name) \in Nat /\ m + 1 \in 1 .. Len(name)
      /\ \A k \in 1 .. Len(name) : Len(Piece(k)) \in Nat \ {0} /\ name[k] \in 0 .. 255
  BY PiecesLemma
<1>2. Layout(pos, Len(name))
  BY DEF Word
<1>3. /\ pos[m + 1] \in Nat /\ pos[(m + 1) + 1] \in Nat /\ pos[Len(name) + 1] \in Nat
      /\ 2 <= pos[m + 1] /\ pos[(m + 1) + 1] <= pos[Len(name) + 1]
      /\ \A j \in 1 .. Len(Piece(m + 1)) : pos[m + 1] + j - 1 <= pos[(m + 1) + 1] - 1
  BY <1>1, <1>2, LayoutBounds
<1>4. pos[(m + 1) + 1] = pos[m + 1] + Len(Piece(m + 1))
  BY <1>1, <1>2 DEF Layout
<1>5. (m + 1) + 1 = m + 2
  OBVIOUS
<1>6. pos[m + 2] - 1 <= Len(s)
  <2>1. CASE cut = 0
    BY <1>3, <1>5, <2>1 DEF Word
  <2>2. CASE cut > 0
    <3>1. PICK e \in m + 1 .. Len(name) : name[e] = Quote /\ pos[e] = Len(s) - 1
      BY <2>2
    <3>2. CASE e = m + 1
      <4>1. Len(Piece(e)) = 2
        <5>1. escapeChar(Quote) = <<Backslash, Quote>>
          <6>1. Quote \in Plain /\ Quote \notin 7 .. 13 /\ Quote \in 0 .. 255 /\ isgraph(Quote)
            BY DEF Plain, Quote, isgraph
          <6> QED BY <6>1, PieceLemma
        <5>2. Piece(e) = <<Backslash, Quote>>
          BY <3>1, <5>1 DEF Piece
        <5> QED BY <5>2
      <4>2. pos[m + 2] = pos[m + 1] + 2 /\ pos[m + 1] = Len(s) - 1
        BY <1>4, <1>5, <3>1, <3>2, <4>1
      <4>3. Len(s) \in Nat /\ pos[m + 1] \in Nat
        BY <1>3
      <4> QED BY <4>2, <4>3
    <3>3. CASE e \in m + 2 .. Len(name)
      <4>1. m + 2 \in 1 .. Len(name) + 1 /\ e \in 1 .. Len(name) + 1 /\ m + 2 <= e
        BY <1>1, <3>3
      <4>2. pos[m + 2] <= pos[e]
        BY <1>2, <4>1 DEF Layout
      <4>3. Len(s) \in Nat
        OBVIOUS
      <4> QED BY <1>3, <1>5, <3>1, <4>2, <4>3
    <3>4. e = m + 1 \/ e \in m + 2 .. Len(name)
      BY <1>1
    <3> QED BY <3>2, <3>3, <3>4, Zenon
  <2> QED BY <2>1, <2>2
<1>7. Shown(name[m + 1], pos[m + 1])
  <2> SUFFICES ASSUME NEW j \in 1 .. Len(Piece(m + 1))
               PROVE  s[pos[m + 1] + j - 1] = Piece(m + 1)[j]
    BY DEF Shown, Piece
  <2>1. pos[m + 1] + j - 1 <= Len(s)
    <3>1. pos[m + 1] + j - 1 <= pos[m + 2] - 1
      BY <1>3, <1>5
    <3>2. j \in Nat /\ Len(s) \in Nat
      BY <1>1
    <3>3. pos[m + 1] \in Nat /\ pos[m + 2] \in Nat
      BY <1>3, <1>5
    <3> QED BY <1>6, <3>1, <3>2, <3>3
  <2> QED BY <1>1, <2>1 DEF Word, Written
<1> QED BY <1>3, <1>4, <1>5, <1>6, <1>7

\* unescape begins: a quote at the end of a word that is cut is that of a character.
LEMMA unescapeKeeps ==
    ASSUME EscapeInv, unescape
    PROVE  EscapeInv'
<1>1. /\ name \in Seq(0 .. 255) /\ s \in Seq(Nat) /\ oss \in Seq(Nat) /\ cut \in Nat
      /\ oss = <<>> /\ Len(name) \in Nat /\ Len(s) \in Nat
  BY DEF EscapeInv, unescape
<1>2. PICK pos : Word(pos)
  BY DEF EscapeInv, unescape
<1>3. /\ UNCHANGED <<name, s, cut, oss>> /\ i' = 2
      /\ pc' = IF WellFormed THEN "unescape" ELSE "thrown"
  BY DEF unescape
<1>4. CASE ~WellFormed
  <2>1. pc' = "thrown"
    BY <1>3, <1>4
  <2> QED BY <1>1, <1>3, <2>1 DEF EscapeInv
<1>5. CASE WellFormed
  <2> DEFINE first == [k \in 1 .. 1 |-> 1]
  <2>1. /\ first \in [1 .. 0 + 1 -> Nat] /\ first[1] = 1 /\ 0 + 1 = 1
        /\ \A k, l \in 1 .. 0 + 1 : k = 1 /\ l = 1
        /\ 1 .. 0 = {}
    OBVIOUS
  <2> HIDE DEF first
  <2>2. Stored(first, 0, 0)'
    <3>1. \A k, l \in 1 .. 0 + 1 : k <= l => first[k] <= first[l]
      BY <2>1
    <3>2. \A k \in 1 .. 0 + 1 : first[k] = k
      BY <2>1
    <3>3. Len(oss') = first[0 + 1] - 1 + 0
      BY <1>1, <1>3, <2>1
    <3> QED BY <1>3, <2>1, <3>1, <3>2, <3>3 DEF Stored
  <2>3. Layout(pos, Len(name)) /\ \A l \in 1 .. Len(name) : Len(Piece(l)) \in Nat \ {0}
    BY <1>1, <1>2, PiecesLemma DEF Word
  <2>4. pos[Len(name) + 1] \in Nat /\ pos[1] = 2
    <3>1. Len(name) + 1 \in 1 .. Len(name) + 1
      BY <1>1
    <3> QED BY <2>3, <3>1 DEF Layout
  <2>5. ASSUME cut > 0
        PROVE  \E e \in 0 + 1 .. Len(name) : name[e] = Quote /\ pos[e] = Len(s) - 1
    <3>1. Len(s) \in 2 .. pos[Len(name) + 1] - 1
      <4>1. Len(s) + cut = pos[Len(name) + 1] /\ 2 <= Len(s)
        BY <1>2 DEF Word
      <4> QED BY <1>1, <2>4, <2>5, <4>1
    <3>2. PICK e \in 1 .. Len(name) : Len(s) \in pos[e] .. pos[e + 1] - 1
      BY <2>3, <3>1 DEF Layout
    <3>3. pos[e] \in Nat /\ pos[e + 1] = pos[e] + Len(Piece(e)) /\ Len(Piece(e)) \in Nat
      <4>1. e \in 1 .. Len(name) + 1
        BY <1>1
      <4> QED BY <2>3, <4>1 DEF Layout
    <3> DEFINE j == Len(s) - pos[e] + 1
    <3>4. j \in 1 .. Len(Piece(e)) /\ pos[e] + j - 1 = Len(s)
      BY <1>1, <3>2, <3>3
    <3> HIDE DEF j
    <3>5. s[Len(s)] = Piece(e)[j]
      <4>1. pos[e] + j - 1 <= Len(s)
        BY <1>1, <3>4
      <4>2. s[pos[e] + j - 1] = Piece(e)[j]
        BY <1>2, <3>4, <4>1 DEF Word, Written
      <4> QED BY <3>4, <4>2
    <3>6. name[e] \in 0 .. 255
      BY <1>1, PiecesLemma
    <3>7. Piece(e)[j] = Quote
      BY <1>5, <3>5 DEF WellFormed
    <3>8. name[e] = Quote /\ j = 2
      BY <3>4, <3>6, <3>7, QuoteLemma DEF Piece
    <3>9. pos[e] = Len(s) - 1
      BY <1>1, <3>3, <3>4, <3>8
    <3> QED BY <3>8, <3>9
  <2>6. i' = pos[0 + 1]
    BY <1>3, <2>4
  <2>7. Walk(pos, first, 0, 0)'
    BY <1>3, <2>2, <2>5, <2>6 DEF Walk
  <2>8. Word(pos)'
    BY <1>2, <1>3 DEF Word, Layout, Written, Piece
  <2>9. pc' = "unescape" /\ 0 \in 0 .. Len(name') /\ 0 \in 0 .. 6
    BY <1>1, <1>3, <1>5
  <2>10. \E p : Word(p)' /\ \E m \in 0 .. Len(name'), j \in 0 .. 6 : \E at : Walk(p, at, m, j)'
    BY <2>7, <2>8, <2>9
  <2>11. i' \in Nat
    BY <1>3
  <2> QED BY <1>1, <1>3, <2>9, <2>10, <2>11 DEF EscapeInv
<1> QED BY <1>4, <1>5

-----------------------------------------------------------------------------

\* Where unescape stands while there are characters left: within a piece that is there
\* as a whole.
LEMMA StandsLemma ==
    ASSUME name \in Seq(0 .. 255), s \in Seq(Nat), cut \in Nat, NEW pos, Word(pos),
           NEW m \in 0 .. Len(name), NEW j \in 0 .. 6, NEW at, Walk(pos, at, m, j), i < Len(s)
    PROVE  m < Len(name)
<1>1. Len(name) \in Nat /\ Len(s) \in Nat
  OBVIOUS
<1>2. CASE j > 0
  BY <1>2 DEF Walk
<1>3. CASE j = 0 /\ m = Len(name)
  <2>1. i = pos[Len(name) + 1]
    BY <1>3 DEF Walk
  <2>2. Len(s) + cut = pos[Len(name) + 1]
    BY DEF Word
  <2> QED BY <1>1, <2>1, <2>2
<1>4. j > 0 \/ (j = 0 /\ m = Len(name)) \/ m < Len(name)
  BY <1>1
<1> QED BY <1>2, <1>3, <1>4

\* Where it stands when there is none: behind the last piece of the whole word.
LEMMA EndsLemma ==
    ASSUME name \in Seq(0 .. 255), s \in Seq(Nat), cut \in Nat, NEW pos, Word(pos),
           NEW m \in 0 .. Len(name), NEW j \in 0 .. 6, NEW at, Walk(pos, at, m, j),
           i \in Nat, i >= Len(s)
    PROVE  cut = 0 /\ m = Len(name) /\ j = 0
<1>1. Len(name) \in Nat /\ Len(s) \in Nat /\ m \in Nat
  OBVIOUS
<1>2. ASSUME m < Len(name)
      PROVE  FALSE
  <2>1. cut > 0 => \E e \in m + 1 .. Len(name) : name[e] = Quote /\ pos[e] = Len(s) - 1
    BY DEF Walk
  <2>2. /\ pos[m + 1] \in Nat /\ pos[m + 2] \in Nat /\ 2 <= pos[m + 1]
        /\ pos[m + 2] = pos[m + 1] + Len(Piece(m + 1))
        /\ pos[m + 2] - 1 <= Len(s)
        /\ Shown(name[m + 1], pos[m + 1])
    BY <1>1, <1>2, <2>1, WholePieceLemma
  <2>3. name[m + 1] \in 0 .. 255 /\ Len(Piece(m + 1)) \in Nat \ {0}
    <3>1. m + 1 \in 1 .. Len(name)
      BY <1>1, <1>2
    <3> QED BY <3>1, PiecesLemma
  <2>4. Layout(pos, Len(name))
    BY DEF Word
  <2>5. i < pos[m + 2]
    <3>1. CASE j = 0
      <4>1. i = pos[m + 1]
        BY <3>1 DEF Walk
      <4> QED BY <2>2, <2>3, <4>1
    <3>2. CASE j > 0
      <4>1. name[m + 1] >= 128 /\ i = pos[m + 1] + 3 + j
        BY <3>2 DEF Walk
      <4>2. Len(Piece(m + 1)) = 10
        BY <2>2, <2>3, <4>1, ReadPieceLemma DEF Piece, Understood
      <4>3. pos[m + 2] = pos[m + 1] + 10
        BY <2>2, <4>2
      <4>4. i = pos[m + 1] + 3 + j /\ pos[m + 1] \in Nat /\ j \in 0 .. 6
        BY <2>2, <4>1
      <4> QED BY <4>3, <4>4
    <3> QED BY <3>1, <3>2
  <2>6. CASE cut = 0
    <3>1. Len(s) + 0 = pos[Len(name) + 1]
      BY <2>6 DEF Word
    <3>2. m + 2 \in 1 .. Len(name) + 1 /\ Len(name) + 1 \in 1 .. Len(name) + 1 /\ m + 2 <= Len(name) + 1
      BY <1>1, <1>2
    <3>3. pos[m + 2] <= pos[Len(name) + 1]
      BY <2>4, <3>2 DEF Layout
    <3> QED BY <1>1, <2>2, <2>5, <3>1, <3>3
  <2>7. CASE cut > 0
    <3>1. PICK e \in m + 1 .. Len(name) : name[e] = Quote /\ pos[e] = Len(s) - 1
      BY <2>1, <2>7
    <3>2. CASE e = m + 1
      <4>1. j = 0
        <5>1. ~(name[m + 1] >= 128)
          BY <3>1, <3>2 DEF Quote
        <5> QED BY <5>1 DEF Walk
      <4>2. i = pos[m + 1]
        BY <4>1 DEF Walk
      <4> QED BY <1>1, <3>1, <3>2, <4>2
    <3>3. CASE e \in m + 2 .. Len(name)
      <4>1. m + 2 \in 1 .. Len(name) + 1 /\ e \in 1 .. Len(name) + 1 /\ m + 2 <= e
        BY <1>1, <3>3
      <4>2. pos[m + 2] <= pos[e]
        BY <2>4, <4>1 DEF Layout
      <4> QED BY <1>1, <2>2, <2>5, <3>1, <4>2
    <3>4. e = m + 1 \/ e \in m + 2 .. Len(name)
      BY <1>1
    <3> QED BY <3>2, <3>3, <3>4, Zenon
  <2> QED BY <2>6, <2>7
<1>3. m = Len(name)
  BY <1>1, <1>2
<1>4. j = 0
  <2>1. j > 0 => m < Len(name)
    BY DEF Walk
  <2> QED BY <1>1, <1>3, <2>1
<1>5. cut = 0
  <2>1. cut > 0 => \E e \in m + 1 .. Len(name) : TRUE
    BY DEF Walk
  <2>2. m + 1 .. Len(name) = {}
    BY <1>1, <1>3
  <2> QED BY <2>1, <2>2
<1> QED BY <1>3, <1>4, <1>5

\* What an iteration of unescape reads: a character that is no backslash, or an escape
\* that is not malformed; w is how many characters it takes, x what it makes of them.
Reads(x, w) ==
    \/ s[i] # Backslash /\ x = s[i] /\ w = 1
    \/ s[i] = Backslash /\ ~Malformed(i) /\ x = Unescaped(i) /\ w = Width(i)

\* What it makes of the start of a piece.
LEMMA ReadsLemma ==
    ASSUME NEW c \in 0 .. 255, i \in Nat, Shown(c, i), NEW x, NEW w, Reads(x, w)
    PROVE  /\ c < 128 => x = c /\ w = Len(escapeChar(c))
           /\ c >= 128 => x = 255 /\ w = 4
           /\ c \in Nat /\ (c < 128 \/ c >= 128)
<1>1. /\ s[i] # Backslash => c < 128 /\ s[i] = c /\ Len(escapeChar(c)) = 1
      /\ s[i] = Backslash /\ c < 128 => Unescaped(i) = c /\ Width(i) = Len(escapeChar(c))
      /\ c >= 128 => s[i] = Backslash /\ Unescaped(i) = 255 /\ Width(i) = 4
  <2>1. Understood(c, i)
    BY ReadPieceLemma
  <2> QED BY <2>1, Zenon DEF Understood
<1>2. c \in Nat /\ (c < 128 \/ c >= 128)
  OBVIOUS
<1>3. c < 128 => x = c /\ w = Len(escapeChar(c))
  BY <1>1, Zenon DEF Reads
<1>4. c >= 128 => x = 255 /\ w = 4
  BY <1>1, Zenon DEF Reads
<1> QED BY <1>2, <1>3, <1>4, Zenon

\* The characters behind the escape of a negative char, as they are and as they are heard.
LEMMA TailLemma ==
    ASSUME NEW c \in 0 .. 255, NEW k \in Nat, Shown(c, k), c >= 128, NEW j \in 1 .. 6
    PROVE  /\ Len(Heard(c)) = 7 /\ Len(escapeChar(c)) = 10
           /\ s[k + 3 + j] = Heard(c)[j + 1]
           /\ s[k + 3 + j] \in Nat
           /\ s[k + 3 + j] # Backslash
<1>1. /\ Len(Heard(c)) = 7
      /\ \A q \in 2 .. 5 : Heard(c)[q] = 102
      /\ Heard(c)[6] = High(c)
      /\ Heard(c)[7] = Low(c)
  <2>1. c >= 128 => /\ Len(Heard(c)) = 7 /\ Heard(c)[1] = 255
                    /\ \A q \in 2 .. 5 : Heard(c)[q] = 102
                    /\ Heard(c)[6] = High(c)
                    /\ Heard(c)[7] = Low(c)
    BY HeardLemma, Zenon
  <2> QED BY <2>1, Zenon
<1>2. /\ Len(escapeChar(c)) = 10
      /\ \A q \in 4 .. 7 : s[k + q] = 102
      /\ s[k + 8] = High(c) /\ s[k + 9] = Low(c)
  <2>1. Understood(c, k)
    BY ReadPieceLemma
  <2> QED BY <2>1, Zenon DEF Understood
<1>3. High(c) \in Nat /\ Low(c) \in Nat /\ High(c) # Backslash /\ Low(c) # Backslash
  BY HighLowLemma
<1>5. 102 \in Nat /\ 102 # Backslash
  BY DEF Backslash
<1>6. CASE j \in 1 .. 4
  <2>1. j + 1 \in 2 .. 5 /\ j + 3 \in 4 .. 7 /\ k + 3 + j = k + (j + 3)
    BY <1>6
  <2> QED BY <1>1, <1>2, <1>5, <2>1
<1>7. CASE j = 5
  <2>1. j + 1 = 6 /\ k + 3 + j = k + 8
    BY <1>7
  <2> QED BY <1>1, <1>2, <1>3, <2>1
<1>8. CASE j = 6
  <2>1. j + 1 = 7 /\ k + 3 + j = k + 9
    BY <1>8
  <2> QED BY <1>1, <1>2, <1>3, <2>1
<1>9. j \in 1 .. 4 \/ j = 5 \/ j = 6
  OBVIOUS
<1> QED BY <1>6, <1>7, <1>8, <1>9, Zenon

LEMMA NextPlaceLemma ==
    ASSUME NEW a \in Nat, NEW j \in Nat, NEW k, NEW l, k = a + 3 + j, l = k + 1
    PROVE  l = a + 3 + (j + 1)
  OBVIOUS

\* The next piece begins where this one ends, and a quote left by a cut is not in this
\* one if it is not the last that is there.
LEMMA NextPieceLemma ==
    ASSUME name \in Seq(0 .. 255), oss \in Seq(Nat), cut \in Nat, NEW pos,
           NEW m \in 0 .. Len(name), m < Len(name),
           cut > 0 => \E e \in m + 2 .. Len(name) : name[e] = Quote /\ pos[e] = Len(s) - 1,
           UNCHANGED <<name, s, cut>>, i' = pos[m + 2],
           \E more : Stored(more, m + 1, 0)'
    PROVE  \E n \in 0 .. Len(name), j \in 0 .. 6 : \E at : Walk(pos, at, n, j)'
<1>1. PICK more : Stored(more, m + 1, 0)'
  OBVIOUS
<1>2. Len(name) \in Nat /\ m + 1 \in 0 .. Len(name) /\ (m + 1) + 1 = m + 2
  OBVIOUS
<1>3. 0 \in 0 .. 6 /\ ~(0 > 0)
  OBVIOUS
<1>4. Walk(pos, more, m + 1, 0)'
  BY <1>1, <1>2, <1>3 DEF Walk
<1> QED BY <1>2, <1>3, <1>4

\* What the name, the word and the result are.
Typed ==
    /\ name \in Seq(0 .. 255)
    /\ s \in Seq(Nat)
    /\ oss \in Seq(Nat)
    /\ i \in Nat
    /\ cut \in Nat

\* The first character of a piece, or the escape at its start.
LEMMA PieceStartLemma ==
    ASSUME Typed, NEW pos, Word(pos), NEW m \in Nat, m <= Len(name), NEW at,
           Walk(pos, at, m, 0), i < Len(s),
           NEW x, NEW w, Reads(x, w), Hears(x), i' = i + w, UNCHANGED <<s, cut>>
    PROVE  x \in Nat /\ \E n \in 0 .. Len(name), j \in 0 .. 6 : \E more : Walk(pos, more, n, j)'
<1>1. /\ Len(name) \in Nat /\ Len(s) \in Nat /\ m \in 0 .. Len(name)
      /\ name \in Seq(0 .. 255) /\ s \in Seq(Nat) /\ oss \in Seq(Nat)
      /\ i \in Nat /\ cut \in Nat
  BY DEF Typed
<1>2. m < Len(name)
  <2>1. 0 \in 0 .. 6
    OBVIOUS
  <2> QED BY <1>1, <2>1, StandsLemma
<1>3. Stored(at, m, 0) /\ i = pos[m + 1]
  BY DEF Walk
<1>4. cut > 0 => \E e \in m + 1 .. Len(name) : name[e] = Quote /\ pos[e] = Len(s) - 1
  BY DEF Walk
<1>5. m + 1 \in DOMAIN name /\ name[m + 1] \in 0 .. 255
  <2>1. m + 1 \in 1 .. Len(name)
    BY <1>1, <1>2
  <2> QED BY <1>1, <2>1, PiecesLemma
<1>6. /\ pos[m + 1] \in Nat /\ pos[m + 2] \in Nat
      /\ pos[m + 2] = pos[m + 1] + Len(Piece(m + 1))
      /\ Shown(name[m + 1], pos[m + 1])
  BY <1>1, <1>2, <1>4, WholePieceLemma
<1>7. UNCHANGED name
  BY DEF Hears
<1>8. PICK c \in 0 .. 255 : c = name[m + 1]
  BY <1>5
<1>9. /\ c < 128 => x = c /\ w = Len(escapeChar(c))
      /\ c >= 128 => x = 255 /\ w = 4
      /\ c \in Nat /\ (c < 128 \/ c >= 128)
  <2>1. Shown(c, i) /\ i \in Nat
    BY <1>3, <1>6, <1>8
  <2> QED BY <2>1, ReadsLemma
<1>10. CASE c < 128
  <2>1. Len(Heard(c)) = 1 /\ Heard(c)[1] = c
    BY <1>10, HeardLemma
  <2>2. x = c /\ w = Len(Piece(m + 1))
    BY <1>8, <1>9, <1>10 DEF Piece
  <2>3. \E more : Stored(more, m + 1, 0)'
    <3>1. x \in Nat /\ 0 + 1 <= Len(Heard(c)) /\ x = Heard(c)[0 + 1] /\ 0 + 1 = Len(Heard(c))
      BY <1>9, <2>1, <2>2
    <3>2. 0 \in Nat
      OBVIOUS
    <3> QED BY <1>1, <1>3, <1>5, <1>8, <3>1, <3>2, StoredStep
  <2>4. i' = pos[m + 2]
    BY <1>3, <1>6, <2>2
  <2>5. ASSUME cut > 0
        PROVE  \E e \in m + 2 .. Len(name) : name[e] = Quote /\ pos[e] = Len(s) - 1
    <3>1. PICK e \in m + 1 .. Len(name) : name[e] = Quote /\ pos[e] = Len(s) - 1
      BY <1>4, <2>5
    <3>2. e # m + 1
      <4>1. SUFFICES ASSUME e = m + 1 PROVE FALSE
        OBVIOUS
      <4>2. i = Len(s) - 1 /\ c = Quote
        BY <1>3, <1>8, <3>1, <4>1
      <4>3. Len(escapeChar(Quote)) = 2
        <5>1. Quote \in Plain /\ Quote \notin 7 .. 13 /\ Quote \in 0 .. 255 /\ isgraph(Quote)
          BY DEF Plain, Quote, isgraph
        <5>2. escapeChar(Quote) = <<Backslash, Quote>>
          BY <5>1, PieceLemma
        <5> QED BY <5>2
      <4>4. s[i] = Backslash
        <5>1. w = 2
          BY <1>9, <1>10, <4>2, <4>3
        <5> QED BY <5>1 DEF Reads
      <4>5. i + 1 = Len(s)
        BY <1>1, <4>2
      <4> QED BY <4>4, <4>5 DEF Reads, Malformed
    <3>3. e \in m + 2 .. Len(name)
      BY <1>1, <3>1, <3>2
    <3> QED BY <3>1, <3>3
  <2>6. x \in Nat
    BY <1>9, <2>2
  <2> QED BY <1>1, <1>2, <1>7, <2>3, <2>4, <2>5, <2>6, NextPieceLemma
<1>11. CASE c >= 128
  <2>1. x = 255 /\ w = 4
    BY <1>9, <1>11
  <2>2. Len(Heard(c)) = 7 /\ Heard(c)[1] = 255
    BY <1>11, HeardLemma
  <2>3. x \in Nat
    BY <2>1
  <2>4. Stored(at, m, 1)'
    <3>1. 0 + 1 <= Len(Heard(c)) /\ x = Heard(c)[0 + 1] /\ 0 + 1 < Len(Heard(c)) /\ 0 + 1 = 1
      BY <2>1, <2>2
    <3>2. 0 \in Nat
      OBVIOUS
    <3>3. Stored(at, m, 0 + 1)'
      BY <1>1, <1>3, <1>5, <1>8, <2>3, <3>1, <3>2, StoredStep
    <3> QED BY <3>1, <3>3
  <2>5. i' = pos[m + 1] + 3 + 1
    BY <1>3, <1>6, <2>1
  <2>6. Walk(pos, at, m, 1)'
    <3>1. 1 > 0 /\ 1 # 0
      OBVIOUS
    <3>2. m < Len(name') /\ name'[m + 1] >= 128
      BY <1>2, <1>7, <1>8, <1>11
    <3>3. cut' > 0 => \E e \in m + 1 .. Len(name') : name'[e] = Quote /\ pos[e] = Len(s') - 1
      BY <1>4, <1>7
    <3> QED BY <2>4, <2>5, <3>1, <3>2, <3>3 DEF Walk
  <2>7. 1 \in 0 .. 6
    OBVIOUS
  <2> QED BY <1>1, <2>3, <2>6, <2>7
<1> QED BY <1>9, <1>10, <1>11

\* The characters behind the escape of a negative char.
LEMMA PieceTailLemma ==
    ASSUME Typed, NEW pos, Word(pos), NEW m \in Nat, m <= Len(name), NEW j \in 1 .. 6, NEW at,
           Walk(pos, at, m, j), i < Len(s),
           NEW x, NEW w, Reads(x, w), Hears(x), i' = i + w, UNCHANGED <<s, cut>>
    PROVE  x \in Nat /\ \E n \in 0 .. Len(name), k \in 0 .. 6 : \E more : Walk(pos, more, n, k)'
<1>1. /\ Len(name) \in Nat /\ Len(s) \in Nat /\ m \in 0 .. Len(name)
      /\ name \in Seq(0 .. 255) /\ s \in Seq(Nat) /\ oss \in Seq(Nat)
      /\ i \in Nat /\ cut \in Nat
  BY DEF Typed
<1>2. /\ Stored(at, m, j) /\ m < Len(name) /\ name[m + 1] >= 128
      /\ i = pos[m + 1] + 3 + j /\ j \in Nat
  BY DEF Walk
<1>3. cut > 0 => \E e \in m + 1 .. Len(name) : name[e] = Quote /\ pos[e] = Len(s) - 1
  BY DEF Walk
<1>4. m + 1 \in DOMAIN name /\ name[m + 1] \in 0 .. 255
  <2>1. m + 1 \in 1 .. Len(name)
    BY <1>1, <1>2
  <2> QED BY <1>1, <2>1, PiecesLemma
<1>5. /\ pos[m + 1] \in Nat /\ pos[m + 2] \in Nat
      /\ pos[m + 2] = pos[m + 1] + Len(Piece(m + 1))
      /\ Shown(name[m + 1], pos[m + 1])
  BY <1>1, <1>2, <1>3, WholePieceLemma
<1>6. UNCHANGED name
  BY DEF Hears
<1>7. PICK c \in 0 .. 255 : c = name[m + 1]
  BY <1>4
<1>8. /\ Len(Heard(c)) = 7 /\ Len(escapeChar(c)) = 10
      /\ s[i] = Heard(c)[j + 1] /\ s[i] \in Nat /\ s[i] # Backslash
  <2>1. Shown(c, pos[m + 1]) /\ c >= 128
    BY <1>2, <1>5, <1>7
  <2>2. /\ Len(Heard(c)) = 7 /\ Len(escapeChar(c)) = 10
        /\ s[pos[m + 1] + 3 + j] = Heard(c)[j + 1]
        /\ s[pos[m + 1] + 3 + j] \in Nat
        /\ s[pos[m + 1] + 3 + j] # Backslash
    BY <1>5, <2>1, TailLemma
  <2> QED BY <1>2, <2>2
<1>9. x = Heard(c)[j + 1] /\ w = 1 /\ x \in Nat
  BY <1>8 DEF Reads
<1>10. j + 1 <= Len(Heard(c))
  BY <1>8
<1>11. /\ j + 1 < Len(Heard(c)) => Stored(at, m, j + 1)'
       /\ j + 1 = Len(Heard(c)) => \E more : Stored(more, m + 1, 0)'
  BY <1>1, <1>2, <1>4, <1>7, <1>9, <1>10, StoredStep
<1>12. i' = pos[m + 1] + 3 + (j + 1)
  <2>1. i = pos[m + 1] + 3 + j /\ i' = i + 1
    BY <1>2, <1>9
  <2>2. pos[m + 1] \in Nat /\ j \in Nat
    BY <1>5
  <2> DEFINE a == pos[m + 1]
             next == i'
  <2>3. a \in Nat /\ i = a + 3 + j /\ next = i + 1
    BY <2>1, <2>2
  <2> HIDE DEF a, next
  <2>4. next = a + 3 + (j + 1)
    BY <2>2, <2>3, NextPlaceLemma, Zenon
  <2> QED BY <2>4, Zenon DEF a, next
<1>13. CASE j \in 1 .. 5
  <2>1. Stored(at, m, j + 1)'
    BY <1>8, <1>11, <1>13
  <2>2. j + 1 > 0 /\ j + 1 # 0 /\ j + 1 \in 0 .. 6
    BY <1>13
  <2>3. m < Len(name') /\ name'[m + 1] >= 128
    BY <1>2, <1>6
  <2>4. cut' > 0 => \E e \in m + 1 .. Len(name') : name'[e] = Quote /\ pos[e] = Len(s') - 1
    BY <1>3, <1>6
  <2>5. Walk(pos, at, m, j + 1)'
    BY <1>12, <2>1, <2>2, <2>3, <2>4 DEF Walk
  <2> QED BY <1>1, <1>9, <2>2, <2>5
<1>14. CASE j = 6
  <2>1. \E more : Stored(more, m + 1, 0)'
    BY <1>8, <1>11, <1>14
  <2>2. i' = pos[m + 2]
    <3>1. Len(Piece(m + 1)) = 10
      BY <1>7, <1>8 DEF Piece
    <3>2. pos[m + 2] = pos[m + 1] + 10 /\ pos[m + 1] \in Nat
      BY <1>5, <3>1
    <3>3. i' = pos[m + 1] + 3 + (6 + 1)
      BY <1>12, <1>14
    <3> QED BY <3>2, <3>3
  <2>3. ASSUME cut > 0
        PROVE  \E e \in m + 2 .. Len(name) : name[e] = Quote /\ pos[e] = Len(s) - 1
    <3>1. PICK e \in m + 1 .. Len(name) : name[e] = Quote /\ pos[e] = Len(s) - 1
      BY <1>3, <2>3
    <3>2. e # m + 1
      <4>1. ~(Quote >= 128)
        BY DEF Quote
      <4> QED BY <1>2, <3>1, <4>1
    <3>3. e \in m + 2 .. Len(name)
      BY <1>1, <3>1, <3>2
    <3> QED BY <3>1, <3>3
  <2> QED BY <1>1, <1>2, <1>6, <1>9, <2>1, <2>2, <2>3, NextPieceLemma
<1>15. j \in 1 .. 5 \/ j = 6
  OBVIOUS
<1> QED BY <1>13, <1>14, <1>15, Zenon

\* An iteration of unescape that does not throw.
LEMMA unescapeReads ==
    ASSUME EscapeInv, pc = "unescape", i < Len(s), NEW x, NEW w, Reads(x, w),
           oss' = Append(oss, x), w \in Nat, i' = i + w, UNCHANGED <<pc, name, s, cut>>
    PROVE  EscapeInv'
<1>1. Typed
  BY DEF EscapeInv, Typed
<1>2. PICK pos : /\ Word(pos)
                 /\ \E m \in 0 .. Len(name), j \in 0 .. 6 : \E at : Walk(pos, at, m, j)
  BY DEF EscapeInv
<1>11. PICK m \in 0 .. Len(name), j \in 0 .. 6 : \E at : Walk(pos, at, m, j)
  BY <1>2
<1>3. PICK at : Walk(pos, at, m, j)
  BY <1>11
<1>4. m \in Nat /\ m <= Len(name)
  BY <1>1 DEF Typed
<1>5. Hears(x)
  BY DEF Hears
<1>6. /\ x \in Nat
      /\ \E n \in 0 .. Len(name), k \in 0 .. 6 : \E more : Walk(pos, more, n, k)'
  <2>1. CASE j = 0
    BY <1>1, <1>2, <1>3, <1>4, <1>5, <2>1, PieceStartLemma
  <2>2. CASE j \in 1 .. 6
    BY <1>1, <1>2, <1>3, <1>4, <1>5, <2>2, PieceTailLemma
  <2>3. j = 0 \/ j \in 1 .. 6
    OBVIOUS
  <2> QED BY <2>1, <2>2, <2>3, Zenon
<1>7. Typed'
  <2>1. oss \in Seq(Nat) /\ i \in Nat
    BY <1>1 DEF Typed
  <2>2. oss' \in Seq(Nat)
    BY <1>6, <2>1
  <2>3. i' \in Nat
    BY <2>1
  <2> QED BY <1>1, <2>2, <2>3 DEF Typed
<1>8. Word(pos)'
  BY <1>2 DEF Word, Layout, Written, Piece
<1>9. \E p : Word(p)' /\ \E n \in 0 .. Len(name'), k \in 0 .. 6 : \E more : Walk(p, more, n, k)'
  BY <1>6, <1>8
<1>10. pc' = "unescape"
  OBVIOUS
<1> QED BY <1>7, <1>9, <1>10 DEF Typed, EscapeInv

LEMMA unescapeStepKeeps ==
    ASSUME EscapeInv, unescapeStep
    PROVE  EscapeInv'
<1>1. Typed /\ pc = "unescape" /\ UNCHANGED <<name, s, cut>>
  BY DEF EscapeInv, Typed, unescapeStep
<1>2. CASE i >= Len(s) /\ pc' = "unescaped" /\ UNCHANGED <<i, oss>>
  <2>1. PICK pos : /\ Word(pos)
                   /\ \E m \in 0 .. Len(name), j \in 0 .. 6 : \E at : Walk(pos, at, m, j)
    BY <1>1 DEF EscapeInv
  <2>7. PICK m \in 0 .. Len(name), j \in 0 .. 6 : \E at : Walk(pos, at, m, j)
    BY <2>1
  <2>2. PICK at : Walk(pos, at, m, j)
    BY <2>7
  <2>3. cut = 0 /\ m = Len(name) /\ j = 0
    BY <1>1, <1>2, <2>1, <2>2, EndsLemma DEF Typed
  <2>4. Stored(at, Len(name), 0)
    BY <2>2, <2>3 DEF Walk
  <2>5. \E more : Stored(more, Len(name), 0)'
    BY <1>1, <1>2, <2>4 DEF Stored
  <2>6. Typed' /\ cut' = 0 /\ pc' = "unescaped"
    BY <1>1, <1>2, <2>3 DEF Typed
  <2> QED BY <2>5, <2>6 DEF Typed, EscapeInv
<1>3. CASE pc' = "thrown" /\ UNCHANGED <<i, oss>>
  BY <1>1, <1>3 DEF Typed, EscapeInv
<1>4. CASE i < Len(s) /\ s[i] # Backslash /\ oss' = Append(oss, s[i]) /\ i' = i + 1 /\ UNCHANGED pc
  <2>1. PICK x, w : x = s[i] /\ w = 1
    OBVIOUS
  <2>2. Reads(x, w) /\ w \in Nat
    BY <1>4, <2>1 DEF Reads
  <2> QED BY <1>1, <1>4, <2>1, <2>2, unescapeReads
<1>5. CASE /\ i < Len(s) /\ s[i] = Backslash /\ ~Malformed(i)
           /\ oss' = Append(oss, Unescaped(i)) /\ i' = i + Width(i) /\ UNCHANGED pc
  <2>1. PICK x, w : x = Unescaped(i) /\ w = Width(i)
    OBVIOUS
  <2>2. Reads(x, w) /\ w \in Nat
    BY <1>5, <2>1 DEF Reads, Width
  <2> QED BY <1>1, <1>5, <2>1, <2>2, unescapeReads
<1> QED BY <1>2, <1>3, <1>4, <1>5 DEF unescapeStep

LEMMA NextEscapeInv == EscapeInv /\ [Next]_vars => EscapeInv'
<1> SUFFICES ASSUME EscapeInv, [Next]_vars PROVE EscapeInv'
  OBVIOUS
<1>1. CASE escape
  BY <1>1, escapePiece, escapeEnd DEF escape
<1>2. CASE receive
  BY <1>2, receiveKeeps
<1>3. CASE unescape
  BY <1>3, unescapeKeeps
<1>4. CASE unescapeStep
  BY <1>4, unescapeStepKeeps
<1>5. CASE UNCHANGED vars
  <2>1. UNCHANGED <<pc, name, s, cut, i, oss>>
    BY <1>5 DEF vars
  <2>2. \A pos, m : Layout(pos, m)' = Layout(pos, m) /\ Written(pos, m)' = Written(pos, m)
    BY <2>1 DEF Layout, Written, Piece
  <2>3. \A pos : Word(pos)' = Word(pos)
    BY <2>1, <2>2 DEF Word
  <2>4. \A at, m, j : Stored(at, m, j)' = Stored(at, m, j)
    BY <2>1 DEF Stored
  <2>5. \A pos, at, m, j : Walk(pos, at, m, j)' = Walk(pos, at, m, j)
    BY <2>1, <2>4 DEF Walk
  <2> QED BY <2>1, <2>2, <2>3, <2>4, <2>5 DEF EscapeInv
<1> QED BY <1>1, <1>2, <1>3, <1>4, <1>5 DEF Next

\* CutThrows: unescape never takes a name that lost its end for a whole one, however
\* much of it is lost and whatever characters are in it.
THEOREM CutIsRefused == Spec => []CutThrows
<1>1. EscapeInv => CutThrows
  BY DEF EscapeInv, CutThrows
<1> QED BY <1>1, InitEscapeInv, NextEscapeInv, PTL DEF Spec

\* AsciiRoundTrip: unescape gives back every name of ASCII characters.
THEOREM AsciiReturns == Spec => []AsciiRoundTrip
<1>1. EscapeInv => AsciiRoundTrip
  <2> SUFFICES ASSUME EscapeInv, pc = "unescaped", \A k \in DOMAIN name : name[k] < 128
               PROVE  oss = name
    BY DEF AsciiRoundTrip
  <2>1. PICK at : Stored(at, Len(name), 0)
    BY DEF EscapeInv
  <2>2. /\ name \in Seq(0 .. 255) /\ oss \in Seq(Nat)
        /\ Len(name) \in Nat /\ DOMAIN name = 1 .. Len(name)
    BY DEF EscapeInv
  <2>3. \A k \in 1 .. Len(name) + 1 : at[k] = k
    <3> TAKE k \in 1 .. Len(name) + 1
    <3>1. \A l \in 1 .. k - 1 : name[l] < 128
      BY <2>2
    <3> QED BY <2>1, <3>1 DEF Stored
  <2>4. Len(oss) = Len(name)
    <3>1. Len(oss) = at[Len(name) + 1] - 1 + 0 /\ at[Len(name) + 1] = Len(name) + 1
      BY <2>1, <2>2, <2>3 DEF Stored
    <3> QED BY <2>2, <3>1
  <2>5. \A k \in 1 .. Len(name) : oss[k] = name[k]
    <3> TAKE k \in 1 .. Len(name)
    <3>1. name[k] \in 0 .. 255 /\ name[k] < 128
      BY <2>2, PiecesLemma
    <3>2. Len(Heard(name[k])) = 1 /\ Heard(name[k])[1] = name[k]
      BY <3>1, HeardLemma
    <3>3. oss[at[k] + 1 - 1] = Heard(name[k])[1]
      BY <2>1, <3>2 DEF Stored
    <3>4. at[k] + 1 - 1 = k
      BY <2>2, <2>3
    <3> QED BY <3>2, <3>3, <3>4
  <2> QED BY <2>2, <2>4, <2>5, SeqEqual
<1> QED BY <1>1, InitEscapeInv, NextEscapeInv, PTL DEF Spec

-----------------------------------------------------------------------------
(* The name that a name of the server stands for. *)

\* A set of numbers has a least one.
LEMMA LeastNatural ==
    ASSUME NEW S \in SUBSET Nat, S # {}
    PROVE  \E n \in S : \A m \in S : n <= m
<1> DEFINE R == { ss \in Nat \X Nat : ss[1] < ss[2] }
<1>1. IsWellFoundedOn(R, Nat)
  BY NatLessThanWellFounded DEF OpToRel
<1>2. PICK n \in S : \A m \in S : <<m, n>> \notin R
  <2> HIDE DEF R
  <2> QED BY <1>1, WFMin
<1>3. \A m \in S : ~ (m < n)
  BY <1>2
<1> QED BY <1>3

\* What the name is from the character k on, when f tells it for the characters behind.
Decoded(t, f, k) ==
    IF k > Len(t) THEN <<>>
    ELSE IF t[k] = 255 /\ k + 6 <= Len(t)
    THEN <<HexValue(t[k + 5]) * 16 + HexValue(t[k + 6])>> \o f[k + 7]
    ELSE <<t[k]>> \o f[k + 1]

\* It depends on the characters behind k only.
LEMMA DecodedLemma ==
    ASSUME NEW t, Len(t) \in Nat, NEW f, NEW g, NEW k \in 1 .. Len(t) + 7,
           \A l \in k + 1 .. Len(t) + 7 : f[l] = g[l]
    PROVE  Decoded(t, f, k) = Decoded(t, g, k)
<1>1. CASE k > Len(t)
  BY <1>1 DEF Decoded
<1>2. CASE k <= Len(t)
  <2>1. k + 7 \in k + 1 .. Len(t) + 7 /\ k + 1 \in k + 1 .. Len(t) + 7
    BY <1>2
  <2>2. f[k + 7] = g[k + 7] /\ f[k + 1] = g[k + 1]
    BY <2>1
  <2> QED BY <2>2, Zenon DEF Decoded
<1> QED BY <1>1, <1>2

\* f, a function of the places, tells it for the last d of them.
Tells(f, t, d) ==
    /\ f = [k \in 1 .. Len(t) + 7 |-> f[k]]
    /\ \A k \in Len(t) + 8 - d .. Len(t) + 7 : f[k] = Decoded(t, f, k)

\* There is one that tells it for all: a least d for which there is none would be one
\* more than a d for which there is one.
LEMMA DecodingExists ==
    ASSUME NEW t, Len(t) \in Nat
    PROVE  \E f : f = [k \in 1 .. Len(t) + 7 |-> Decoded(t, f, k)]
<1> DEFINE L == Len(t) + 7
           Bad == { d \in 0 .. L : ~ \E f : Tells(f, t, d) }
<1>1. Bad = {}
  <2>1. SUFFICES ASSUME Bad # {} PROVE FALSE
    OBVIOUS
  <2>2. PICK d \in Bad : \A e \in Bad : d <= e
    <3>1. Bad \in SUBSET Nat
      OBVIOUS
    <3> HIDE DEF Bad
    <3> QED BY <2>1, <3>1, LeastNatural
  <2>3. d # 0
    <3>1. PICK f : f = [k \in 1 .. L |-> 0]
      OBVIOUS
    <3>2. f = [k \in 1 .. L |-> f[k]]
      BY <3>1
    <3>3. Len(t) + 8 - 0 .. Len(t) + 7 = {}
      OBVIOUS
    <3>4. Tells(f, t, 0)
      BY <3>2, <3>3 DEF Tells
    <3> QED BY <3>4
  <2>4. d - 1 \in 0 .. L /\ d - 1 \notin Bad /\ d \in 1 .. L
    <3>1. d \in 0 .. L
      OBVIOUS
    <3>2. d - 1 \in 0 .. L /\ ~(d <= d - 1) /\ d \in 1 .. L
      BY <2>3, <3>1
    <3> HIDE DEF Bad
    <3> QED BY <2>2, <3>2
  <2>5. PICK f : Tells(f, t, d - 1)
    BY <2>4
  <2> DEFINE p == Len(t) + 8 - d
  <2>6. p \in 1 .. L /\ Len(t) + 8 - (d - 1) = p + 1
    BY <2>4
  <2>7. PICK g : g = [k \in 1 .. L |-> IF k = p THEN Decoded(t, f, k) ELSE f[k]]
    OBVIOUS
  <2> HIDE DEF p, Bad
  <2>8. g = [k \in 1 .. L |-> g[k]]
    BY <2>7
  <2>9. \A l \in p + 1 .. L : f[l] = g[l]
    BY <2>6, <2>7
  <2>10. \A k \in p .. L : g[k] = Decoded(t, g, k)
    <3> TAKE k \in p .. L
    <3>1. k \in 1 .. L
      BY <2>6
    <3>2. Decoded(t, f, k) = Decoded(t, g, k)
      <4>1. \A l \in k + 1 .. L : l \in p + 1 .. L
        BY <2>6
      <4> QED BY <2>9, <3>1, <4>1, DecodedLemma
    <3>3. g[k] = Decoded(t, f, k)
      <4>1. CASE k = p
        BY <2>7, <3>1, <4>1, Zenon
      <4>2. CASE k # p
        <5>1. k \in p + 1 .. L
          BY <2>6, <4>2
        <5>2. f[k] = Decoded(t, f, k)
          BY <2>5, <2>6, <5>1 DEF Tells
        <5> QED BY <2>9, <5>1, <5>2
      <4> QED BY <4>1, <4>2
    <3> QED BY <3>2, <3>3
  <2>11. Tells(g, t, d)
    BY <2>8, <2>10 DEF Tells, p
  <2> QED BY <2>4, <2>11 DEF Bad
<1>2. L \in 0 .. L
  OBVIOUS
<1>3. PICK f : Tells(f, t, L)
  BY <1>1, <1>2
<1>4. Len(t) + 8 - L = 1
  OBVIOUS
<1>5. \A k \in 1 .. L : f[k] = Decoded(t, f, k)
  BY <1>3, <1>4 DEF Tells
<1>6. f = [k \in 1 .. L |-> f[k]]
  BY <1>3 DEF Tells
<1>7. f = [k \in 1 .. L |-> Decoded(t, f, k)]
  BY <1>5, <1>6, Zenon
<1> QED BY <1>7

\* Original is told by such a function.
LEMMA OriginalLemma ==
    ASSUME NEW t, Len(t) \in Nat
    PROVE  \E f : /\ f = [k \in 1 .. Len(t) + 7 |-> Decoded(t, f, k)]
                  /\ Original(t) = f[1]
<1> DEFINE F == CHOOSE f : f = [k \in 1 .. Len(t) + 7 |-> Decoded(t, f, k)]
<1>1. F = [k \in 1 .. Len(t) + 7 |-> Decoded(t, F, k)]
  BY DecodingExists
<1>2. Original(t) = F[1]
  BY Zenon DEF Original, Decoded
<1> QED BY <1>1, <1>2

\* The end of a sequence from one of its elements on.
LEMMA RestLemma ==
    ASSUME NEW S, NEW t \in Seq(S), NEW k \in 1 .. Len(t)
    PROVE  <<t[k]>> \o SubSeq(t, k + 1, Len(t)) = SubSeq(t, k, Len(t))
<1> DEFINE a == <<t[k]>>
           b == SubSeq(t, k + 1, Len(t))
           c == SubSeq(t, k, Len(t))
<1>1. a \in Seq(S) /\ Len(a) = 1 /\ a[1] = t[k]
  <2>1. t[k] \in S
    OBVIOUS
  <2> QED BY <2>1
<1>2. Len(t) \in Nat
  OBVIOUS
<1>3. /\ b \in Seq(S) /\ Len(b) = Len(t) - k
      /\ \A j \in 1 .. Len(t) - k : b[j] = t[k + 1 + j - 1]
  BY <1>2
<1>4. /\ c \in Seq(S) /\ Len(c) = Len(t) - k + 1
      /\ \A j \in 1 .. Len(t) - k + 1 : c[j] = t[k + j - 1]
  BY <1>2
<1> HIDE DEF a, b, c
<1>5. /\ a \o b \in Seq(S) /\ Len(a \o b) = Len(a) + Len(b)
      /\ \A j \in 1 .. Len(a) : (a \o b)[j] = a[j]
      /\ \A j \in 1 .. Len(b) : (a \o b)[Len(a) + j] = b[j]
  <2>1. a \in Seq(S)
    BY <1>1
  <2>2. b \in Seq(S)
    BY <1>3
  <2> QED BY <2>1, <2>2, ConcatLemma
<1> DEFINE d == a \o b
<1>6. /\ d \in Seq(S) /\ Len(d) = 1 + (Len(t) - k)
      /\ d[1] = t[k]
      /\ \A j \in 1 .. Len(t) - k : d[1 + j] = b[j]
  BY <1>1, <1>3, <1>5
<1> HIDE DEF d
<1>7. \A j \in 1 .. Len(d) : d[j] = c[j]
  <2> TAKE j \in 1 .. Len(d)
  <2>1. CASE j = 1
    <3>1. j \in 1 .. Len(t) - k + 1 /\ k + j - 1 = k
      BY <1>2, <2>1
    <3> QED BY <1>4, <1>6, <2>1, <3>1
  <2>2. CASE j \in 2 .. Len(d)
    <3>1. /\ j - 1 \in 1 .. Len(t) - k /\ 1 + (j - 1) = j
          /\ k + 1 + (j - 1) - 1 = k + j - 1
          /\ j \in 1 .. Len(t) - k + 1
      BY <1>2, <1>6, <2>2
    <3>2. d[1 + (j - 1)] = b[j - 1]
      BY <1>6, <3>1
    <3>3. b[j - 1] = t[k + 1 + (j - 1) - 1]
      BY <1>3, <3>1
    <3>4. c[j] = t[k + j - 1]
      BY <1>4, <3>1
    <3> QED BY <3>1, <3>2, <3>3, <3>4, Zenon
  <2>3. j = 1 \/ j \in 2 .. Len(d)
    BY <1>2, <1>6
  <2> QED BY <2>1, <2>2, <2>3, Zenon
<1>8. Len(d) = Len(c)
  BY <1>2, <1>4, <1>6
<1>9. d = c
  BY <1>4, <1>6, <1>7, <1>8, SeqEqual
<1> QED BY <1>9 DEF a, b, c, d

LEMMA WholeLemma ==
    ASSUME NEW S, NEW t \in Seq(S)
    PROVE  SubSeq(t, 1, Len(t)) = t
<1> DEFINE c == SubSeq(t, 1, Len(t))
<1>1. Len(t) \in Nat
  OBVIOUS
<1>2. /\ c \in Seq(S) /\ Len(c) = Len(t)
      /\ \A j \in 1 .. Len(t) : c[j] = t[1 + j - 1]
  BY <1>1
<1>3. \A j \in 1 .. Len(t) : 1 + j - 1 = j
  OBVIOUS
<1> HIDE DEF c
<1>4. c = t
  BY <1>2, <1>3, SeqEqual
<1> QED BY <1>4 DEF c

\* The places in oss.
LEMMA StoredBounds ==
    ASSUME Typed, NEW at, Stored(at, Len(name), 0), NEW k \in 1 .. Len(name)
    PROVE  /\ at[k] \in Nat /\ 1 <= at[k] /\ at[k + 1] \in Nat
           /\ at[k + 1] = at[k] + Len(Heard(name[k]))
           /\ at[k + 1] <= Len(oss) + 1
           /\ \A q \in 1 .. Len(Heard(name[k])) : oss[at[k] + q - 1] = Heard(name[k])[q]
<1>1. Len(name) \in Nat /\ Len(oss) \in Nat
  BY DEF Typed
<1>2. /\ k \in 1 .. Len(name) + 1 /\ k + 1 \in 1 .. Len(name) + 1 /\ 1 \in 1 .. Len(name) + 1
      /\ Len(name) + 1 \in 1 .. Len(name) + 1 /\ 1 <= k /\ k + 1 <= Len(name) + 1
  BY <1>1
<1>3. /\ at[k] \in Nat /\ at[k + 1] \in Nat /\ at[Len(name) + 1] \in Nat
      /\ at[1] = 1 /\ at[1] <= at[k] /\ at[k + 1] <= at[Len(name) + 1]
  BY <1>2 DEF Stored
<1>4. /\ at[k + 1] = at[k] + Len(Heard(name[k]))
      /\ \A q \in 1 .. Len(Heard(name[k])) : oss[at[k] + q - 1] = Heard(name[k])[q]
  BY DEF Stored
<1>5. Len(oss) = at[Len(name) + 1] - 1 + 0
  BY DEF Stored
<1>6. at[Len(name) + 1] = Len(oss) + 1
  BY <1>1, <1>3, <1>5
<1> QED BY <1>3, <1>4, <1>6

\* The digits behind a byte ff tell the character.
LEMMA ValueLemma ==
    ASSUME NEW c \in 0 .. 255
    PROVE  HexValue(High(c)) * 16 + HexValue(Low(c)) = c
<1>1. \A d \in 0 .. 15 : HexValue(HexDigit(d)) = d
  BY DEF HexValue, HexDigit
<1>2. c \div 16 \in 0 .. 15 /\ c % 16 \in 0 .. 15 /\ (c \div 16) * 16 + (c % 16) = c
  OBVIOUS
<1>3. HexValue(High(c)) = c \div 16 /\ HexValue(Low(c)) = c % 16
  BY <1>1, <1>2 DEF High, Low
<1> QED BY <1>2, <1>3

\* One character more from the end.
LEMMA DecodedStep ==
    ASSUME Typed, NEW at, Stored(at, Len(name), 0), NEW k \in 1 .. Len(name),
           NEW f, f = [l \in 1 .. Len(oss) + 7 |-> Decoded(oss, f, l)],
           f[at[k + 1]] = SubSeq(name, k + 1, Len(name))
    PROVE  f[at[k]] = SubSeq(name, k, Len(name))
<1>1. /\ at[k] \in Nat /\ 1 <= at[k] /\ at[k + 1] \in Nat
      /\ at[k + 1] = at[k] + Len(Heard(name[k]))
      /\ at[k + 1] <= Len(oss) + 1
      /\ \A q \in 1 .. Len(Heard(name[k])) : oss[at[k] + q - 1] = Heard(name[k])[q]
  BY StoredBounds
<1>2. /\ Len(oss) \in Nat /\ name \in Seq(0 .. 255) /\ Len(name) \in Nat
  BY DEF Typed
<1>3. PICK c \in 0 .. 255 : c = name[k]
  BY <1>2, PiecesLemma
<1>4. PICK p \in Nat : p = at[k]
  BY <1>1
<1>5. <<c>> \o SubSeq(name, k + 1, Len(name)) = SubSeq(name, k, Len(name))
  BY <1>2, <1>3, RestLemma
<1>6. /\ c < 128 => Len(Heard(c)) = 1 /\ Heard(c)[1] = c
      /\ c >= 128 => /\ Len(Heard(c)) = 7 /\ Heard(c)[1] = 255
                     /\ Heard(c)[6] = High(c) /\ Heard(c)[7] = Low(c)
      /\ Len(Heard(c)) \in Nat \ {0}
  <2>1. /\ c < 128 => Len(Heard(c)) = 1 /\ Heard(c)[1] = c
        /\ c >= 128 => /\ Len(Heard(c)) = 7 /\ Heard(c)[1] = 255
                       /\ \A q \in 2 .. 5 : Heard(c)[q] = 102
                       /\ Heard(c)[6] = High(c)
                       /\ Heard(c)[7] = Low(c)
        /\ Len(Heard(c)) \in Nat \ {0}
    BY HeardLemma, ZenonT(30)
  <2> QED BY <2>1, Zenon
<1> DEFINE w == Len(Heard(c))
<1>7. /\ w \in Nat \ {0} /\ at[k + 1] = p + w /\ p + w <= Len(oss) + 1
      /\ \A q \in 1 .. w : oss[p + q - 1] = Heard(c)[q]
  BY <1>1, <1>3, <1>4, <1>6
<1> HIDE DEF w
<1>8. p \in 1 .. Len(oss) + 7 /\ ~(p > Len(oss))
  <2> DEFINE l == Len(oss)
  <2>1. l \in Nat /\ 1 <= p /\ w \in Nat \ {0} /\ p + w <= l + 1
    BY <1>1, <1>2, <1>4, <1>7
  <2> HIDE DEF l
  <2>2. p \in 1 .. l + 7 /\ ~(p > l)
    BY <2>1
  <2> QED BY <2>2 DEF l
<1>9. f[p] = Decoded(oss, f, p)
  BY <1>8
<1>10. CASE c < 128
  <2>1. w = 1 /\ 1 \in 1 .. w /\ p + 1 - 1 = p
    BY <1>6, <1>10 DEF w
  <2>2. oss[p] = c /\ at[k + 1] = p + 1
    BY <1>6, <1>7, <1>10, <2>1
  <2>3. ~(oss[p] = 255)
    BY <1>10, <2>2
  <2>4. f[p] = <<oss[p]>> \o f[p + 1]
    BY <1>8, <1>9, <2>3, Zenon DEF Decoded
  <2>5. f[p] = <<c>> \o SubSeq(name, k + 1, Len(name))
    BY <2>2, <2>4, Zenon
  <2> QED BY <1>4, <1>5, <2>5, Zenon
<1>11. CASE c >= 128
  <2>1. /\ w = 7 /\ Heard(c)[1] = 255 /\ Heard(c)[6] = High(c) /\ Heard(c)[7] = Low(c)
    BY <1>6, <1>11 DEF w
  <2>2. /\ 1 \in 1 .. w /\ 6 \in 1 .. w /\ 7 \in 1 .. w
        /\ p + 1 - 1 = p /\ p + 6 - 1 = p + 5 /\ p + 7 - 1 = p + 6
    BY <2>1
  <2>3. oss[p] = 255 /\ oss[p + 5] = High(c) /\ oss[p + 6] = Low(c)
    <3>1. oss[p + 1 - 1] = Heard(c)[1] /\ oss[p + 6 - 1] = Heard(c)[6] /\ oss[p + 7 - 1] = Heard(c)[7]
      BY <1>7, <2>2, Zenon
    <3> QED BY <2>1, <2>2, <3>1, Zenon
  <2>4. at[k + 1] = p + 7 /\ p + 6 <= Len(oss)
    BY <1>2, <1>7, <2>1
  <2>5. f[p] = <<HexValue(oss[p + 5]) * 16 + HexValue(oss[p + 6])>> \o f[p + 7]
    BY <1>8, <1>9, <2>3, <2>4, Zenon DEF Decoded
  <2>6. HexValue(oss[p + 5]) * 16 + HexValue(oss[p + 6]) = c
    BY <2>3, ValueLemma
  <2>7. f[p] = <<c>> \o SubSeq(name, k + 1, Len(name))
    BY <2>4, <2>5, <2>6, Zenon
  <2> QED BY <1>4, <1>5, <2>7, Zenon
<1>12. c < 128 \/ c >= 128
  OBVIOUS
<1> QED BY <1>10, <1>11, <1>12

\* The whole of it: a place from which the name is not told would have one behind it.
LEMMA NameTold ==
    ASSUME Typed, NEW at, Stored(at, Len(name), 0),
           NEW f, f = [l \in 1 .. Len(oss) + 7 |-> Decoded(oss, f, l)]
    PROVE  f[at[1]] = SubSeq(name, 1, Len(name))
<1>1. Len(name) \in Nat /\ Len(oss) \in Nat /\ name \in Seq(0 .. 255)
  BY DEF Typed
<1> DEFINE n == Len(name)
           Bad == { d \in 0 .. n : f[at[n + 1 - d]] # SubSeq(name, n + 1 - d, n) }
<1>2. SUFFICES ASSUME Bad # {} PROVE FALSE
  <2>1. n \in 0 .. n /\ n + 1 - n = 1
    BY <1>1
  <2> QED BY <2>1
<1>3. PICK d \in Bad : \A e \in Bad : d <= e
  <2>1. Bad \in SUBSET Nat
    BY <1>1
  <2> HIDE DEF Bad
  <2> QED BY <1>2, <2>1, LeastNatural
<1>4. d \in 0 .. n /\ f[at[n + 1 - d]] # SubSeq(name, n + 1 - d, n)
  OBVIOUS
<1>5. d # 0
  <2>1. SUFFICES ASSUME d = 0 PROVE FALSE
    OBVIOUS
  <2>2. n + 1 - d = n + 1
    BY <1>1, <2>1
  <2>3. Len(oss) = at[n + 1] - 1 + 0 /\ at[n + 1] \in Nat
    <3>1. n + 1 \in 1 .. n + 1
      BY <1>1
    <3> QED BY <3>1 DEF Stored
  <2>4. at[n + 1] = Len(oss) + 1
    BY <1>1, <2>3
  <2>5. Len(oss) + 1 \in 1 .. Len(oss) + 7 /\ Len(oss) + 1 > Len(oss)
    BY <1>1
  <2>6. f[at[n + 1]] = Decoded(oss, f, Len(oss) + 1)
    BY <2>4, <2>5
  <2>7. f[at[n + 1]] = <<>>
    BY <2>5, <2>6, Zenon DEF Decoded
  <2>8. SubSeq(name, n + 1, n) = <<>>
    BY <1>1
  <2> QED BY <1>4, <2>2, <2>7, <2>8, Zenon
<1>6. d - 1 \notin Bad
  <2>1. ~(d <= d - 1)
    BY <1>1, <1>4
  <2> HIDE DEF Bad
  <2> QED BY <1>3, <2>1
<1>7. /\ d - 1 \in 0 .. n /\ n + 1 - d \in 1 .. n
      /\ n + 1 - (d - 1) = (n + 1 - d) + 1
  BY <1>1, <1>4, <1>5
<1>8. f[at[n + 1 - (d - 1)]] = SubSeq(name, n + 1 - (d - 1), n)
  BY <1>6, <1>7
<1> HIDE DEF Bad
<1>9. f[at[(n + 1 - d) + 1]] = SubSeq(name, (n + 1 - d) + 1, n)
  BY <1>7, <1>8, Zenon
<1>10. f[at[n + 1 - d]] = SubSeq(name, n + 1 - d, n)
  BY <1>7, <1>9, DecodedStep
<1> QED BY <1>4, <1>10

\* OneToOne: the name the server stores tells the name of the team, for all names: no two
\* become one, though the characters from 128 on are mangled.
THEOREM NamesStayApart == Spec => []OneToOne
<1>1. EscapeInv => OneToOne
  <2> SUFFICES ASSUME EscapeInv, pc = "unescaped" PROVE Original(oss) = name
    BY DEF OneToOne
  <2>1. Typed
    BY DEF EscapeInv, Typed
  <2>2. PICK at : Stored(at, Len(name), 0)
    BY DEF EscapeInv
  <2>3. Len(oss) \in Nat /\ Len(name) \in Nat /\ name \in Seq(0 .. 255)
    BY <2>1 DEF Typed
  <2>4. PICK f : /\ f = [k \in 1 .. Len(oss) + 7 |-> Decoded(oss, f, k)]
                 /\ Original(oss) = f[1]
    BY <2>3, OriginalLemma
  <2>5. f[at[1]] = SubSeq(name, 1, Len(name))
    BY <2>1, <2>2, <2>4, NameTold
  <2>6. at[1] = 1
    BY <2>2 DEF Stored
  <2>7. SubSeq(name, 1, Len(name)) = name
    BY <2>3, WholeLemma
  <2> QED BY <2>4, <2>5, <2>6, <2>7, Zenon
<1> QED BY <1>1, InitEscapeInv, NextEscapeInv, PTL DEF Spec


=============================================================================
