-------------------------------- MODULE Escape --------------------------------
(***************************************************************************)
(* The way of a name through the protocol: escape() in the team, a read of *)
(* the server that may cut the message, unescape() in the management       *)
(* (src/src/util/stringutils.cpp).  A character is its code; a char of the *)
(* program is signed, so the codes from 128 on are negative numbers there. *)
(***************************************************************************)
EXTENDS Naturals, Sequences

CONSTANTS
    Alphabet,   \* bound: the characters of the names
    MaxLength,  \* bound: the length of a name
    MaxCut      \* characters a read of the server may cut off

ASSUME AlphabetAssumption  == Alphabet \subseteq 0 .. 255
ASSUME MaxLengthAssumption == MaxLength \in Nat
ASSUME MaxCutAssumption    == MaxCut \in Nat

VARIABLES
    pc,     \* where the name is
    name,   \* what the team wants to register
    s,      \* the escaped name: what is written, sent and read
    cut,    \* how many characters of it the read of the server cut off
    i,      \* the index of the loop, from 1
    oss     \* what unescape has written

vars == <<pc, name, s, cut, i, oss>>

Quote     == 34
Backslash == 92
LetterX   == 120

isgraph(c) == c \in 33 .. 126
isprint(c) == c \in 32 .. 126

\* The digits of std::hex, and the value of a digit.
HexDigit(d) == IF d < 10 THEN 48 + d ELSE 87 + d
HexValue(c) ==
    CASE c \in 48 .. 57  -> c - 48
      [] c \in 97 .. 102 -> c - 87
      [] c \in 65 .. 70  -> c - 55

isxdigit(c) == c \in (48 .. 57) \cup (97 .. 102) \cup (65 .. 70)

\* The characters that are escaped as themselves, and as a letter:
\* \a \b \t \n \v \f \r.
Plain   == {39, Quote, 63, Backslash}
Letters == <<97, 98, 116, 110, 118, 102, 114>>

Init ==
    /\ pc   = "escape"
    /\ name \in UNION { [1 .. n -> Alphabet] : n \in 0 .. MaxLength }
    /\ s    = <<Quote>>
    /\ cut  = 0
    /\ i    = 1
    /\ oss  = <<>>

-----------------------------------------------------------------------------
(* escape *)

\* (int) c of a negative char has eight digits.
Hex(c) == (IF c < 128 THEN <<>> ELSE [k \in 1 .. 6 |-> HexDigit(15)])
              \o << HexDigit(c \div 16), HexDigit(c % 16) >>

\* Mutant: a space is taken for graphic.
escapeCharPrinting(c) ==
    CASE c \in Plain      -> <<Backslash, c>>
      [] c \in 7 .. 13    -> <<Backslash, Letters[c - 6]>>
      [] c \notin Plain /\ isprint(c)  -> <<c>>
      [] c \notin 7 .. 13 /\ ~isprint(c) -> <<Backslash, LetterX>> \o Hex(c)

escapeChar(c) ==
    CASE c \in Plain      -> <<Backslash, c>>
      [] c \in 7 .. 13    -> <<Backslash, Letters[c - 6]>>
      [] c \notin Plain /\ isgraph(c)  -> <<c>>
      [] c \notin 7 .. 13 /\ ~isgraph(c) -> <<Backslash, LetterX>> \o Hex(c)

escape ==
    /\ pc = "escape"
    /\ \/ /\ i \in DOMAIN name
          /\ s' = s \o escapeChar(name[i])
          /\ i' = i + 1
          /\ UNCHANGED pc
       \/ /\ i = Len(name) + 1
          /\ s' = Append(s, Quote)
          /\ pc' = "sent"
          /\ UNCHANGED i
    /\ UNCHANGED <<name, cut, oss>>

-----------------------------------------------------------------------------
\* The message arrives whole or without its last characters: the client sends
\* two characters more than the server reads at once.
receive ==
    /\ pc = "sent"
    /\ \E k \in 0 .. MaxCut :
            /\ k + 2 <= Len(s)
            /\ cut' = k
            /\ s' = SubSeq(s, 1, Len(s) - k)
    /\ pc' = "received"
    /\ UNCHANGED <<name, i, oss>>

-----------------------------------------------------------------------------
(* unescape *)

\* The checks before the loop.
WellFormed ==
    /\ \A k \in DOMAIN s : isprint(s[k])
    /\ s[1] = Quote /\ s[Len(s)] = Quote

unescape ==
    /\ pc = "received"
    /\ pc' = IF WellFormed THEN "unescape" ELSE "thrown"
    /\ i' = 2
    /\ UNCHANGED <<name, s, cut, oss>>

\* Mutant: nothing is said of an escape that takes in the closing quote.
MalformedLate(k) ==
    \/ s[k + 1] = LetterX /\ ~(isxdigit(s[k + 2]) /\ isxdigit(s[k + 3]))
    \/ s[k + 1] \notin Plain \cup {LetterX} \cup { Letters[l] : l \in DOMAIN Letters }

\* The reasons to throw at a backslash at k.
Malformed(k) ==
    \/ k + 1 = Len(s)
    \/ /\ s[k + 1] = LetterX
       /\ k + 3 >= Len(s) \/ ~(isxdigit(s[k + 2]) /\ isxdigit(s[k + 3]))
    \/ s[k + 1] \notin Plain \cup {LetterX} \cup { Letters[l] : l \in DOMAIN Letters }

\* Mutant: the second digit is assigned and not added.
hexToCharAssigning(high, low) == HexValue(low)

\* hexToChar: a char keeps eight bits of the sum.
hexToChar(high, low) == (HexValue(high) * 16 + HexValue(low)) % 256

\* What an escape at k stands for, and the characters it takes.
Unescaped(k) ==
    CASE s[k + 1] \in Plain   -> s[k + 1]
      [] s[k + 1] = LetterX   -> hexToChar(s[k + 2], s[k + 3])
      [] s[k + 1] \notin Plain \cup {LetterX} -> 6 + (CHOOSE l \in DOMAIN Letters : Letters[l] = s[k + 1])

\* Mutant: one digit of a hexadecimal escape is read again.
WidthShort(k) == IF s[k + 1] = LetterX THEN 3 ELSE 2

Width(k) == IF s[k + 1] = LetterX THEN 4 ELSE 2

\* One iteration of the loop between the quotes.
unescapeStep ==
    /\ pc = "unescape"
    /\ \/ /\ i >= Len(s)
          /\ pc' = "unescaped"
          /\ UNCHANGED <<i, oss>>
       \/ /\ i < Len(s)
          /\ s[i] # Backslash
          /\ oss' = Append(oss, s[i])
          /\ i' = i + 1
          /\ UNCHANGED pc
       \/ /\ i < Len(s)
          /\ s[i] = Backslash
          /\ Malformed(i)
          /\ pc' = "thrown"
          /\ UNCHANGED <<i, oss>>
       \/ /\ i < Len(s)
          /\ s[i] = Backslash
          /\ ~Malformed(i)
          /\ oss' = Append(oss, Unescaped(i))
          /\ i' = i + Width(i)
          /\ UNCHANGED pc
    /\ UNCHANGED <<name, s, cut>>

Next == escape \/ receive \/ unescape \/ unescapeStep

Spec == Init /\ [][Next]_vars

-----------------------------------------------------------------------------

\* An escaped name is one word of printable characters between two quotes: the
\* extraction of handleTarakanRegistration, which stops at a space, takes the name
\* and nothing else of "REGISTER TARAKAN".
OneWord ==
    pc = "sent" =>
        /\ \A k \in DOMAIN s : isgraph(s[k])
        /\ s[1] = Quote /\ s[Len(s)] = Quote

\* A name of ASCII characters comes out of unescape as it went into escape.
AsciiRoundTrip ==
    (pc = "unescaped" /\ cut = 0 /\ \A k \in DOMAIN name : name[k] < 128) => oss = name

\* The name a server name stands for: the code 255 starts seven characters that
\* stand for one, all others stand for themselves.
Original(t) ==
    LET f[k \in 1 .. Len(t) + 7] ==
            IF k > Len(t) THEN <<>>
            ELSE IF t[k] = 255 /\ k + 6 <= Len(t)
            THEN <<HexValue(t[k + 5]) * 16 + HexValue(t[k + 6])>> \o f[k + 7]
            ELSE <<t[k]>> \o f[k + 1]
    IN  f[1]

\* No two names become one, though a character from 128 on is mangled: the name
\* of the team can be told from the name the server stores.  This is what
\* ReceivedAssumption of Network takes for granted.
OneToOne == (pc = "unescaped" /\ cut = 0) => Original(oss) = name

\* unescape refuses a name that lost its end, quote or more, whatever is in it; it
\* never takes a shorter name for it.  Wire of Team says so of a cut call.
CutThrows == cut > 0 => pc # "unescaped"

=============================================================================
