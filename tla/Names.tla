-------------------------------- MODULE Names --------------------------------
(***************************************************************************)
(* The texts by which clients name files: paths as they are written        *)
(* (lib/path.cc), percent quoting and URIs (lib/uri.cc), and the patterns  *)
(* of NLST and LIST (lib/filelisterglob.hh). Here a name is a sequence of  *)
(* bytes, and a path a sequence of names.                                  *)
(***************************************************************************)
EXTENDS Naturals, SequencesExt

Byte == 1..255

Space == 32
Percent == 37
Star == 42
Dash == 45
Dot == 46
Slash == 47
Colon == 58
Question == 63

\* What a loop over a text has made of its state in the end.
Scan(Step(_, _), start, text) ==
  LET after[i \in 0..Len(text)] ==
        IF i = 0 THEN start ELSE Step(after[i - 1], text[i])
  IN  after[Len(text)]

\* Where c first is in the text; after its end if nowhere.
Find(text, c) ==
  LET at == {i \in DOMAIN text : text[i] = c}
  IN  IF at = {} THEN Len(text) + 1 ELSE Min(at)

Upto(text, i) == SubSeq(text, 1, i)
From(text, i) == SubSeq(text, i, Len(text))

-----------------------------------------------------------------------------
Dots == {<<Dot>>, <<Dot, Dot>>}

\* Path::append_one.
AppendName(path, name) ==
  CASE name \in {<<>>, <<Dot>>} -> path
    [] name = <<Dot, Dot>>      -> IF path = <<>> THEN path ELSE Front(path)
    [] OTHER                    -> Append(path, name)

\* Path::append of a whole text: one turn of its loop, and the loop.
AppendByte(s, c) ==
  IF c = Slash
  THEN [path |-> AppendName(s.path, s.piece), piece |-> <<>>]
  ELSE [path |-> s.path, piece |-> Append(s.piece, c)]

AppendText(path, text) ==
  LET end == Scan(AppendByte, [path |-> path, piece |-> <<>>], text)
  IN  AppendName(end.path, end.piece)

\* Path(dir, then).
ChdirText(path, text) ==
  AppendText(IF text # <<>> /\ text[1] = Slash THEN <<>> ELSE path, text)

\* Path::str, after a slash.
Slashed(path) == FlattenSeq([i \in DOMAIN path |-> <<Slash>> \o path[i]])

Str(path) == IF path = <<>> THEN <<>> ELSE Tail(Slashed(path))

-----------------------------------------------------------------------------
\* Letters, digits and the marks that quote_percent lists: -_.!~*'()/
Unreserved ==
  48..57 \cup 65..90 \cup 97..122
    \cup {45, 95, 46, 33, 126, 42, 39, 40, 41, 47}

\* Mutant of Safe: a percent sign is taken for a character like others.
SafePercent(c) == c \in Unreserved \cup {Percent}

Safe(c) == c \in Unreserved

\* hexdigitise.
HexDigit(n) == IF n <= 9 THEN n + 48 ELSE n + 55

Quoted(c) ==
  IF Safe(c) THEN <<c>>
  ELSE <<Percent, HexDigit(c \div 16), HexDigit(c % 16)>>

\* URI::quote_percent.
Quote(text) == FlattenSeq([i \in DOMAIN text |-> Quoted(text[i])])

\* hexdigit: what is no digit counts as 0.
Digit(c) ==
  CASE c \in 48..57  -> c - 48
    [] c \in 65..70  -> c - 55
    [] c \in 97..102 -> c - 87
    [] OTHER         -> 0

Decoded(c, d) == 16 * Digit(c) + Digit(d)

\* URI::dequote_percent: one turn of its loop, with what is held of a
\* sequence, and the loop, which drops a truncated sequence.
DequoteByte(s, c) ==
  CASE s.held = <<>> /\ c # Percent -> [s EXCEPT !.out = Append(@, c)]
    [] Len(s.held) = 2 -> [out  |-> Append(s.out, Decoded(s.held[2], c)),
                           held |-> <<>>]
    [] OTHER -> [s EXCEPT !.held = Append(@, c)]

Dequote(text) == Scan(DequoteByte, [out |-> <<>>, held |-> <<>>], text).out

-----------------------------------------------------------------------------
URI(scheme, authority, path) ==
  [scheme |-> scheme, authority |-> authority, path |-> path]

\* URI::parse_from_path and parse_from_authority.
ParsePath(scheme, authority, text) ==
  URI(scheme, authority, AppendText(<<>>, Dequote(text)))

ParseAuthority(scheme, text) ==
  LET slash == Find(text, Slash)
  IN  ParsePath(scheme, Dequote(Upto(text, slash - 1)), From(text, slash))

\* The colons that the loop of URI::parse stops at: it does not look at the
\* character that follows one, so every other one of a row of colons.
EndsScheme(text, i) ==
  LET before == {j \in 1..(i - 1) : text[j] # Colon}
      row == i - 1 - (IF before = {} THEN 0 ELSE Max(before))
  IN  text[i] = Colon /\ row % 2 = 0

\* URI::parse: the last colon before the first slash ends the scheme; what
\* follows it is parsed by itself if it begins with that slash.
Parse(text) ==
  LET slash  == Find(text, Slash)
      colons == {i \in 1..(slash - 1) : EndsScheme(text, i)}
      scheme == IF colons = {} THEN <<>>
                ELSE Dequote(Upto(text, Max(colons) - 1))
      rest   == From(text, slash + 1)
  IN  CASE slash - 1 \notin colons -> ParsePath(scheme, <<>>, text)
        [] slash - 1 \in colons /\ rest = <<>> -> URI(scheme, <<>>, <<>>)
        [] slash - 1 \in colons /\ rest # <<>> ->
             IF rest[1] = Slash THEN ParseAuthority(scheme, From(rest, 2))
             ELSE ParsePath(scheme, <<>>, rest)

\* URI::get_html_quoted of a URI that is only a path.
HtmlQuoted(path) == Quote(Str(path))

-----------------------------------------------------------------------------
\* Mutant of Rests: a star stands for one character at least.
RestsShorter(i, end) == (i + 1)..end

\* Where the rest of a name may begin after a star.
Rests(i, end) == i..end

\* FileListerGlob::match of what is left of the pattern, from each of its
\* positions: the positions of the name from which it succeeds.
Matching(name, pattern) ==
  LET end == Len(pattern) + 1
      from[p \in 1..end] ==
        IF p = end THEN {Len(name) + 1}
        ELSE LET next == from[p + 1]
             IN  CASE pattern[p] # Star ->
                        {i \in 1..Len(name) :
                           pattern[p] \in {Question, name[i]} /\ i + 1 \in next}
                   [] pattern[p] = Star /\ p = Len(pattern) ->
                        1..(Len(name) + 1)
                   [] pattern[p] = Star /\ p < Len(pattern) ->
                        IF pattern[p + 1] = Star THEN next
                        ELSE {i \in 1..(Len(name) + 1) :
                                \E j \in Rests(i, Len(name)) : j \in next}
  IN  from

Match(name, pattern) == 1 \in Matching(name, pattern)[1]
=============================================================================
