----------------------------- MODULE EditorText -----------------------------
(***************************************************************************)
(* The edits of the dev server's editor as replacements in the text of a   *)
(* .gate file, and the two formatters (src/dev.rs, src/main.rs).           *)
(*                                                                         *)
(* A text is a sequence of codes: characters, and above them whole words   *)
(* and the contents of headers, which the code looks for as they are.      *)
(* Reading the text as the lexer does (src/lexer.rs), with strings and     *)
(* comments, says where the blocks really are.                             *)
(***************************************************************************)
EXTENDS Values

Newline == 10
Quote == 34
Letter == 97
Backslash == 92
Open == 123
Close == 125
Slashes == 1000     \* two of them
Gateway == 1001
Endpoint == 1002
Step == 1003        \* fetch, let, command, sync
Respond == 1004
Name(n) == 2000 + n \* part of what stands between the quotes of a header

IsSpace(c) == c \in {Space, Newline}
is_ident_char(c) == c = Letter \/ c \in 1001 .. 1004
Least(S) == CHOOSE i \in S : \A j \in S : i <= j

-----------------------------------------------------------------------------
(* The text as the lexer reads it.                                          *)

Reads(mode, c) ==
    CASE mode = "code" -> IF c = Quote THEN "string" ELSE IF c = Slashes THEN "comment" ELSE "code"
      [] mode = "string" -> IF c = Quote THEN "code" ELSE IF c = Backslash THEN "escape" ELSE "string"
      [] mode = "escape" -> "string"
      [] mode = "comment" -> IF c = Newline THEN "code" ELSE "comment"

\* The mode before each place, and after the last.
RECURSIVE ModesFrom(_, _)
ModesFrom(modes, rest) ==
    IF rest = << >> THEN modes
    ELSE ModesFrom(Append(modes, Reads(modes[Len(modes)], Head(rest))), Tail(rest))
Modes(source) == ModesFrom(<<"code">>, source)

\* How many braces of the code are open before each place.
RECURSIVE DepthsFrom(_, _, _)
DepthsFrom(depths, source, modes) ==
    LET i == Len(depths)
        step == IF modes[i] # "code" THEN 0
                ELSE IF source[i] = Open THEN 1 ELSE IF source[i] = Close THEN -1 ELSE 0
    IN  IF i > Len(source) THEN depths
        ELSE DepthsFrom(Append(depths, depths[i] + step), source, modes)
Depths(source, modes) == DepthsFrom(<<0>>, source, modes)

\* A body that leaves the blocks around it alone.
IsBody(body) ==
    LET lines == Append(body, Newline)
        modes == Modes(lines)
        depth == Depths(lines, modes)
    IN  /\ modes[Len(lines) + 1] = "code"
        /\ depth[Len(lines) + 1] = 0
        /\ \A i \in DOMAIN lines :
             /\ depth[i] >= 0
             /\ modes[i] = "code" => lines[i] \notin {Backslash, Gateway, Endpoint}

\* The places of the n-th block of a word: the word, and its braces.
Block(source, word, n) ==
    LET modes == Modes(source)
        depth == Depths(source, modes)
        words == {i \in DOMAIN source : modes[i] = "code" /\ source[i] = word /\ depth[i] = 0}
        at == CHOOSE i \in words : Cardinality({j \in words : j < i}) = n
        open == Least({i \in DOMAIN source : i > at /\ modes[i] = "code" /\ source[i] = Open})
        close == Least({i \in DOMAIN source : /\ i > open /\ modes[i] = "code"
                                              /\ source[i] = Close /\ depth[i] = 1})
    IN  [at |-> at, open |-> open, close |-> close]

-----------------------------------------------------------------------------
(* Ranges.  A range is its first place and the place after its last; with  *)
(* none the edit fails.                                                     *)

NoRange == [first |-> 0, end |-> 0]

\* The places where the word stands by itself, before white space.
Offsets(source, word) ==
    {i \in DOMAIN source :
       /\ source[i] = word
       /\ i > 1 => ~is_ident_char(source[i - 1])
       /\ i < Len(source) /\ IsSpace(source[i + 1])}

\* The least place from open where the braces in code are as many closed as open,
\* if there is one.
BalancedFrom(source, modes, open) ==
    LET depth == Depths(source, modes)
    IN  {i \in open .. Len(source) : /\ depth[i + 1] = depth[open]
                                     /\ \A j \in open .. (i - 1) : depth[j + 1] # depth[open]}

\* Mutant of matching_brace: strings are not skipped.
MatchingAnyBrace(source, open) ==
    BalancedFrom(source, [i \in 1 .. (Len(source) + 1) |-> "code"], open)

\* The brace that closes the one at open: strings are skipped, comments are not.
matching_brace(source, open) ==
    LET before == [i \in 1 .. (open - 1) |-> "code"]
        from == Modes([i \in 1 .. (Len(source) - open + 1) |->
                         IF source[open + i - 1] = Slashes THEN Space ELSE source[open + i - 1]])
    IN  BalancedFrom(source, before \o from, open)

\* gateway_content_range is that of the word gateway and n = 0.
endpoint_content_range(source, word, n) ==
    LET offsets == Offsets(source, word)
        at == CHOOSE i \in offsets : Cardinality({j \in offsets : j < i}) = n
        opens == {i \in DOMAIN source : i >= at /\ source[i] = Open}
        close == matching_brace(source, Least(opens))
    IN  IF Cardinality(offsets) <= n THEN NoRange
        ELSE IF opens = {} THEN NoRange
        ELSE IF close = {} THEN NoRange
        ELSE [first |-> Least(opens) + 1, end |-> Least(close)]

\* Where a line, its white space trimmed, begins with a step or with respond.
first_executable_line_offset(source, content) ==
    {i \in content.first .. (content.end - 1) :
       /\ source[i] = Respond \/ (source[i] = Step /\ source[i + 1] = Space)
       /\ LET before == {j \in content.first .. (i - 1) : ~IsSpace(source[j])}
          IN  before = {} \/ \E j \in content.first .. (i - 1) :
                               source[j] = Newline /\ \A k \in before : k < j}

endpoint_options_range(source, n) ==
    LET content == endpoint_content_range(source, Endpoint, n)
        offsets == first_executable_line_offset(source, content)
    IN  IF content = NoRange \/ offsets = {} THEN content
        ELSE [content EXCEPT !.end = Least(offsets)]

Replaced(source, range, text) ==
    SubSeq(source, 1, range.first - 1) \o text \o SubSeq(source, range.end, Len(source))

Header(word, name) == <<word, Space, Quote>> \o name \o <<Quote>>

\* The first place that reads like the header, wherever it is.
header_range(source, word, name) ==
    LET places == Occurrences(source, Header(word, name))
    IN  IF places = {} THEN NoRange
        ELSE [first |-> Least(places), end |-> Least(places) + Len(Header(word, name))]

update_endpoint(source, old_name, name) ==
    Replaced(source, header_range(source, Endpoint, old_name), Header(Endpoint, name))

\* Both places are found before anything is replaced; the body goes first, so
\* that the place of the header stays right as long as it is before the body.
update_gateway(source, old_name, name, body) ==
    LET replaced == Replaced(source, endpoint_content_range(source, Gateway, 0), body)
    IN  Replaced(replaced, header_range(source, Gateway, old_name), Header(Gateway, name))

-----------------------------------------------------------------------------
(* Formatters.                                                              *)

\* str::lines: nothing comes after the last newline.
Lines(source) ==
    LET parts == Split(source, <<Newline>>)
    IN  IF parts[Len(parts)] = << >> THEN SubSeq(parts, 1, Len(parts) - 1) ELSE parts

starts_top_level_block(line) == StartsWith(line, <<Gateway, Space>>) \/ StartsWith(line, <<Endpoint, Space>>)

leading_closers(line) ==
    Cardinality({i \in DOMAIN line : \A j \in 1 .. i : line[j] = Close})

indent_after_line(indent, line) ==
    LET modes == Modes(line)
        Code(c) == Cardinality({i \in DOMAIN line : line[i] = c /\ modes[i] = "code"})
        next == indent + Code(Open) - Code(Close)
    IN  IF next < 0 THEN 0 ELSE next

Indent(n) == [i \in 1 .. (4 * n) |-> Space]

\* The lines out so far, the indentation, whether blank lines were passed.
RECURSIVE DevLines(_, _, _, _)
DevLines(lines, out, indent, pending_blank) ==
    IF lines = << >> THEN out
    ELSE LET line == Trim(Head(lines))
             top == starts_top_level_block(line)
             blank == out # << >> /\ out[Len(out)] # << >> /\ (pending_blank \/ top)
             closers == leading_closers(line)
             text == Indent(IF closers > indent THEN 0 ELSE indent - closers) \o line
         IN  IF line = << >> THEN DevLines(Tail(lines), out, indent, out # << >>)
             ELSE DevLines(Tail(lines), (IF blank THEN Append(out, << >>) ELSE out) \o <<text>>,
                           indent_after_line(indent, line), FALSE)

\* Mutant of dev_format: nothing ends the last line.
DevFormatUnended(source) == Joined(DevLines(Lines(source), << >>, 0, FALSE), <<Newline>>)

\* format_gate_source of src/dev.rs, by which every edit is saved.
dev_format(source) == Append(Joined(DevLines(Lines(source), << >>, 0, FALSE), <<Newline>>), Newline)

RECURSIVE TrimEnd(_)
TrimEnd(line) ==
    IF line # << >> /\ line[Len(line)] = Space THEN TrimEnd(SubSeq(line, 1, Len(line) - 1)) ELSE line

\* format_gate_source of src/main.rs, which the fmt command compares with.
RECURSIVE CliLines(_, _, _)
CliLines(lines, out, blank_count) ==
    IF lines = << >> THEN out
    ELSE LET line == TrimEnd(Head(lines))
         IN  IF line # << >> THEN CliLines(Tail(lines), out \o line \o <<Newline>>, 0)
             ELSE CliLines(Tail(lines), IF blank_count = 0 /\ out # << >> THEN Append(out, Newline) ELSE out,
                           blank_count + 1)
cli_format(source) == CliLines(Lines(source), << >>, 0)

-----------------------------------------------------------------------------
(* What holds of them.                                                      *)

\* What the edits take for granted: comments have no braces and no quotes, the word
\* of a block stands for nothing else in them or in strings, and no string comes
\* between it and its braces but the header.
Plain(source) ==
    LET modes == Modes(source)
    IN  /\ \A i \in DOMAIN source : modes[i] = "comment" => source[i] \notin {Open, Close, Quote}
        /\ \A w \in {Gateway, Endpoint} : \A i \in Offsets(source, w) : modes[i] = "code"

\* Steps begin lines, and no line of a string or a comment looks like one.
StepsBeginLines(source, content) ==
    LET modes == Modes(source)
        steps == {i \in content.first .. (content.end - 1) : modes[i] = "code" /\ source[i] \in {Step, Respond}}
        found == first_executable_line_offset(source, content)
    IN  found \subseteq steps /\ \A i \in steps : i \in found \/ \E j \in found : j < i

\* On a plain text an edit of a block replaces exactly what its braces enclose,
\* an edit of options keeps every step, and an edit of a header changes the header
\* of that endpoint alone, or fails.
EditsStayInTheirEndpoint(source, n, name) ==
    LET block == Block(source, Endpoint, n)
        content == endpoint_content_range(source, Endpoint, n)
        options == endpoint_options_range(source, n)
        header == header_range(source, Endpoint, name)
        modes == Modes(source)
    IN  Plain(source) =>
          /\ content = [first |-> block.open + 1, end |-> block.close]
          /\ StepsBeginLines(source, content) =>
               \A i \in content.first .. (content.end - 1) :
                 (modes[i] = "code" /\ source[i] \in {Step, Respond}) => i >= options.end
          /\ header # NoRange => header.first = block.at

\* Renaming the gateway and replacing its body keeps every endpoint, character
\* for character, though the place of the header was found before the body changed.
GatewayEditKeepsEndpoints(source, name, new_name, body) ==
    LET block == Block(source, Gateway, 0)
    IN  (Plain(source) /\ header_range(source, Gateway, name) # NoRange) =>
          update_gateway(source, name, new_name, body) =
            SubSeq(source, 1, block.at - 1) \o Header(Gateway, new_name)
              \o SubSeq(source, block.at + Len(Header(Gateway, name)), block.open) \o body
              \o SubSeq(source, block.close, Len(source))

\* What the parser is given of a text: its code and its strings, with what they hold;
\* white space and comments only keep tokens apart.
Gap == 0
Tokens(source) ==
    LET modes == Modes(source)
        read == [i \in DOMAIN source |->
                   IF \/ modes[i] = "comment"
                      \/ modes[i] = "code" /\ (source[i] = Slashes \/ IsSpace(source[i]))
                   THEN Gap ELSE source[i]]
        Counts(i) == \/ read[i] # Gap
                     \/ i > 1 /\ read[i - 1] # Gap /\ \E j \in i .. Len(read) : read[j] # Gap
        kept == SelectSeq([i \in DOMAIN source |-> i], Counts)
    IN  [k \in DOMAIN kept |-> read[kept[k]]]

\* The characters outside strings and comments.
CodeOf(source) ==
    LET modes == Modes(source)
        code == SelectSeq([i \in DOMAIN source |-> i],
                          LAMBDA i : modes[i] = "code" /\ source[i] # Slashes /\ ~IsSpace(source[i]))
    IN  [k \in DOMAIN code |-> source[code[k]]]

\* Every string ends on the line it begins on.
StringsOnOneLine(source) ==
    LET modes == Modes(source)
    IN  \A i \in 1 .. (Len(source) + 1) :
          (i <= Len(source) => source[i] = Newline) => modes[i] \in {"code", "comment"}

\* What a save writes is not changed by another save, the fmt command has nothing to
\* say about it, nothing but white space is added or lost, and the code outside
\* strings stays; the parser is given the same tokens when no string goes over several
\* lines.  One that does is trimmed and indented line by line and loses its blank
\* lines: what it stands for changes.
FormattingSettles(source) ==
    LET saved == dev_format(source)
        Written(text) == SelectSeq(text, LAMBDA c : ~IsSpace(c))
    IN  Written(source) # << >> =>
          /\ dev_format(saved) = saved
          /\ cli_format(saved) = saved
          /\ cli_format(cli_format(source)) = cli_format(source)
          /\ Written(saved) = Written(source)
          /\ CodeOf(saved) = CodeOf(source)
          /\ StringsOnOneLine(source) => Tokens(saved) = Tokens(source)
=============================================================================
