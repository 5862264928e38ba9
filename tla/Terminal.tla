-------------------------------- MODULE Terminal --------------------------------
(***************************************************************************)
(* The way of a key to the screen: the keyboard interrupt                  *)
(* (drivers/keyboardDriver.c) puts characters into pipe 0, readLine()      *)
(* (SampleCodeModule/programs.c) takes them out, edits its buffer and      *)
(* echoes, and putChar() (drivers/textModule.c) draws.  The screen is a    *)
(* grid of cells of one font size; glyphs are drawn over what a cell holds.*)
(***************************************************************************)
EXTENDS Integers, Sequences, SequencesExt

CONSTANTS
  Cols, Rows,  \* the screen in characters
  Length,      \* the length readLine() is called with
  TypedAhead,  \* bound: characters in the pipe that nobody has read
  LetterKeys   \* bound: the keys of letters, as their lower case

ASSUME TerminalAssumption ==
  /\ Cols \in Nat \ {0} /\ Rows \in Nat \ {0, 1} /\ Length \in Nat \ {0}
  /\ LetterKeys \cap {"newline", "backspace", "space", "zero", "eof"} = {}

VARIABLES
  shift, caps, ctrlPressed,
  typed,     \* pipe 0
  buff,      \* what readLine() has stored: buff[0] .. buff[i - 1]
  screen,    \* what the cells show, the cursor, and (history) where the line began
  disturbed  \* history: has another printed, or a backspace met the end of a row?

terminalVars == <<shift, caps, ctrlPressed, typed, buff, screen, disturbed>>

Newline == "newline"
Backspace == "backspace"
Space == "space"

Blank == {}
Position == (0 .. Rows - 1) \X (0 .. Cols - 1)

TerminalInit ==
  /\ shift = FALSE /\ caps = FALSE /\ ctrlPressed = FALSE
  /\ typed = <<>> /\ buff = <<>>
  /\ screen = [cell |-> [p \in Position |-> Blank], row |-> 0, col |-> 0, from |-> <<0, 0>>]
  /\ disturbed = FALSE

-----------------------------------------------------------------------------
(* moveScreenUpIfFull(): the last row is never written on. *)
moveScreenUpIfFull(s) ==
  IF s.row < Rows - 1 THEN s
  ELSE [s EXCEPT !.cell = [p \in Position |-> IF p[1] = Rows - 1 THEN Blank ELSE @[<<p[1] + 1, p[2]>>]],
                 !.row = @ - 1,
                 !.from = <<@[1] - 1, @[2]>>]

lineFeed(s) == moveScreenUpIfFull([s EXCEPT !.row = @ + 1, !.col = 0])

Erase(s, r, c) == [s EXCEPT !.row = r, !.col = c, !.cell[<<r, c>>] = Blank]

\* Faulty: the character before the cursor is left on the screen.
deleteChar_KeepsCell(s) == [s EXCEPT !.col = IF @ = 0 THEN 0 ELSE @ - 1]

deleteChar(s) ==
  CASE s.col > 0              -> Erase(s, s.row, s.col - 1)
    [] s.col = 0 /\ s.row > 0 -> Erase(s, s.row - 1, Cols - 1)
    [] OTHER                  -> Erase(s, 0, 0)

NoGlyph == {Space, Backspace}

Draw(s, c) ==
  [s EXCEPT !.cell[<<s.row, s.col>>] = IF c \in NoGlyph THEN @ ELSE @ \cup {c}, !.col = @ + 1]

FullRow(s) == s.col + 1 > Cols

(* On a full row even a backspace is drawn, on the next one. *)
putChar(s, c) ==
  CASE c = Newline               -> lineFeed(s)
    [] c # Newline /\ FullRow(s) -> Draw(lineFeed(s), c)
    [] c = Backspace /\ ~FullRow(s) -> deleteChar(s)
    [] OTHER                  -> Draw(s, c)

(* printStr(): character by character. *)
printf(s, string) ==
  LET drawn[k \in 0 .. Len(string)] == IF k = 0 THEN s ELSE putChar(drawn[k - 1], string[k])
  IN drawn[Len(string)]

-----------------------------------------------------------------------------
(* A key that was pressed or released, unless the pipe is full.             *)
handleSpecialKeys ==
  /\ \/ shift' \in BOOLEAN /\ UNCHANGED <<caps, ctrlPressed>>
     \/ caps' = ~caps /\ UNCHANGED <<shift, ctrlPressed>>
     \/ ctrlPressed' \in BOOLEAN /\ UNCHANGED <<shift, caps>>
  /\ UNCHANGED <<typed, buff, screen, disturbed>>

upper(c) == CASE c = "a" -> "A" [] c = "b" -> "B" [] c = "c" -> "C" [] c = "d" -> "D" [] OTHER -> c

mayus == caps # shift

addToBuffer(c) == Len(typed) < TypedAhead /\ typed' = Append(typed, c)

(* bufferWrite() for a letter, for enter or backspace, and for a key that   *)
(* is none of them and adds a zero.                                         *)
bufferWrite ==
  /\ \/ \E c \in LetterKeys :
          /\ ~(ctrlPressed /\ c \in {"c", "d"})
          /\ addToBuffer(IF mayus THEN upper(c) ELSE c)
     \/ addToBuffer(Newline) \/ addToBuffer(Backspace) \/ addToBuffer("zero")
  /\ UNCHANGED <<shift, caps, ctrlPressed, buff, screen, disturbed>>

(* Ctrl-C kills (see Scheduler), Ctrl-D adds EOF; both print at once.       *)
ctrlKey ==
  /\ ctrlPressed
  /\ \/ UNCHANGED typed /\ screen' = lineFeed(printf(screen, <<"^", "C">>))
     \/ addToBuffer("eof") /\ screen' = lineFeed(printf(screen, <<"^", "D">>))
  /\ disturbed' = TRUE
  /\ UNCHANGED <<shift, caps, ctrlPressed, buff>>

(* readLine() gets its next character: it ends with a newline, and with     *)
(* whatever comes when the buffer is full.                                  *)
Get(c) == typed # <<>> /\ Head(typed) = c /\ typed' = Tail(typed)
Full == Len(buff) = Length - 1

(* The line is done and the next one begins behind a new prompt.            *)
readLineEnds ==
  /\ typed # <<>> /\ typed' = Tail(typed)
  /\ Head(typed) = Newline \/ Full
  /\ buff' = <<>>
  /\ screen' = LET s == printf(screen, <<Newline, "$">>) IN [s EXCEPT !.from = <<s.row, s.col>>]
  /\ UNCHANGED <<shift, caps, ctrlPressed, disturbed>>

erasing == <<Backspace, Space, Backspace>>

readLineErases ==
  /\ Get(Backspace) /\ ~Full
  /\ IF buff = <<>> THEN UNCHANGED <<buff, screen, disturbed>>
     ELSE /\ buff' = Front(buff)
          /\ screen' = printf(screen, erasing)
          /\ disturbed' = (disturbed \/ FullRow(screen) \/ screen.col = 0)
  /\ UNCHANGED <<shift, caps, ctrlPressed>>

(* An EOF is stored and not shown; a zero is passed over.                   *)
readLineStores ==
  /\ typed # <<>> /\ typed' = Tail(typed) /\ ~Full
  /\ LET c == Head(typed)
     IN /\ c \notin {Newline, Backspace}
        /\ buff' = IF c = "zero" THEN buff ELSE Append(buff, c)
        /\ screen' = IF c \in {"zero", "eof"} THEN screen ELSE putChar(screen, c)
        /\ disturbed' = (disturbed \/ c = "eof")
  /\ UNCHANGED <<shift, caps, ctrlPressed>>

TerminalNext ==
  handleSpecialKeys \/ bufferWrite \/ ctrlKey \/ readLineEnds \/ readLineErases \/ readLineStores

TerminalSpec == TerminalInit /\ [][TerminalNext]_terminalVars

-----------------------------------------------------------------------------
(* The k-th place of the line: rows wrap, and rows above the screen scrolled*)
(* out of sight.                                                            *)
Place(k) ==
  LET n == screen.from[2] + k - 1 IN <<screen.from[1] + (n \div Cols), n % Cols>>

(* What the user sees of the line is what readLine() has stored: every      *)
(* character at its place, over row ends and scrolling, the cursor behind   *)
(* the last one, nothing after it.  Until Ctrl-C, Ctrl-D or a backspace at  *)
(* the end or the beginning of a row disturbs the line.                     *)
EchoMatchesLine ==
  ~disturbed =>
    /\ \A k \in 1 .. Len(buff) : Place(k)[1] >= 0 => screen.cell[Place(k)] = {buff[k]}
    /\ \A p \in Position :
         (p[1] > screen.row \/ (p[1] = screen.row /\ p[2] >= screen.col)) => screen.cell[p] = Blank
    /\ <<screen.row, screen.col>> = Place(Len(buff) + 1)
       \/ (FullRow(screen) /\ Place(Len(buff) + 1) = <<screen.row + 1, 0>>)
=============================================================================
