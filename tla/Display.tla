------------------------------- MODULE Display --------------------------------
(****************************************************************************)
(* The OLED display: Application draws two texts, a character at a time,     *)
(* into SSD1306's buffer and sends the buffer to the panel.  It clears       *)
(* neither between two pictures: what the buffer holds after a transfer is   *)
(* up to the SPI library, which leaves it alone (the stub of                 *)
(* fakeWiringPi.hpp) or overwrites it with what came back over the bus.      *)
(*                                                                          *)
(* Every position and size the program uses is a multiple of 4 columns and   *)
(* 16 rows: x counts columns in units of 4, y counts rows in units of 16,    *)
(* and a cell of the buffer is 4 columns of two pages.  uint8_t coordinates  *)
(* wrap at 256, here at 64 and 16.                                           *)
(****************************************************************************)
EXTENDS Integers, Sequences

CONSTANTS
    DateLengths, TempLengths, PressureLengths     \* lengths the texts may have

Columns == 32      \* SCREEN_WIDTH
Bands == 4         \* SCREEN_HEIGHT
SmallWidth == 2    \* Font16x8::charWidth
BigWidth == 4      \* Font32x16::charWidth
TimeLength == 8    \* hh:mm:ss

(****************************************************************************)
(* 32-bit readings of the sensor give at most 16 characters with their       *)
(* label, sign and unit; a date has at most 10.                              *)
(****************************************************************************)
ASSUME TextsFit ==
    DateLengths \cup TempLengths \cup PressureLengths \subseteq 1 .. Columns \div SmallWidth

Cells == 0 .. Columns * Bands - 1

VARIABLES
    buffer,      \* buffer_: the character each cell shows, if any
    panel,       \* the display's own memory
    echo,        \* what a transfer leaves in every cell of the buffer, or "same"
    pc,          \* "idle", "write", "display" or "off"
    job, line,   \* the texts of this picture, and which is being written
    k, x, y,     \* its next character, and where that goes
    shown,       \* history: the texts of the last picture displayed
    spilled      \* history: a pixel was let through outside the screen

vars == <<buffer, panel, echo, pc, job, line, k, x, y, shown, spilled>>

\* What a cell shows: the character i of a text, or no character.
Char(t, i) == <<t.kind, t.len, i>>
Blank(how) == <<how, 0, 0>>

\* A slip.
KeepBuffer(b) == b

ClearBuffer(b) == [n \in Cells |-> Blank("dark")]

Noise == [n \in Cells |-> Blank("noise")]

\* The constructor clears the buffer; the panel holds anything.
Init ==
    /\ buffer = ClearBuffer(Noise)
    /\ panel = Noise
    /\ echo \in {"same", "dark", "lit"}
    /\ pc = "idle"
    /\ job = <<>> /\ line = 1 /\ k = 0 /\ x = 0 /\ y = 0
    /\ shown = <<>>
    /\ spilled = FALSE

Text(kind, len) == [kind |-> kind, len |-> len]

\* The middle of the line.
Centred(len) == (Columns - len * SmallWidth) \div 2

\* Slips.
AlwaysCentred(t) == Centred(t.len)
TimeOnTop(t) == IF t.kind = "pressure" THEN 2 ELSE 0

\* Where DisplayMeasure and DisplayClock put each text.
Left(t) == IF t.kind = "time" THEN 0 ELSE Centred(t.len)
Top(t) == CASE t.kind = "time" -> 1 [] t.kind = "pressure" -> 2 [] OTHER -> 0

\* Write is called for text i of the picture j.
Write(j, i) == line' = i /\ k' = 0 /\ x' = Left(j[i]) /\ y' = Top(j[i])

Draw(j) ==
    /\ pc = "idle"
    /\ pc' = "write"
    /\ job' = j
    /\ Write(j, 1)
    /\ UNCHANGED <<buffer, panel, echo, shown, spilled>>

DisplayClock == \E d \in DateLengths : Draw(<<Text("date", d), Text("time", TimeLength)>>)

DisplayMeasure ==
    \E t \in TempLengths, p \in PressureLengths : Draw(<<Text("temp", t), Text("pressure", p)>>)

-------------------------------------------------------------------------------
(* Characters.                                                               *)

\* The cells of a character w wide and h high, where x++ and y++ take it.
Box(cx, cy, w, h) == {<<(cx + i) % 64, (cy + j) % 16>> : i \in 0 .. w - 1, j \in 0 .. h - 1}

Index(c) == c[1] + c[2] * Columns

(****************************************************************************)
(* SetPixel turns away x > SCREEN_WIDTH and y > SCREEN_HEIGHT: one column    *)
(* too late, which lands at the beginning of the next page, and one row too  *)
(* late, which lands behind the buffer.                                      *)
(****************************************************************************)
LetThrough(c) == c[1] <= Columns /\ c[2] <= Bands
OffScreen(c) == c[1] >= Columns \/ c[2] >= Bands

SetPixels(box, char) ==
    /\ buffer' = [n \in Cells |->
                     IF \E c \in box : LetThrough(c) /\ Index(c) = n THEN char ELSE buffer[n]]
    /\ spilled' = (spilled \/ \E c \in box : LetThrough(c) /\ OffScreen(c))

\* SSD1306_string goes on to the next line, and from the last to the first.
Wrapped == x > Columns - SmallWidth
LineX == IF Wrapped THEN 0 ELSE x
LineY == IF ~Wrapped THEN y ELSE IF y + 1 > Bands - 1 THEN 0 ELSE y + 1

text == job[line]

\* Font16x8: every character, those outside ' ' .. '~' as blanks.
SmallChar ==
    /\ pc = "write" /\ text.kind # "time" /\ k < text.len
    /\ SetPixels(Box(LineX, LineY, SmallWidth, 1), Char(text, k))
    /\ x' = (LineX + SmallWidth) % 64 /\ y' = LineY /\ k' = k + 1
    /\ UNCHANGED <<panel, echo, pc, job, line, shown>>

\* Font32x16 does not wrap, and writes as many as fit in a line of their own.
BigChars(t) == IF t.len * BigWidth <= Columns THEN t.len ELSE Columns \div BigWidth

BigChar ==
    /\ pc = "write" /\ text.kind = "time" /\ k < BigChars(text)
    /\ SetPixels(Box(x, y, BigWidth, 2), Char(text, k))
    /\ x' = (x + BigWidth) % 64 /\ k' = k + 1
    /\ UNCHANGED <<panel, echo, pc, job, line, y, shown>>

Written(t) == IF t.kind = "time" THEN BigChars(t) ELSE t.len

NextText ==
    /\ pc = "write" /\ k = Written(text)
    /\ \/ line < Len(job) /\ Write(job, line + 1) /\ pc' = pc
       \/ line = Len(job) /\ pc' = "display" /\ UNCHANGED <<line, k, x, y>>
    /\ UNCHANGED <<buffer, panel, echo, job, shown, spilled>>

-------------------------------------------------------------------------------
\* The whole buffer to the whole panel, and back comes the echo.
Transfer(b) ==
    /\ panel' = b
    /\ buffer' = IF echo = "same" THEN b ELSE [n \in Cells |-> Blank(echo)]

SendBuffer ==
    /\ pc = "display"
    /\ Transfer(buffer)
    /\ shown' = job
    /\ pc' = "idle"
    /\ UNCHANGED <<echo, job, line, k, x, y, spilled>>

\* ~SSD1306
SwitchOff ==
    /\ pc = "idle"
    /\ Transfer(ClearBuffer(buffer))
    /\ shown' = <<>>
    /\ pc' = "off"
    /\ UNCHANGED <<echo, job, line, k, x, y, spilled>>

Next ==
    \/ DisplayClock \/ DisplayMeasure
    \/ SmallChar \/ BigChar \/ NextText
    \/ SendBuffer \/ SwitchOff

Spec == Init /\ [][Next]_vars

-------------------------------------------------------------------------------
(* Properties.                                                               *)

(****************************************************************************)
(* No text the program displays reaches the column SetPixel forgets to turn  *)
(* away, or is folded back over the first line by SSD1306_string.            *)
(****************************************************************************)
NothingSpills == ~spilled /\ (pc = "write" => y = Top(text))

\* A text is on the panel in one line, its characters side by side and whole.
Readable(t) ==
    LET w == IF t.kind = "time" THEN BigWidth ELSE SmallWidth
        h == IF t.kind = "time" THEN 2 ELSE 1
    IN  \E l \in 0 .. Columns - t.len * w, b \in 0 .. Bands - h :
           \A i \in 0 .. t.len - 1 :
              \A c \in Box(l + i * w, b, w, h) : panel[Index(c)] = Char(t, i)

(****************************************************************************)
(* Between two transfers both texts of the last picture stay readable,       *)
(* whatever was drawn before and whatever a transfer leaves in the buffer.   *)
(****************************************************************************)
TextIsReadable == \A i \in DOMAIN shown : Readable(shown[i])

(****************************************************************************)
(* A transfer that overwrites the buffer leaves nothing of an earlier picture *)
(* to be seen: the panel shows the last one on what such a transfer leaves,  *)
(* or on the dark of the beginning.  One that leaves the buffer alone is     *)
(* excepted: then texts are drawn over what is there, and its pieces remain. *)
(* With every kind of transfer the panel is dark when the program has ended. *)
(****************************************************************************)
NoLeftovers ==
    /\ echo # "same" /\ shown # <<>> =>
          \A n \in Cells :
             panel[n] \in {Blank("dark"), Blank(echo)}
                \/ \E i \in DOMAIN shown : \E j \in 0 .. shown[i].len - 1 :
                      panel[n] = Char(shown[i], j)
    /\ pc = "off" => \A n \in Cells : panel[n] = Blank("dark")
==============================================================================
