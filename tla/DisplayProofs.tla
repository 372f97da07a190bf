----------------------------- MODULE DisplayProofs -----------------------------
(****************************************************************************)
(* For texts of every length a line has room for.  Nothing spills: the       *)
(* middle of the line leaves a small text inside it, so that neither the     *)
(* fold of SSD1306_string nor the column SetPixel lets through is reached.   *)
(* A finished picture can be read and shows nothing else: characters are     *)
(* drawn apart from each other, on a display that was cleared.               *)
(****************************************************************************)
EXTENDS Display, TLAPS

Small(kinds) == [kind : kinds, len : 1 .. Columns \div SmallWidth]
Time == Text("time", TimeLength)

Pictures ==
    {<<d, Time>> : d \in Small({"date"})}
        \cup {<<t, p>> : t \in Small({"temp"}), p \in Small({"pressure"})}

\* The next character of the text that is being written, and its place.
InPlace ==
    /\ job \in Pictures
    /\ line \in 1 .. 2
    /\ k \in 0 .. text.len
    /\ y = Top(text)
    /\ x = IF text.kind = "time" THEN k * BigWidth
                                 ELSE Centred(text.len) + k * SmallWidth

SpillInv ==
    /\ spilled = FALSE
    /\ pc \in {"idle", "write", "display", "off"}
    /\ pc = "write" => InPlace

\* Characters inside the screen set no pixel outside.
LEMMA BoxInside ==
    ASSUME NEW cx \in 0 .. Columns, NEW cy \in 0 .. Bands, NEW w \in 0 .. Columns, NEW h \in 0 .. Bands,
           cx + w <= Columns, cy + h <= Bands, NEW c \in Box(cx, cy, w, h)
    PROVE  ~OffScreen(c)
<1>1. PICK i \in 0 .. w - 1, j \in 0 .. h - 1 : c = <<(cx + i) % 64, (cy + j) % 16>>
  BY DEF Box
<1>2. c[1] = cx + i /\ c[2] = cy + j
  BY <1>1 DEF Columns, Bands
<1> QED
  BY <1>2 DEF OffScreen, Columns, Bands

LEMMA BeginsInPlace ==
    ASSUME NEW j \in Pictures, NEW i \in 1 .. 2, Write(j, i), job' = j
    PROVE  InPlace'
<1>1. /\ j[i] \in Small({"date", "temp", "pressure"}) \cup {Time}
      /\ j[i].len \in 1 .. 16
  BY DEF Pictures, Small, Time, Text, TimeLength, Columns, SmallWidth
<1>2. text' = j[i]
  BY DEF Write, text
<1>3. x' = IF text'.kind = "time" THEN 0 ELSE Centred(text'.len)
  BY <1>2 DEF Write, Left
<1>4. Centred(text'.len) \in Int
  BY <1>1, <1>2 DEF Centred, Columns, SmallWidth
<1> QED
  BY <1>1, <1>2, <1>3, <1>4 DEF InPlace, Write, Top, BigWidth, SmallWidth

\* DisplayClock and DisplayMeasure draw pictures.
LEMMA DrawsPicture ==
    ASSUME DisplayClock \/ DisplayMeasure
    PROVE  \E j \in Pictures : Draw(j)
<1>1. CASE DisplayClock
  <2>1. PICK d \in DateLengths : Draw(<<Text("date", d), Text("time", TimeLength)>>)
    BY <1>1 DEF DisplayClock
  <2>2. Text("date", d) \in Small({"date"})
    BY TextsFit DEF Small, Text
  <2> QED BY <2>1, <2>2 DEF Pictures, Time
<1>2. CASE DisplayMeasure
  <2>1. PICK t \in TempLengths, p \in PressureLengths :
           Draw(<<Text("temp", t), Text("pressure", p)>>)
    BY <1>2 DEF DisplayMeasure
  <2>2. Text("temp", t) \in Small({"temp"}) /\ Text("pressure", p) \in Small({"pressure"})
    BY TextsFit DEF Small, Text
  <2> QED BY <2>1, <2>2 DEF Pictures
<1> QED BY <1>1, <1>2

LEMMA SpillStart == Init => SpillInv
  BY DEF Init, SpillInv

LEMMA SpillStep == SpillInv /\ [Next]_vars => SpillInv'
<1> SUFFICES ASSUME SpillInv, [Next]_vars PROVE SpillInv'
  OBVIOUS
<1> USE DEF SpillInv
<1>1. CASE DisplayClock \/ DisplayMeasure
  <2>1. PICK j \in Pictures : Draw(j)
    BY <1>1, DrawsPicture
  <2>2. InPlace'
    BY <2>1, BeginsInPlace DEF Draw
  <2> QED BY <2>1, <2>2 DEF Draw
<1>2. CASE SmallChar
  <2>1. /\ InPlace /\ text.kind # "time" /\ k < text.len
        /\ pc' = "write" /\ UNCHANGED <<job, line>>
    BY <1>2 DEF SmallChar
  <2>2. text \in Small({"date", "temp", "pressure"})
    BY <2>1 DEF InPlace, text, Pictures, Small, Time, Text
  <2>3. /\ text.len \in 1 .. 16 /\ Centred(text.len) = 16 - text.len
        /\ k \in 0 .. text.len - 1
    <3>1. text.len \in 1 .. 16 /\ Centred(text.len) = 16 - text.len
      BY <2>2 DEF Small, Centred, Columns, SmallWidth
    <3> QED BY <2>1, <3>1 DEF InPlace
  <2>4. x = 16 - text.len + 2 * k /\ x \in 0 .. 30
    BY <2>1, <2>3 DEF InPlace, SmallWidth
  <2>5. LineX = x /\ LineY = y
    BY <2>4 DEF LineX, LineY, Wrapped, Columns, SmallWidth
  <2>6. y \in {0, 2}
    BY <2>1, <2>2 DEF InPlace, Top, Small
  <2>7. \A c \in Box(LineX, LineY, SmallWidth, 1) : ~OffScreen(c)
    BY <2>4, <2>5, <2>6, BoxInside, SMTT(30) DEF SmallWidth, Columns, Bands
  <2>8. spilled' = FALSE
    BY <1>2, <2>7 DEF SmallChar, SetPixels
  <2>9. text' = text
    BY <2>1 DEF text
  <2>10. x' = 16 - text.len + 2 * (k + 1) /\ k' = k + 1 /\ y' = y
    BY <1>2, <2>3, <2>4, <2>5, <2>1 DEF SmallChar, SmallWidth
  <2>11. InPlace'
    BY <2>1, <2>3, <2>9, <2>10 DEF InPlace, Top, SmallWidth
  <2> QED BY <2>1, <2>8, <2>11
<1>3. CASE BigChar
  <2>1. /\ InPlace /\ text.kind = "time"
        /\ pc' = "write" /\ UNCHANGED <<job, line, y>>
    BY <1>3 DEF BigChar
  <2>2. text = Time /\ BigChars(text) = 8
    <3>1. text = Time
      BY <2>1 DEF InPlace, text, Pictures, Small
    <3> QED BY <3>1 DEF BigChars, Time, Text, TimeLength, BigWidth, Columns
  <2>3. k \in 0 .. 7 /\ x = 4 * k /\ y = 1
    BY <1>3, <2>1, <2>2 DEF BigChar, InPlace, Top, BigWidth, Time, Text, TimeLength
  <2>4. \A c \in Box(x, y, BigWidth, 2) : ~OffScreen(c)
    BY <2>3, BoxInside, SMTT(30) DEF BigWidth, Columns, Bands
  <2>5. spilled' = FALSE
    BY <1>3, <2>4 DEF BigChar, SetPixels
  <2>6. x' = 4 * (k + 1) /\ k' = k + 1
    BY <1>3, <2>3 DEF BigChar, BigWidth
  <2>7. text' = text /\ text.len = 8
    BY <2>1, <2>2 DEF text, Time, Text, TimeLength
  <2>8. y = Top(text) /\ y' = Top(text')
    BY <2>1, <2>7 DEF InPlace
  <2>9. InPlace'
    BY <2>1, <2>3, <2>6, <2>7, <2>8 DEF InPlace, BigWidth
  <2> QED BY <2>1, <2>5, <2>9
<1>4. CASE NextText
  <2>1. CASE pc' = "display"
    BY <1>4, <2>1 DEF NextText
  <2>2. CASE line < Len(job) /\ Write(job, line + 1) /\ pc' = pc
    <3>1. InPlace /\ job' = job /\ pc = "write" /\ spilled' = spilled
      BY <1>4 DEF NextText
    <3>2. line + 1 \in 1 .. 2
      <4>1. Len(job) = 2
        BY <3>1 DEF InPlace, Pictures
      <4> QED BY <2>2, <3>1, <4>1 DEF InPlace
    <3>3. InPlace'
      BY <2>2, <3>1, <3>2, BeginsInPlace DEF InPlace
    <3> QED BY <2>2, <3>1, <3>3
  <2> QED BY <1>4, <2>1, <2>2 DEF NextText
<1>5. CASE SendBuffer
  BY <1>5 DEF SendBuffer
<1>6. CASE SwitchOff
  BY <1>6 DEF SwitchOff
<1>7. CASE UNCHANGED vars
  BY <1>7 DEF vars, InPlace, text
<1> QED
  BY <1>1, <1>2, <1>3, <1>4, <1>5, <1>6, <1>7 DEF Next

(****************************************************************************)
(* Whatever lengths the dates and the readings have, up to the width of a    *)
(* line: no pixel passes the off-by-one of SetPixel, and no text is folded.  *)
(****************************************************************************)
THEOREM NothingEverSpills == Spec => []NothingSpills
<1>1. SpillInv => NothingSpills
  BY DEF SpillInv, NothingSpills, InPlace
<1> QED
  BY SpillStart, SpillStep, <1>1, PTL DEF Spec
-------------------------------------------------------------------------------
(* What a picture looks like while it is drawn: each character written so    *)
(* far has its place to itself.                                              *)

Wide(t) == IF t.kind = "time" THEN BigWidth ELSE SmallWidth
High(t) == IF t.kind = "time" THEN 2 ELSE 1

\* The cells of the i-th character of t.
Place(t, i) == Box(Left(t) + i * Wide(t), Top(t), Wide(t), High(t))

\* The first n characters of t are whole in b.
Drawn(b, t, n) == \A i \in 0 .. n - 1 : \A c \in Place(t, i) : b[Index(c)] = Char(t, i)

\* Nothing but characters of the picture j on cells that show no character.
Only(b, j) ==
    \A n \in Cells :
        \/ b[n] \in {Blank("dark"), Blank(echo)}
        \/ \E i \in DOMAIN j : \E m \in 0 .. j[i].len - 1 : b[n] = Char(j[i], m)

Dark(b) == \A n \in Cells : b[n] = Blank("dark")

\* What a transfer leaves that overwrites the buffer, or the constructor.
Empty(b) == \A n \in Cells : b[n] \in {Blank("dark"), Blank(echo)}

DrawInv ==
    /\ pc = "write" => /\ \A i \in 1 .. line - 1 : Drawn(buffer, job[i], job[i].len)
                       /\ Drawn(buffer, text, k)
    /\ pc = "display" => /\ job \in Pictures
                         /\ \A i \in 1 .. 2 : Drawn(buffer, job[i], job[i].len)
    /\ shown # <<>> => /\ shown \in Pictures
                       /\ \A i \in 1 .. 2 : Drawn(panel, shown[i], shown[i].len)

CleanInv ==
    /\ echo # "same" => /\ pc = "idle" => Empty(buffer)
                        /\ pc \in {"write", "display"} => Only(buffer, job)
                        /\ shown # <<>> => Only(panel, shown)
    /\ pc = "off" => Dark(panel)

Texts == Small({"date", "temp", "pressure"}) \cup {Time}

LEMMA TextsOfPictures ==
    ASSUME NEW j \in Pictures
    PROVE  /\ DOMAIN j = 1 .. 2 /\ Len(j) = 2 /\ j # <<>>
           /\ \A i \in 1 .. 2 : j[i] \in Texts
           /\ Top(j[1]) + High(j[1]) <= Top(j[2])
<1>1. CASE j \in {<<d, Time>> : d \in Small({"date"})}
  <2>1. PICK d \in Small({"date"}) : j = <<d, Time>>
    BY <1>1
  <2>2. d.kind = "date" /\ Time.kind = "time" /\ d \in Texts /\ Time \in Texts
    BY DEF Small, Time, Text, Texts
  <2> QED BY <2>1, <2>2 DEF Top, High
<1>2. CASE j \in {<<t, p>> : t \in Small({"temp"}), p \in Small({"pressure"})}
  <2>1. PICK t \in Small({"temp"}), p \in Small({"pressure"}) : j = <<t, p>>
    BY <1>2
  <2>2. t.kind = "temp" /\ p.kind = "pressure" /\ t \in Texts /\ p \in Texts
    BY DEF Small, Texts
  <2> QED BY <2>1, <2>2 DEF Top, High
<1> QED BY <1>1, <1>2 DEF Pictures

\* A text lies inside the screen.
LEMMA TextFits ==
    ASSUME NEW t \in Texts
    PROVE  /\ t.len \in 1 .. 16
           /\ t.kind = "time" => Wide(t) = 4 /\ High(t) = 2 /\ Left(t) = 0 /\ Top(t) = 1 /\ t.len = 8
           /\ t.kind # "time" => /\ Wide(t) = 2 /\ High(t) = 1
                                 /\ Left(t) = 16 - t.len /\ Top(t) \in {0, 2}
<1>1. CASE t = Time
  BY <1>1 DEF Time, Text, TimeLength, Wide, High, Left, Top, BigWidth
<1>2. CASE t \in Small({"date", "temp", "pressure"})
  <2>1. t.kind # "time" /\ t.len \in 1 .. 16 /\ t.kind \in {"date", "temp", "pressure"}
    BY <1>2 DEF Small, Columns, SmallWidth
  <2>2. Centred(t.len) = 16 - t.len
    BY <2>1 DEF Centred, Columns, SmallWidth
  <2> QED BY <2>1, <2>2 DEF Wide, High, Left, Top, SmallWidth
<1> QED BY <1>1, <1>2 DEF Texts

\* Where the cells of a character are.
LEMMA PlaceIs ==
    ASSUME NEW t \in Texts, NEW i \in 0 .. t.len - 1, NEW c \in Place(t, i)
    PROVE  /\ c[1] \in Left(t) + i * Wide(t) .. Left(t) + (i + 1) * Wide(t) - 1
           /\ c[2] \in Top(t) .. Top(t) + High(t) - 1
           /\ c[1] \in 0 .. 31 /\ c[2] \in 0 .. 3
           /\ Index(c) = c[1] + 32 * c[2] /\ Index(c) \in Cells
<1>1. PICK p \in 0 .. Wide(t) - 1, q \in 0 .. High(t) - 1 :
          c = <<(Left(t) + i * Wide(t) + p) % 64, (Top(t) + q) % 16>>
  BY DEF Place, Box
<1>2. CASE t.kind = "time"
  <2>1. Wide(t) = 4 /\ High(t) = 2 /\ Left(t) = 0 /\ Top(t) = 1 /\ i \in 0 .. 7
    BY <1>2, TextFits
  <2>2. c[1] = i * 4 + p /\ c[2] = 1 + q /\ p \in 0 .. 3 /\ q \in 0 .. 1
    BY <1>1, <2>1
  <2> QED BY <2>1, <2>2 DEF Index, Cells, Columns, Bands
<1>3. CASE t.kind # "time"
  <2>1. /\ Wide(t) = 2 /\ High(t) = 1 /\ Left(t) = 16 - t.len /\ Top(t) \in {0, 2}
        /\ t.len \in 1 .. 16 /\ i \in 0 .. t.len - 1
    BY <1>3, TextFits
  <2>2. c[1] = 16 - t.len + i * 2 + p /\ c[2] = Top(t) /\ p \in 0 .. 1
    BY <1>1, <2>1
  <2> QED BY <2>1, <2>2 DEF Index, Cells, Columns, Bands
<1> QED BY <1>2, <1>3

LEMMA CellsApart ==
    ASSUME NEW a \in 0 .. 31, NEW b \in 0 .. 31, NEW p \in 0 .. 3, NEW q \in 0 .. 3,
           a # b \/ p # q
    PROVE  a + 32 * p # b + 32 * q
  OBVIOUS

\* No two characters of a text share a cell, and no two texts of a picture a band.
LEMMA CharsApart ==
    ASSUME NEW t \in Texts, NEW i \in 0 .. t.len - 1, NEW m \in 0 .. t.len - 1, i # m,
           NEW c \in Place(t, i), NEW d \in Place(t, m)
    PROVE  Index(c) # Index(d)
<1>1. /\ c[1] \in Left(t) + i * Wide(t) .. Left(t) + (i + 1) * Wide(t) - 1
      /\ d[1] \in Left(t) + m * Wide(t) .. Left(t) + (m + 1) * Wide(t) - 1
      /\ c[1] \in 0 .. 31 /\ d[1] \in 0 .. 31 /\ c[2] \in 0 .. 3 /\ d[2] \in 0 .. 3
      /\ Index(c) = c[1] + 32 * c[2] /\ Index(d) = d[1] + 32 * d[2]
  BY PlaceIs
<1>2. /\ Wide(t) \in {2, 4} /\ Left(t) \in Int /\ t.len \in Nat
  BY TextFits
<1>3. c[1] # d[1]
  <2>1. CASE Wide(t) = 2 BY <1>1, <1>2, <2>1
  <2>2. CASE Wide(t) = 4 BY <1>1, <1>2, <2>2
  <2> QED BY <1>2, <2>1, <2>2
<1> QED BY <1>1, <1>3, CellsApart

LEMMA TextsApart ==
    ASSUME NEW t \in Texts, NEW u \in Texts,
           Top(t) + High(t) <= Top(u) \/ Top(u) + High(u) <= Top(t),
           NEW i \in 0 .. t.len - 1, NEW m \in 0 .. u.len - 1,
           NEW c \in Place(t, i), NEW d \in Place(u, m)
    PROVE  Index(c) # Index(d)
<1>1. /\ c[2] \in Top(t) .. Top(t) + High(t) - 1 /\ d[2] \in Top(u) .. Top(u) + High(u) - 1
      /\ c[1] \in 0 .. 31 /\ d[1] \in 0 .. 31 /\ c[2] \in 0 .. 3 /\ d[2] \in 0 .. 3
      /\ Index(c) = c[1] + 32 * c[2] /\ Index(d) = d[1] + 32 * d[2]
  BY PlaceIs
<1>2. Top(t) \in Int /\ Top(u) \in Int /\ High(t) \in Int /\ High(u) \in Int
  BY TextFits
<1>3. c[2] # d[2]
  BY <1>1, <1>2
<1> QED BY <1>1, <1>3, CellsApart

\* A character is drawn, and disturbs none that has a place of its own.
LEMMA CharIsDrawn ==
    ASSUME NEW t \in Texts, NEW n \in 0 .. t.len - 1, Drawn(buffer, t, n),
           SetPixels(Place(t, n), Char(t, n))
    PROVE  Drawn(buffer', t, n + 1)
<1>1. ASSUME NEW i \in 0 .. n, NEW c \in Place(t, i) PROVE buffer'[Index(c)] = Char(t, i)
  <2>1. i \in 0 .. t.len - 1 /\ t.len \in Nat
    BY TextFits
  <2>2. c[1] \in 0 .. 31 /\ c[2] \in 0 .. 3 /\ Index(c) \in Cells
    BY <2>1, PlaceIs
  <2>3. CASE i = n
    <3>1. LetThrough(c)
      BY <2>2 DEF LetThrough, Columns, Bands
    <3> QED BY <2>2, <2>3, <3>1 DEF SetPixels
  <2>4. CASE i # n
    <3>1. i \in 0 .. n - 1
      BY <2>4
    <3>2. buffer[Index(c)] = Char(t, i)
      BY <3>1 DEF Drawn
    <3>3. \A d \in Place(t, n) : Index(d) # Index(c)
      BY <2>1, <2>4, CharsApart
    <3> QED BY <2>2, <3>2, <3>3 DEF SetPixels
  <2> QED BY <2>3, <2>4
<1>2. 0 .. (n + 1) - 1 = 0 .. n
  BY TextFits
<1> QED BY <1>1, <1>2 DEF Drawn

LEMMA OthersStay ==
    ASSUME NEW t \in Texts, NEW u \in Texts, NEW n \in 0 .. t.len - 1, Drawn(buffer, u, u.len),
           Top(u) + High(u) <= Top(t), SetPixels(Place(t, n), Char(t, n))
    PROVE  Drawn(buffer', u, u.len)
<1>1. ASSUME NEW i \in 0 .. u.len - 1, NEW c \in Place(u, i) PROVE buffer'[Index(c)] = Char(u, i)
  <2>1. Index(c) \in Cells
    BY PlaceIs
  <2>2. \A d \in Place(t, n) : Index(d) # Index(c)
    BY TextsApart
  <2>3. buffer[Index(c)] = Char(u, i)
    BY DEF Drawn
  <2> QED BY <2>1, <2>2, <2>3 DEF SetPixels
<1> QED BY <1>1 DEF Drawn

LEMMA WritesChar ==
    ASSUME SpillInv, SmallChar \/ BigChar
    PROVE  /\ InPlace /\ text \in Texts /\ k \in 0 .. text.len - 1
           /\ SetPixels(Place(text, k), Char(text, k))
           /\ k' = k + 1 /\ pc = "write" /\ UNCHANGED <<panel, echo, pc, job, line, shown>>
<1>1. InPlace /\ pc = "write"
  BY DEF SpillInv, SmallChar, BigChar
<1>2. text \in Texts
  BY <1>1, TextsOfPictures DEF InPlace, text
<1>3. text.len \in 1 .. 16 /\ k \in 0 .. text.len
  BY <1>1, <1>2, TextFits DEF InPlace
<1>4. CASE SmallChar
  <2>1. text.kind # "time" /\ k < text.len
    BY <1>4 DEF SmallChar
  <2>2. Wide(text) = 2 /\ High(text) = 1 /\ Left(text) = 16 - text.len /\ Top(text) \in {0, 2}
    BY <1>2, <2>1, TextFits
  <2>3. x = Left(text) + k * 2 /\ y = Top(text)
    BY <1>1, <2>1 DEF InPlace, Left, SmallWidth
  <2>4. x \in 0 .. 30
    BY <1>3, <2>1, <2>2, <2>3
  <2>5. LineX = x /\ LineY = y
    BY <2>4 DEF LineX, LineY, Wrapped, Columns, SmallWidth
  <2>6. Place(text, k) = Box(LineX, LineY, SmallWidth, 1)
    BY <2>2, <2>3, <2>5 DEF Place, SmallWidth
  <2> QED BY <1>1, <1>2, <1>3, <1>4, <2>1, <2>6 DEF SmallChar
<1>5. CASE BigChar
  <2>1. text.kind = "time"
    BY <1>5 DEF BigChar
  <2>2. Wide(text) = 4 /\ High(text) = 2 /\ Left(text) = 0 /\ Top(text) = 1 /\ text.len = 8
    BY <1>2, <2>1, TextFits
  <2>3. x = k * 4 /\ y = 1
    BY <1>1, <2>1, <2>2 DEF InPlace, BigWidth
  <2>4. Place(text, k) = Box(x, y, BigWidth, 2)
    BY <1>3, <2>2, <2>3 DEF Place, BigWidth
  <2>5. k < text.len
    BY <1>5, <2>2 DEF BigChar, BigChars, BigWidth, Columns
  <2> QED BY <1>1, <1>2, <1>3, <1>5, <2>4, <2>5 DEF BigChar
<1> QED BY <1>4, <1>5

LEMMA DrawStart == Init => DrawInv /\ CleanInv
  BY DEF Init, DrawInv, CleanInv, Empty, ClearBuffer

LEMMA DrawStep == SpillInv /\ DrawInv /\ [Next]_vars => DrawInv'
<1> SUFFICES ASSUME SpillInv, DrawInv, [Next]_vars PROVE DrawInv'
  OBVIOUS
<1> USE DEF DrawInv
<1>1. CASE DisplayClock \/ DisplayMeasure
  <2>1. PICK j \in Pictures : Draw(j)
    BY <1>1, DrawsPicture
  <2>2. pc' = "write" /\ line' = 1 /\ k' = 0 /\ UNCHANGED <<panel, shown>>
    BY <2>1 DEF Draw, Write
  <2> QED BY <2>2 DEF Drawn
<1>2. CASE SmallChar \/ BigChar
  <2>1. /\ InPlace /\ text \in Texts /\ k \in 0 .. text.len - 1
        /\ SetPixels(Place(text, k), Char(text, k))
        /\ k' = k + 1 /\ pc = "write" /\ UNCHANGED <<panel, pc, job, line, shown>>
    BY <1>2, WritesChar
  <2>2. text' = text
    BY <2>1 DEF text
  <2>3. Drawn(buffer', text, k + 1)
    BY <2>1, CharIsDrawn
  <2>4. ASSUME NEW i \in 1 .. line - 1 PROVE Drawn(buffer', job[i], job[i].len)
    <3>1. i = 1 /\ line = 2 /\ job \in Pictures
      BY <2>1 DEF InPlace
    <3>2. job[i] \in Texts /\ Top(job[i]) + High(job[i]) <= Top(text)
      BY <3>1, TextsOfPictures DEF text
    <3> QED BY <2>1, <3>2, OthersStay
  <2> QED BY <2>1, <2>2, <2>3, <2>4
<1>3. CASE NextText
  <2>1. /\ InPlace /\ pc = "write" /\ k = Written(text)
        /\ UNCHANGED <<buffer, panel, job, shown>>
    BY <1>3 DEF NextText, SpillInv
  <2>2. job \in Pictures /\ text \in Texts /\ Len(job) = 2 /\ line \in 1 .. 2
    BY <2>1, TextsOfPictures DEF InPlace, text
  <2>3. k = text.len
    BY <2>1, <2>2, TextFits DEF Written, BigChars, BigWidth, Columns
  <2>4. \A i \in 1 .. line : Drawn(buffer, job[i], job[i].len)
    <3>1. Drawn(buffer, job[line], job[line].len)
      BY <2>1, <2>3 DEF text
    <3> QED BY <2>1, <2>2, <3>1
  <2>5. CASE line < Len(job) /\ Write(job, line + 1) /\ pc' = pc
    <3>1. line' = line + 1 /\ k' = 0
      BY <2>5 DEF Write
    <3>2. Drawn(buffer', text', k')
      BY <3>1 DEF Drawn
    <3>3. pc' = "write" /\ \A i \in 1 .. line' - 1 : Drawn(buffer', job'[i], job'[i].len)
      BY <2>1, <2>2, <2>4, <2>5, <3>1
    <3> QED BY <2>1, <3>2, <3>3
  <2>6. CASE line = Len(job) /\ pc' = "display" /\ UNCHANGED <<line, k, x, y>>
    BY <2>1, <2>2, <2>4, <2>6
  <2> QED BY <1>3, <2>5, <2>6 DEF NextText
<1>4. CASE SendBuffer
  BY <1>4 DEF SendBuffer, Transfer
<1>5. CASE SwitchOff
  BY <1>5 DEF SwitchOff
<1>6. CASE UNCHANGED vars
  BY <1>6 DEF vars, text
<1> QED
  BY <1>1, <1>2, <1>3, <1>4, <1>5, <1>6 DEF Next

LEMMA CleanStep == SpillInv /\ CleanInv /\ [Next]_vars => CleanInv'
<1> SUFFICES ASSUME SpillInv, CleanInv, [Next]_vars PROVE CleanInv'
  OBVIOUS
<1> USE DEF CleanInv
<1>1. CASE DisplayClock \/ DisplayMeasure
  <2>1. PICK j \in Pictures : Draw(j)
    BY <1>1, DrawsPicture
  <2>2. pc = "idle" /\ pc' = "write" /\ UNCHANGED <<buffer, panel, echo, shown>>
    BY <2>1 DEF Draw
  <2> QED BY <2>2 DEF Empty, Only
<1>2. CASE SmallChar \/ BigChar
  <2>1. /\ InPlace /\ text \in Texts /\ k \in 0 .. text.len - 1
        /\ SetPixels(Place(text, k), Char(text, k))
        /\ pc = "write" /\ UNCHANGED <<panel, echo, pc, job, line, shown>>
    BY <1>2, WritesChar
  <2>2. ASSUME Only(buffer, job) PROVE Only(buffer', job)
    <3>1. line \in DOMAIN job /\ text = job[line]
      BY <2>1, TextsOfPictures DEF InPlace, text
    <3>2. ASSUME NEW n \in Cells PROVE buffer'[n] \in {buffer[n], Char(text, k)}
      BY <2>1 DEF SetPixels
    <3> QED BY <2>1, <2>2, <3>1, <3>2 DEF Only
  <2>3. UNCHANGED echo /\ (Only(buffer', job) <=> Only(buffer, job)')
    BY <2>1 DEF Only
  <2> QED BY <2>1, <2>2, <2>3 DEF Only
<1>3. CASE NextText
  <2>1. /\ pc = "write" /\ pc' \in {"write", "display"}
        /\ UNCHANGED <<buffer, panel, echo, job, shown>>
    BY <1>3 DEF NextText
  <2> QED BY <2>1 DEF Only
<1>4. CASE SendBuffer
  <2>1. /\ pc = "display" /\ pc' = "idle" /\ panel' = buffer /\ shown' = job /\ UNCHANGED echo
        /\ echo # "same" => Empty(buffer)'
    BY <1>4 DEF SendBuffer, Transfer, Empty
  <2> QED BY <2>1 DEF Only
<1>5. CASE SwitchOff
  <2>1. pc' = "off" /\ shown' = <<>> /\ Dark(panel')
    BY <1>5 DEF SwitchOff, Transfer, ClearBuffer, Dark
  <2> QED BY <2>1
<1>6. CASE UNCHANGED vars
  BY <1>6 DEF vars, Empty, Only, Dark
<1> QED
  BY <1>1, <1>2, <1>3, <1>4, <1>5, <1>6 DEF Next

(****************************************************************************)
(* Between two transfers the panel shows both texts of the last picture      *)
(* whole and in one line, for texts of every length and pictures in every    *)
(* order, and whatever a transfer leaves in the buffer they are drawn into.  *)
(****************************************************************************)
THEOREM PictureIsReadable == Spec => []TextIsReadable
<1>1. ASSUME DrawInv PROVE TextIsReadable
  <2> SUFFICES ASSUME NEW s \in DOMAIN shown PROVE Readable(shown[s])
    BY DEF TextIsReadable
  <2>1. shown # <<>>
    OBVIOUS
  <2>2. shown \in Pictures /\ s \in 1 .. 2 /\ shown[s] \in Texts
    BY <1>1, <2>1, TextsOfPictures DEF DrawInv
  <2>3. Drawn(panel, shown[s], shown[s].len)
    BY <1>1, <2>1, <2>2 DEF DrawInv
  <2> DEFINE t == shown[s]
  <2>4. /\ Left(t) \in 0 .. Columns - t.len * Wide(t)
        /\ Top(t) \in 0 .. Bands - High(t)
    BY <2>2, TextFits DEF Columns, Bands
  <2>5. \A i \in 0 .. t.len - 1 :
           \A c \in Box(Left(t) + i * Wide(t), Top(t), Wide(t), High(t)) :
              panel[Index(c)] = Char(t, i)
    BY <2>3 DEF Drawn, Place
  <2> QED BY <2>4, <2>5 DEF Readable, Wide, High
<1> QED
  BY SpillStart, SpillStep, DrawStart, DrawStep, <1>1, PTL DEF Spec

(****************************************************************************)
(* A transfer that overwrites the buffer leaves nothing of the picture       *)
(* before, so the panel shows the last one and nothing else.  Of a transfer  *)
(* that leaves the buffer alone this is not claimed: there pieces of earlier *)
(* pictures remain.  The panel is dark in the end with every transfer.       *)
(****************************************************************************)
THEOREM NothingIsLeft == Spec => []NoLeftovers
<1>1. CleanInv => NoLeftovers
  BY DEF CleanInv, NoLeftovers, Only, Dark
<1> QED
  BY SpillStart, SpillStep, DrawStart, CleanStep, <1>1, PTL DEF Spec
===============================================================================
