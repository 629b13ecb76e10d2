------------------------------ MODULE TailerProofs ------------------------------
(***************************************************************************)
(* Theorems about Tailer for files of any length, any sizes of chunks,     *)
(* lines and batches, and any number of files, changes and retries.        *)
(***************************************************************************)
EXTENDS Tailer, WellFoundedInduction, TLAPS

-----------------------------------------------------------------------------
(* Recursive functions: a set that holds 0 and with each number the next   *)
(* one holds them all, and a first value and its successors are a function.*)

LEMMA SetInduction ==
  ASSUME NEW S, 0 \in S, \A n \in Nat : n \in S => n + 1 \in S
  PROVE  Nat \subseteq S
<1> DEFINE T == Nat \ S
<1> SUFFICES ASSUME T # {} PROVE FALSE
  OBVIOUS
<1>1. PICK x \in T : \A y \in T : ~(<<y, x>> \in OpToRel(<, Nat))
  <2>1. IsWellFoundedOn(OpToRel(<, Nat), Nat)
    BY NatLessThanWellFounded
  <2>2. T \subseteq Nat
    OBVIOUS
  <2> HIDE DEF T
  <2> QED BY <2>1, <2>2, WFMin
<1>2. x # 0 /\ x - 1 \in Nat /\ x - 1 \notin S
  <2>1. x # 0 /\ x - 1 \in Nat
    OBVIOUS
  <2>2. x - 1 \in S => x - 1 + 1 \in S
    BY <2>1
  <2> QED BY <2>1, <2>2
<1>3. <<x - 1, x>> \in OpToRel(<, Nat)
  BY <1>2 DEF OpToRel
<1> QED BY <1>1, <1>2, <1>3

LEMMA Climb ==
  ASSUME NEW m \in Nat, NEW S, 0 \in S, \A n \in 1 .. m : n - 1 \in S => n \in S
  PROVE  0 .. m \subseteq S
<1> DEFINE T == {k \in Nat : k <= m => k \in S}
<1>1. 0 \in T
  OBVIOUS
<1>2. ASSUME NEW k \in Nat, k \in T PROVE k + 1 \in T
  <2>1. k + 1 <= m => k + 1 \in 1 .. m /\ (k + 1) - 1 = k
    OBVIOUS
  <2> QED BY <1>2, <2>1
<1>3. Nat \subseteq T
  <2> HIDE DEF T
  <2> QED BY <1>1, <1>2, SetInduction
<1> QED BY <1>3

Steps(f, m, a, step) == \A n \in 0 .. m : f[n] = IF n = 0 THEN a ELSE step[n][f[n - 1]]

LEMMA Iteration ==
  ASSUME NEW A, NEW a \in A, NEW m \in Nat, NEW step \in [1 .. m -> [A -> A]]
  PROVE  \E f \in [0 .. m -> A] : Steps(f, m, a, step)
<1> DEFINE Is(f, k) == \A n \in 0 .. k : f[n] = IF n = 0 THEN a ELSE step[n][f[n - 1]]
           S == {k \in Nat : k <= m => \E f \in [0 .. k -> A] : Is(f, k)}
<1>1. 0 \in S
  <2>1. [n \in 0 .. 0 |-> a] \in [0 .. 0 -> A] /\ Is([n \in 0 .. 0 |-> a], 0)
    OBVIOUS
  <2> QED BY <2>1
<1>2. ASSUME NEW k \in Nat, k \in S PROVE k + 1 \in S
  <2>1. SUFFICES ASSUME k + 1 <= m PROVE \E f \in [0 .. k + 1 -> A] : Is(f, k + 1)
    OBVIOUS
  <2>2. PICK g \in [0 .. k -> A] : Is(g, k)
    BY <1>2, <2>1
  <2>3. step[k + 1][g[k]] \in A
    BY <2>1
  <2>4. PICK f \in [0 .. k + 1 -> A] :
          \A n \in 0 .. k + 1 : f[n] = IF n = k + 1 THEN step[k + 1][g[k]] ELSE g[n]
    <3>1. [n \in 0 .. k + 1 |-> IF n = k + 1 THEN step[k + 1][g[k]] ELSE g[n]] \in [0 .. k + 1 -> A]
      BY <2>3
    <3> QED BY <3>1
  <2>5. ASSUME NEW n \in 0 .. k + 1 PROVE f[n] = IF n = 0 THEN a ELSE step[n][f[n - 1]]
    <3>1. CASE n = k + 1
      BY <2>4, <3>1
    <3>2. CASE n # k + 1
      <4>1. n \in 0 .. k /\ f[n] = g[n]
        BY <2>4, <3>2
      <4>2. n # 0 => f[n - 1] = g[n - 1]
        BY <2>4, <3>2
      <4> QED BY <2>2, <4>1, <4>2
    <3> QED BY <3>1, <3>2
  <2> QED BY <2>5
<1>3. m \in S
  BY <1>1, <1>2, SetInduction
<1> QED BY <1>3 DEF Steps

-----------------------------------------------------------------------------
(* LineSplitter. *)

LEMMA Constants ==
  /\ MaxRetries \in Nat \ {0} /\ MaxFiles \in Nat \ {0} /\ Chunk \in Nat \ {0}
  /\ MaxLine \in Nat \ {0} /\ BatchMax \in Nat \ {0} /\ MaxRate \in Nat \ {0}
  /\ MaxCells \in Nat /\ MaxChanges \in Nat /\ Backfill \in Nat
  /\ Inodes = 1 .. MaxFiles /\ None = 0 /\ None \notin Inodes
BY TailerAssumption DEF Inodes, None

Piece == [at : Nat, cut : BOOLEAN]
Split == [carry : 0 .. MaxLine, at : Nat, lines : Seq(Piece)]

\* A cell completes a line after the last one, or is carried.
LEMMA SplitCellSteps ==
  ASSUME NEW s \in Split, NEW c \in BOOLEAN
  PROVE  /\ SplitCell(s, c) \in Split
         /\ SplitCell(s, c).at + SplitCell(s, c).carry = s.at + s.carry + 1
         /\ \/ SplitCell(s, c).at = s.at /\ SplitCell(s, c).lines = s.lines
            \/ \E p \in Piece : /\ p.at = SplitCell(s, c).at /\ s.at < p.at
                                /\ SplitCell(s, c).lines = Append(s.lines, p)
<1>1. s.carry \in 0 .. MaxLine /\ s.at \in Nat /\ s.lines \in Seq(Piece) /\ MaxLine \in Nat \ {0}
  BY Constants DEF Split
<1>2. CASE c
  <2>1. PICK p : p = [at |-> s.at + s.carry + 1, cut |-> FALSE]
    OBVIOUS
  <2>2. p \in Piece /\ p.at = s.at + s.carry + 1
    BY <1>1, <2>1 DEF Piece
  <2>3. SplitCell(s, c) = [carry |-> 0, at |-> s.at + s.carry + 1, lines |-> Append(s.lines, p)]
    BY <1>2, <2>1 DEF SplitCell
  <2>4. Append(s.lines, p) \in Seq(Piece)
    BY <1>1, <2>2
  <2> QED BY <1>1, <2>2, <2>3, <2>4 DEF Split
<1>3. CASE ~c /\ s.carry = MaxLine
  <2>1. PICK p : p = [at |-> s.at + MaxLine, cut |-> TRUE]
    OBVIOUS
  <2>2. p \in Piece /\ p.at = s.at + MaxLine
    BY <1>1, <2>1 DEF Piece
  <2>3. SplitCell(s, c) = [carry |-> 1, at |-> s.at + MaxLine, lines |-> Append(s.lines, p)]
    BY <1>3, <2>1 DEF SplitCell
  <2>4. Append(s.lines, p) \in Seq(Piece)
    BY <1>1, <2>2
  <2> QED BY <1>1, <1>3, <2>2, <2>3, <2>4 DEF Split
<1>4. CASE ~c /\ s.carry # MaxLine
  BY <1>1, <1>4 DEF Split, SplitCell
<1> QED BY <1>2, <1>3, <1>4

First(carry, emitted) == [carry |-> carry, at |-> emitted, lines |-> <<>>]

\* The recursion of Splits is well defined.
LEMMA SplitsSteps ==
  ASSUME NEW carry \in 0 .. MaxLine, NEW emitted \in Nat, NEW cells \in Seq(BOOLEAN)
  PROVE  /\ Splits(carry, emitted, cells) \in [0 .. Len(cells) -> Split]
         /\ Splits(carry, emitted, cells)[0] = First(carry, emitted)
         /\ \A n \in 1 .. Len(cells) :
              Splits(carry, emitted, cells)[n] = SplitCell(Splits(carry, emitted, cells)[n - 1], cells[n])
<1>m. PICK m : m = Len(cells)
  OBVIOUS
<1>a. PICK a : a = First(carry, emitted)
  OBVIOUS
<1>s. PICK step : step = [n \in 1 .. m |-> [s \in Split |-> SplitCell(s, cells[n])]]
  OBVIOUS
<1>1. a \in Split /\ m \in Nat /\ \A n \in 1 .. m : cells[n] \in BOOLEAN
  <2>1. <<>> \in Seq(Piece)
    OBVIOUS
  <2> QED BY <1>a, <1>m, <2>1 DEF Split, First
<1>2. step \in [1 .. m -> [Split -> Split]]
  BY <1>s, <1>1, SplitCellSteps
<1>3. PICK f \in [0 .. m -> Split] : Steps(f, m, a, step)
  BY <1>1, <1>2, Iteration
<1>4. f = [n \in 0 .. m |-> IF n = 0 THEN a ELSE SplitCell(f[n - 1], cells[n])]
  <2>1. \A n \in 0 .. m : f[n] = IF n = 0 THEN a ELSE SplitCell(f[n - 1], cells[n])
    <3> SUFFICES ASSUME NEW n \in 0 .. m, n # 0 PROVE step[n][f[n-1]] = SplitCell(f[n - 1], cells[n])
      BY <1>3 DEF Steps
    <3>1. n \in 1 .. m /\ n - 1 \in 0 .. m
      BY <1>1
    <3> QED BY <3>1, <1>s
  <2> QED BY <2>1
<1>5. PICK g : g = Splits(carry, emitted, cells)
  OBVIOUS
<1>6. g = [n \in 0 .. m |-> IF n = 0 THEN a ELSE SplitCell(g[n - 1], cells[n])]
  <2>1. g = CHOOSE h : h = [n \in 0 .. m |-> IF n = 0 THEN a ELSE SplitCell(h[n - 1], cells[n])]
    BY <1>a, <1>m, <1>5 DEF Splits, First
  <2> QED BY <1>4, <2>1
<1>7. 0 .. m \subseteq {n \in 0 .. m : g[n] \in Split}
  <2>1. \A n \in 1 .. m : g[n - 1] \in Split => g[n] \in Split
    <3> SUFFICES ASSUME NEW n \in 1 .. m, g[n - 1] \in Split PROVE g[n] \in Split
      OBVIOUS
    <3>1. g[n] = SplitCell(g[n - 1], cells[n]) /\ cells[n] \in BOOLEAN
      BY <1>1, <1>6
    <3> QED BY <3>1, SplitCellSteps
  <2>2. PICK S : S = {n \in 0 .. m : g[n] \in Split}
    OBVIOUS
  <2>3. 0 \in S /\ \A n \in 1 .. m : n - 1 \in S => n \in S
    <3>1. g[0] \in Split /\ 0 \in 0 .. m
      BY <1>1, <1>6
    <3> HIDE <1>6
    <3> QED BY <1>1, <2>1, <2>2, <3>1
  <2> QED BY <1>1, <2>2, <2>3, Climb
<1>8. g \in [0 .. m -> Split]
  BY <1>6, <1>7
<1>9. \A n \in 1 .. m : n \in 0 .. m /\ g[n] = SplitCell(g[n - 1], cells[n])
  BY <1>1, <1>6
<1> QED BY <1>1, <1>a, <1>m, <1>5, <1>6, <1>8, <1>9

\* What a chunk adds to what is carried is cut into lines or carried on, and
\* the lines end one after the other.
Climbs(lines, from, to) ==
  /\ \A j \in DOMAIN lines : from < lines[j].at /\ lines[j].at <= to
  /\ \A j, k \in DOMAIN lines : j < k => lines[j].at < lines[k].at
  /\ to = IF lines = <<>> THEN from ELSE lines[Len(lines)].at

LEMMA ClimbsOn ==
  ASSUME NEW lines \in Seq(Piece), NEW from \in Nat, NEW to \in Nat, Climbs(lines, from, to),
         NEW p \in Piece, to < p.at
  PROVE  Climbs(Append(lines, p), from, p.at)
<1>1. /\ Append(lines, p) \in Seq(Piece) /\ Len(Append(lines, p)) = Len(lines) + 1
      /\ Append(lines, p)[Len(lines) + 1] = p /\ Append(lines, p) # <<>>
      /\ \A j \in 1 .. Len(lines) : Append(lines, p)[j] = lines[j]
      /\ DOMAIN Append(lines, p) = 1 .. Len(lines) + 1 /\ DOMAIN lines = 1 .. Len(lines)
      /\ Len(lines) \in Nat
  OBVIOUS
<1>2. PICK new : new = Append(lines, p)
  OBVIOUS
<1>3. p.at \in Nat /\ \A j \in 1 .. Len(lines) : lines[j].at \in Nat
  <2>1. \A j \in 1 .. Len(lines) : lines[j] \in Piece
    OBVIOUS
  <2> QED BY <2>1 DEF Piece
<1>4. from <= to
  <2>1. CASE lines = <<>>
    BY <2>1 DEF Climbs
  <2>2. CASE lines # <<>>
    <3>1. Len(lines) \in DOMAIN lines
      BY <2>2
    <3> QED BY <1>3, <2>2, <3>1 DEF Climbs
  <2> QED BY <2>1, <2>2
<1>5. \A j \in DOMAIN new : from < new[j].at /\ new[j].at <= p.at
  BY <1>1, <1>2, <1>3, <1>4 DEF Climbs
<1>6. \A j, k \in DOMAIN new : j < k => new[j].at < new[k].at
  <2> SUFFICES ASSUME NEW j \in DOMAIN new, NEW k \in DOMAIN new, j < k PROVE new[j].at < new[k].at
    OBVIOUS
  <2>1. j \in 1 .. Len(lines) /\ new[j] = lines[j]
    BY <1>1, <1>2
  <2>2. CASE k = Len(lines) + 1
    BY <1>1, <1>2, <1>3, <2>1, <2>2 DEF Climbs
  <2>3. CASE k # Len(lines) + 1
    BY <1>1, <1>2, <1>3, <2>1, <2>3 DEF Climbs
  <2> QED BY <2>2, <2>3
<1> QED BY <1>1, <1>2, <1>5, <1>6 DEF Climbs

LEMMA SplitsClimb ==
  ASSUME NEW carry \in 0 .. MaxLine, NEW emitted \in Nat, NEW cells \in Seq(BOOLEAN),
         NEW n \in 0 .. Len(cells)
  PROVE  LET s == Splits(carry, emitted, cells)[n]
         IN s \in Split /\ s.at + s.carry = emitted + carry + n /\ Climbs(s.lines, emitted, s.at)
<1>m. PICK m : m = Len(cells)
  OBVIOUS
<1>g. PICK g : g = Splits(carry, emitted, cells)
  OBVIOUS
<1>1. /\ m \in Nat /\ g \in [0 .. m -> Split] /\ g[0] = First(carry, emitted)
      /\ \A k \in 1 .. m : g[k] = SplitCell(g[k - 1], cells[k]) /\ cells[k] \in BOOLEAN
  <2>1. \A k \in 1 .. m : cells[k] \in BOOLEAN
    BY <1>m
  <2>2. m \in Nat
    BY <1>m
  <2>3. /\ g \in [0 .. m -> Split] /\ g[0] = First(carry, emitted)
        /\ \A k \in 1 .. m : g[k] = SplitCell(g[k - 1], cells[k])
    BY <1>m, <1>g, SplitsSteps
  <2> QED BY <2>1, <2>2, <2>3
<1> DEFINE Good(k) == g[k].at + g[k].carry = emitted + carry + k /\ Climbs(g[k].lines, emitted, g[k].at)
<1>2. Good(0)
  <2>1. g[0].at = emitted /\ g[0].carry = carry /\ g[0].lines = <<>> /\ carry \in Nat
    BY <1>1, Constants DEF First
  <2>2. Climbs(<<>>, emitted, emitted)
    BY DEF Climbs
  <2> QED BY <2>1, <2>2
<1>3. ASSUME NEW k \in 1 .. m, Good(k - 1) PROVE Good(k)
  <2>1. PICK s : s = g[k - 1]
    OBVIOUS
  <2>2. PICK t : t = g[k]
    OBVIOUS
  <2>3. /\ s \in Split /\ t \in Split /\ t.at + t.carry = s.at + s.carry + 1
        /\ \/ t.at = s.at /\ t.lines = s.lines
           \/ \E p \in Piece : p.at = t.at /\ s.at < p.at /\ t.lines = Append(s.lines, p)
    <3>1. s \in Split /\ t = SplitCell(s, cells[k]) /\ cells[k] \in BOOLEAN
      <4>1. k \in 0 .. m /\ k - 1 \in 0 .. m
        BY <1>1
      <4> QED BY <1>1, <2>1, <2>2, <4>1
    <3> QED BY <3>1, SplitCellSteps
  <2>4. /\ s.at \in Nat /\ t.at \in Nat /\ s.carry \in Nat /\ t.carry \in Nat /\ carry \in Nat
        /\ s.lines \in Seq(Piece)
    BY <2>3, Constants DEF Split
  <2>5. t.at + t.carry = emitted + carry + k
    BY <1>3, <2>1, <2>3, <2>4
  <2>6. Climbs(t.lines, emitted, t.at)
    <3>1. Climbs(s.lines, emitted, s.at)
      BY <1>3, <2>1
    <3> QED BY <2>3, <2>4, <3>1, ClimbsOn
  <2> QED BY <2>2, <2>5, <2>6
<1>4. PICK S : S = {k \in 0 .. m : Good(k)}
  OBVIOUS
<1>5. 0 .. m \subseteq S
  <2>1. 0 \in S /\ \A k \in 1 .. m : k - 1 \in S => k \in S
    <3> HIDE DEF Good
    <3> QED BY <1>1, <1>2, <1>3, <1>4
  <2> QED BY <1>1, <2>1, Climb
<1>6. Good(n)
  <2> HIDE DEF Good
  <2> QED BY <1>m, <1>4, <1>5
<1> QED BY <1>m, <1>g, <1>1, <1>6

LEMMA AppendToBoth ==
  ASSUME NEW S, NEW s \in Seq(S), NEW t \in Seq(S), NEW e \in S
  PROVE  s \o Append(t, e) = Append(s \o t, e)
<1>1. PICK a, b : a = s \o Append(t, e) /\ b = Append(s \o t, e)
  OBVIOUS
<1>2. a \in Seq(S) /\ b \in Seq(S) /\ Len(a) = Len(s) + Len(t) + 1 /\ Len(b) = Len(a)
  BY <1>1
<1>3. \A k \in 1 .. Len(a) : a[k] = b[k]
  BY <1>1
<1> QED BY <1>1, <1>2, <1>3

\* Reading a text in two pieces is reading it in one.
LEMMA PushInPieces ==
  ASSUME NEW carry \in 0 .. MaxLine, NEW emitted \in Nat,
         NEW early \in Seq(BOOLEAN), NEW late \in Seq(BOOLEAN)
  PROVE  LET s == Push(carry, emitted, early)
             t == Push(s.carry, s.at, late)
             w == Push(carry, emitted, early \o late)
         IN w.carry = t.carry /\ w.at = t.at /\ w.lines = s.lines \o t.lines
<1>p. PICK s, t, w, text : /\ text = early \o late /\ s = Push(carry, emitted, early)
                           /\ t = Push(s.carry, s.at, late) /\ w = Push(carry, emitted, text)
  <2>1. PICK z : z = early \o late
    OBVIOUS
  <2>2. PICK s : s = Push(carry, emitted, early)
    OBVIOUS
  <2>3. PICK t : t = Push(s.carry, s.at, late)
    OBVIOUS
  <2>4. PICK w : w = Push(carry, emitted, z)
    OBVIOUS
  <2> QED BY <2>1, <2>2, <2>3, <2>4
<1>m. PICK m, n : m = Len(early) /\ n = Len(late)
  OBVIOUS
<1>g. PICK f, g, h : /\ f = Splits(carry, emitted, early) /\ g = Splits(s.carry, s.at, late)
                     /\ h = Splits(carry, emitted, text)
  OBVIOUS
<1>0. /\ text \in Seq(BOOLEAN) /\ Len(text) = m + n /\ m \in Nat /\ n \in Nat
      /\ \A k \in 1 .. m : text[k] = early[k]
      /\ \A k \in 1 .. n : text[m + k] = late[k]
  BY <1>m, <1>p
<1>n. m \in Nat /\ n \in Nat
  BY <1>m
<1>1. /\ f \in [0 .. m -> Split] /\ f[0] = First(carry, emitted)
      /\ \A k \in 1 .. m : f[k] = SplitCell(f[k - 1], early[k])
  BY <1>m, <1>g, SplitsSteps
<1>2. s = f[m] /\ s \in Split /\ s.carry \in 0 .. MaxLine /\ s.at \in Nat /\ s.lines \in Seq(Piece)
  BY <1>0, <1>m, <1>g, <1>p, <1>1 DEF Push, Split
<1>3. /\ g \in [0 .. n -> Split] /\ g[0] = First(s.carry, s.at)
      /\ \A k \in 1 .. n : g[k] = SplitCell(g[k - 1], late[k])
  <2>1. PICK c, a : c = s.carry /\ a = s.at
    OBVIOUS
  <2>2. c \in 0 .. MaxLine /\ a \in Nat /\ g = Splits(c, a, late)
    BY <1>g, <1>2, <2>1
  <2>3. /\ g \in [0 .. Len(late) -> Split] /\ g[0] = First(c, a)
        /\ \A k \in 1 .. Len(late) : g[k] = SplitCell(g[k - 1], late[k])
    BY <2>2, SplitsSteps
  <2> QED BY <1>m, <2>1, <2>3
<1>4. /\ h \in [0 .. m + n -> Split] /\ h[0] = First(carry, emitted)
      /\ \A k \in 1 .. m + n : h[k] = SplitCell(h[k - 1], text[k])
  <2>1. PICK mn : mn = Len(text)
    OBVIOUS
  <2>2. /\ h \in [0 .. mn -> Split] /\ h[0] = First(carry, emitted)
        /\ \A k \in 1 .. mn : h[k] = SplitCell(h[k - 1], text[k])
    BY <1>0, <1>g, <2>1, SplitsSteps
  <2> QED BY <1>0, <2>1, <2>2
<1>5. t = g[n] /\ w = h[m + n]
  BY <1>0, <1>m, <1>g, <1>p DEF Push
<1>6. h[m] = f[m]
  <2>1. PICK S : S = {k \in 0 .. m : h[k] = f[k]}
    OBVIOUS
  <2>2. \A k \in 1 .. m : k - 1 \in S => k \in S
    <3> SUFFICES ASSUME NEW k \in 1 .. m, h[k - 1] = f[k - 1] PROVE h[k] = f[k]
      BY <1>n, <2>1
    <3>1. k \in 1 .. m + n
      BY <1>0
    <3> QED BY <1>0, <1>1, <1>4, <3>1
  <2>3. 0 \in S
    BY <1>0, <1>1, <1>4, <2>1
  <2>4. 0 .. m \subseteq S
    BY <1>n, <2>2, <2>3, Climb
  <2> QED BY <1>n, <2>1, <2>4
<1> DEFINE Same(k) == /\ h[m + k].carry = g[k].carry /\ h[m + k].at = g[k].at
                      /\ h[m + k].lines = s.lines \o g[k].lines
<1>7. Same(0)
  <2>1. g[0].carry = s.carry /\ g[0].at = s.at /\ g[0].lines = <<>>
    BY <1>3 DEF First
  <2> QED BY <1>0, <1>2, <1>6, <2>1
<1>8. ASSUME NEW k \in 1 .. n, Same(k - 1) PROVE Same(k)
  <2>1. PICK a, b, c : a = h[m + (k - 1)] /\ b = g[k - 1] /\ c = late[k]
    OBVIOUS
  <2>2. /\ h[m + k] = SplitCell(a, c) /\ g[k] = SplitCell(b, c) /\ a \in Split /\ b \in Split /\ c \in BOOLEAN
    <3>1. m + k \in 1 .. m + n /\ (m + k) - 1 = m + (k - 1) /\ m + (k - 1) \in 0 .. m + n /\ k - 1 \in 0 .. n
      BY <1>0
    <3>2. c \in BOOLEAN
      BY <1>m, <2>1
    <3> QED BY <1>0, <1>3, <1>4, <2>1, <3>1, <3>2
  <2>3. a.carry = b.carry /\ a.at = b.at /\ a.lines = s.lines \o b.lines /\ b.lines \in Seq(Piece)
    BY <1>8, <2>1, <2>2 DEF Split
  <2>4. ASSUME NEW p \in Piece PROVE s.lines \o Append(b.lines, p) = Append(s.lines \o b.lines, p)
    <3>1. PICK u, v : u = s.lines /\ v = b.lines
      OBVIOUS
    <3>2. u \in Seq(Piece) /\ v \in Seq(Piece)
      BY <1>2, <2>3, <3>1
    <3>3. u \o Append(v, p) = Append(u \o v, p)
      BY <3>2, AppendToBoth
    <3> QED BY <3>1, <3>3
  <2>5. PICK x, y : x = SplitCell(a, c) /\ y = SplitCell(b, c)
    OBVIOUS
  <2>6. x.carry = y.carry /\ x.at = y.at /\ x.lines = s.lines \o y.lines
    <3>1. a.carry \in Nat /\ a.at \in Nat /\ MaxLine \in Nat
      BY <2>2, Constants DEF Split
    <3>2. CASE c
      <4>1. PICK p : p = [at |-> a.at + a.carry + 1, cut |-> FALSE]
        OBVIOUS
      <4>2. /\ x = [carry |-> 0, at |-> a.at + a.carry + 1, lines |-> Append(a.lines, p)]
            /\ y = [carry |-> 0, at |-> a.at + a.carry + 1, lines |-> Append(b.lines, p)]
        BY <2>3, <2>5, <3>2, <4>1 DEF SplitCell
      <4>3. p \in Piece
        BY <3>1, <4>1 DEF Piece
      <4> QED BY <2>3, <2>4, <4>2, <4>3
    <3>3. CASE ~c /\ a.carry = MaxLine
      <4>1. PICK p : p = [at |-> a.at + MaxLine, cut |-> TRUE]
        OBVIOUS
      <4>2. /\ x = [carry |-> 1, at |-> a.at + MaxLine, lines |-> Append(a.lines, p)]
            /\ y = [carry |-> 1, at |-> a.at + MaxLine, lines |-> Append(b.lines, p)]
        BY <2>3, <2>5, <3>3, <4>1 DEF SplitCell
      <4>3. p \in Piece
        BY <3>1, <4>1 DEF Piece
      <4> QED BY <2>3, <2>4, <4>2, <4>3
    <3>4. CASE ~c /\ a.carry # MaxLine
      BY <2>2, <2>3, <2>5, <3>1, <3>4 DEF SplitCell, Split
    <3> QED BY <3>2, <3>3, <3>4
  <2> QED BY <2>2, <2>5, <2>6
<1>9. Same(n)
  <2>1. PICK S : S = {k \in 0 .. n : Same(k)}
    OBVIOUS
  <2>2. 0 \in S /\ \A k \in 1 .. n : k - 1 \in S => k \in S
    <3> HIDE DEF Same
    <3> QED BY <1>0, <1>7, <1>8, <2>1
  <2>3. 0 .. n \subseteq S
    BY <1>n, <2>2, Climb
  <2> HIDE DEF Same
  <2> QED BY <1>n, <2>1, <2>3
<1> QED BY <1>p, <1>5, <1>9

-----------------------------------------------------------------------------
(* Sequences of batches. *)

LEMMA NoElements ==
  ASSUME NEW S, NEW s \in Seq(S), Len(s) = 0
  PROVE  s = <<>>
OBVIOUS

LEMMA FlattenSteps ==
  ASSUME NEW S, NEW seqs \in Seq(Seq(S))
  PROVE  \E f \in [0 .. Len(seqs) -> Seq(S)] :
           /\ f[0] = <<>> /\ \A n \in 1 .. Len(seqs) : f[n] = f[n - 1] \o seqs[n]
           /\ FlattenSeq(seqs) = f[Len(seqs)]
<1>m. PICK m : m = Len(seqs)
  OBVIOUS
<1>s. PICK step : step = [n \in 1 .. m |-> [s \in Seq(S) |-> s \o seqs[n]]]
  OBVIOUS
<1>a. PICK a : a = <<>>
  OBVIOUS
<1>1. m \in Nat /\ a \in Seq(S) /\ \A n \in 1 .. m : seqs[n] \in Seq(S)
  BY <1>m, <1>a
<1>2. step \in [1 .. m -> [Seq(S) -> Seq(S)]]
  BY <1>s, <1>1
<1>3. PICK f \in [0 .. m -> Seq(S)] : Steps(f, m, a, step)
  BY <1>1, <1>2, Iteration
<1>4. f[0] = a /\ \A n \in 1 .. m : f[n] = f[n - 1] \o seqs[n]
  <2>1. f[0] = a
    BY <1>1, <1>3 DEF Steps
  <2>2. ASSUME NEW n \in 1 .. m PROVE f[n] = f[n - 1] \o seqs[n]
    <3>1. n \in 0 .. m /\ n # 0 /\ n - 1 \in 0 .. m
      BY <1>1
    <3>2. f[n] = step[n][f[n - 1]] /\ f[n - 1] \in Seq(S)
      BY <1>3, <3>1 DEF Steps
    <3> QED BY <1>s, <3>1, <3>2
  <2> QED BY <2>1, <2>2
<1>5. CASE m = 0
  <2>1. FlattenSeq(seqs) = seqs
    BY <1>m, <1>5 DEF FlattenSeq
  <2>2. seqs = <<>>
    BY <1>m, <1>5, NoElements
  <2> QED BY <1>m, <1>a, <1>4, <1>5, <2>1, <2>2
<1>6. CASE m # 0
  <2>1. PICK h : h = [i \in 1 .. m |-> f[i]]
    OBVIOUS
  <2>2. h = [i \in 1 .. m |-> IF i = 1 THEN seqs[i] ELSE h[i - 1] \o seqs[i]]
    <3>1. ASSUME NEW i \in 1 .. m PROVE h[i] = IF i = 1 THEN seqs[i] ELSE h[i - 1] \o seqs[i]
      <4>1. CASE i = 1
        <5>0. i - 1 = 0
          BY ONLY <4>1
        <5>9. seqs[i] \in Seq(S)
          BY <1>1
        <5>1. f[i] = f[i - 1] \o seqs[i] /\ seqs[i] \in Seq(S) /\ i - 1 = 0
          BY <1>4, <5>0, <5>9
        <5>2. <<>> \o seqs[i] = seqs[i]
          BY <5>1
        <5> QED BY <1>a, <1>4, <2>1, <4>1, <5>1, <5>2
      <4>2. CASE i # 1
        <5>1. i - 1 \in 1 .. m
          BY <1>1, <4>2
        <5> QED BY <1>4, <2>1, <4>2, <5>1
      <4> QED BY <4>1, <4>2
    <3> QED BY <2>1, <3>1
  <2>3. PICK g : g = CHOOSE k : k = [i \in 1 .. m |-> IF i = 1 THEN seqs[i] ELSE k[i - 1] \o seqs[i]]
    OBVIOUS
  <2>4. g = [i \in 1 .. m |-> IF i = 1 THEN seqs[i] ELSE g[i - 1] \o seqs[i]]
    BY <2>2, <2>3
  <2>5. FlattenSeq(seqs) = g[m]
    BY <1>m, <1>6, <2>3 DEF FlattenSeq
  <2>6. PICK T : T = {n \in 0 .. m : n # 0 => g[n] = f[n]}
    OBVIOUS
  <2>7. 0 \in T
    BY <1>1, <2>6
  <2>8. ASSUME NEW n \in 1 .. m, n - 1 \in T PROVE n \in T
    <3>1. CASE n = 1
      <4>1. g[n] = seqs[n]
        BY <2>4, <3>1
      <4>0. n - 1 = 0
        BY ONLY <3>1
      <4>9. seqs[n] \in Seq(S)
        BY <1>1
      <4>2. f[n] = f[n - 1] \o seqs[n] /\ seqs[n] \in Seq(S) /\ n - 1 = 0
        BY <1>4, <4>0, <4>9
      <4>3. <<>> \o seqs[n] = seqs[n]
        BY <4>2
      <4>4. f[n] = seqs[n]
        BY <1>a, <1>4, <4>2, <4>3
      <4> QED BY <1>1, <2>6, <4>1, <4>4
    <3>2. CASE n # 1
      <4>1. n - 1 \in 1 .. m /\ g[n - 1] = f[n - 1]
        BY <1>1, <2>6, <2>8, <3>2
      <4>2. g[n] = g[n - 1] \o seqs[n]
        BY <2>4, <3>2
      <4>3. f[n] = f[n - 1] \o seqs[n]
        BY <1>4
      <4>4. g[n] = f[n]
        BY <4>1, <4>2, <4>3
      <4> QED BY <1>1, <2>6, <4>4
    <3> QED BY <3>1, <3>2
  <2>9. 0 .. m \subseteq T
    BY <1>1, <2>7, <2>8, Climb
  <2>10. g[m] = f[m]
    BY <1>1, <1>6, <2>6, <2>9
  <2> QED BY <1>m, <1>a, <1>4, <2>5, <2>10
<1> QED BY <1>5, <1>6

LEMMA FlattenAppend ==
  ASSUME NEW S, NEW seqs \in Seq(Seq(S)), NEW s \in Seq(S)
  PROVE  FlattenSeq(seqs) \in Seq(S) /\ FlattenSeq(Append(seqs, s)) = FlattenSeq(seqs) \o s
<1>m. PICK m, all : m = Len(seqs) /\ all = Append(seqs, s)
  OBVIOUS
<1>1. /\ m \in Nat /\ all \in Seq(Seq(S)) /\ Len(all) = m + 1 /\ all[m + 1] = s
      /\ \A n \in 1 .. m : all[n] = seqs[n]
  BY <1>m
<1>2. PICK f \in [0 .. m -> Seq(S)] :
        /\ f[0] = <<>> /\ \A n \in 1 .. m : f[n] = f[n - 1] \o seqs[n]
        /\ FlattenSeq(seqs) = f[m]
  BY <1>m, FlattenSteps
<1>3. PICK g \in [0 .. m + 1 -> Seq(S)] :
        /\ g[0] = <<>> /\ \A n \in 1 .. m + 1 : g[n] = g[n - 1] \o all[n]
        /\ FlattenSeq(all) = g[m + 1]
  <2>1. PICK g \in [0 .. Len(all) -> Seq(S)] :
          /\ g[0] = <<>> /\ \A n \in 1 .. Len(all) : g[n] = g[n - 1] \o all[n]
          /\ FlattenSeq(all) = g[Len(all)]
    BY <1>1, FlattenSteps
  <2> QED BY <1>1, <2>1
<1>4. PICK T : T = {n \in 0 .. m : g[n] = f[n]}
  OBVIOUS
<1>5. 0 \in T
  BY <1>1, <1>2, <1>3, <1>4
<1>6. ASSUME NEW n \in 1 .. m, n - 1 \in T PROVE n \in T
  <2>1. n \in 1 .. m + 1 /\ g[n - 1] = f[n - 1] /\ all[n] = seqs[n]
    BY <1>1, <1>4, <1>6
  <2>2. g[n] = g[n - 1] \o all[n]
    BY <1>3, <2>1
  <2>3. f[n] = f[n - 1] \o seqs[n]
    BY <1>2
  <2>4. g[n] = f[n]
    BY <2>1, <2>2, <2>3
  <2> QED BY <1>1, <1>4, <2>4
<1>7. 0 .. m \subseteq T
  BY <1>1, <1>5, <1>6, Climb
<1>8. g[m] = f[m] /\ f[m] \in Seq(S)
  <2>1. m \in 0 .. m
    BY <1>1
  <2> QED BY <1>4, <1>7, <2>1
<1>9. g[m + 1] = g[m] \o all[m + 1]
  <2>1. m + 1 \in 1 .. m + 1 /\ (m + 1) - 1 = m
    BY <1>1
  <2> QED BY <1>3, <2>1
<1> QED BY <1>m, <1>1, <1>2, <1>3, <1>8, <1>9

LEMMA FlattenNone ==
  FlattenSeq(<<>>) = <<>>
BY DEF FlattenSeq

Types == {"log.entry", "log.error", "log.deleted", "log.truncated", "log.rotated", "read failed"}
Event == [type : Types, entries : Seq(Line), dropped : Nat]

LEMMA ReportedSteps ==
  ASSUME NEW out \in Seq(Event)
  PROVE  \E f \in [0 .. Len(out) -> Nat] :
           /\ f[0] = 0 /\ \A n \in 1 .. Len(out) : f[n] = f[n - 1] + out[n].dropped
           /\ Reported(out) = f[Len(out)]
<1>m. PICK m : m = Len(out)
  OBVIOUS
<1>s. PICK step : step = [n \in 1 .. m |-> [s \in Nat |-> s + out[n].dropped]]
  OBVIOUS
<1>1. m \in Nat /\ \A n \in 1 .. m : out[n].dropped \in Nat
  <2>1. m \in Nat /\ \A n \in 1 .. m : out[n] \in Event
    BY <1>m
  <2> QED BY <2>1 DEF Event
<1>2. step \in [1 .. m -> [Nat -> Nat]]
  <2>1. \A n \in 1 .. m : [s \in Nat |-> s + out[n].dropped] \in [Nat -> Nat]
    BY <1>1
  <2> QED BY <1>s, <2>1
<1>3. PICK f \in [0 .. m -> Nat] : Steps(f, m, 0, step)
  BY <1>1, <1>2, Iteration
<1>4. f[0] = 0 /\ \A n \in 1 .. m : f[n] = f[n - 1] + out[n].dropped
  <2>1. f[0] = 0
    BY <1>1, <1>3 DEF Steps
  <2>2. ASSUME NEW n \in 1 .. m PROVE f[n] = f[n - 1] + out[n].dropped
    <3>1. n \in 0 .. m /\ n # 0 /\ n - 1 \in 0 .. m
      BY <1>1
    <3>2. f[n] = step[n][f[n - 1]] /\ f[n - 1] \in Nat
      BY <1>3, <3>1 DEF Steps
    <3> QED BY <1>s, <3>1, <3>2
  <2> QED BY <2>1, <2>2
<1>5. f = [k \in 0 .. m |-> IF k = 0 THEN 0 ELSE f[k - 1] + out[k].dropped]
  <2>1. ASSUME NEW k \in 0 .. m PROVE f[k] = IF k = 0 THEN 0 ELSE f[k - 1] + out[k].dropped
    <3>1. k = 0 \/ k \in 1 .. m
      BY <1>1
    <3> QED BY <1>4, <3>1
  <2> QED BY <2>1
<1>6. PICK g : g = CHOOSE h : h = [k \in 0 .. m |-> IF k = 0 THEN 0 ELSE h[k - 1] + out[k].dropped]
  OBVIOUS
<1>7. g = [k \in 0 .. m |-> IF k = 0 THEN 0 ELSE g[k - 1] + out[k].dropped]
  BY <1>5, <1>6
<1>8. Reported(out) = g[m]
  BY <1>m, <1>6 DEF Reported
<1>9. PICK T : T = {n \in 0 .. m : g[n] = f[n]}
  OBVIOUS
<1>10. 0 \in T
  BY <1>1, <1>4, <1>7, <1>9
<1>11. ASSUME NEW n \in 1 .. m, n - 1 \in T PROVE n \in T
  <2>1. n \in 0 .. m /\ n # 0 /\ g[n - 1] = f[n - 1]
    BY <1>1, <1>9, <1>11
  <2> QED BY <1>4, <1>7, <1>9, <2>1
<1>12. 0 .. m \subseteq T
  BY <1>1, <1>10, <1>11, Climb
<1>13. g[m] = f[m]
  BY <1>1, <1>9, <1>12
<1> QED BY <1>m, <1>4, <1>8, <1>13

LEMMA ReportedAppend ==
  ASSUME NEW out \in Seq(Event), NEW e \in Event
  PROVE  Reported(out) \in Nat /\ Reported(Append(out, e)) = Reported(out) + e.dropped
<1>m. PICK m, all : m = Len(out) /\ all = Append(out, e)
  OBVIOUS
<1>1. /\ m \in Nat /\ all \in Seq(Event) /\ Len(all) = m + 1 /\ all[m + 1] = e
      /\ \A n \in 1 .. m : all[n] = out[n]
  BY <1>m
<1>2. PICK f \in [0 .. m -> Nat] :
        /\ f[0] = 0 /\ \A n \in 1 .. m : f[n] = f[n - 1] + out[n].dropped
        /\ Reported(out) = f[m]
  BY <1>m, ReportedSteps
<1>3. PICK g \in [0 .. m + 1 -> Nat] :
        /\ g[0] = 0 /\ \A n \in 1 .. m + 1 : g[n] = g[n - 1] + all[n].dropped
        /\ Reported(all) = g[m + 1]
  <2>1. PICK g \in [0 .. Len(all) -> Nat] :
          /\ g[0] = 0 /\ \A n \in 1 .. Len(all) : g[n] = g[n - 1] + all[n].dropped
          /\ Reported(all) = g[Len(all)]
    BY <1>1, ReportedSteps
  <2> QED BY <1>1, <2>1
<1>4. PICK T : T = {n \in 0 .. m : g[n] = f[n]}
  OBVIOUS
<1>5. 0 \in T
  BY <1>1, <1>2, <1>3, <1>4
<1>6. ASSUME NEW n \in 1 .. m, n - 1 \in T PROVE n \in T
  <2>1. n \in 1 .. m + 1 /\ g[n - 1] = f[n - 1] /\ all[n] = out[n]
    BY <1>1, <1>4, <1>6
  <2>2. g[n] = g[n - 1] + all[n].dropped
    BY <1>3, <2>1
  <2>3. f[n] = f[n - 1] + out[n].dropped
    BY <1>2
  <2>4. g[n] = f[n]
    BY <2>1, <2>2, <2>3
  <2> QED BY <1>1, <1>4, <2>4
<1>7. 0 .. m \subseteq T
  BY <1>1, <1>5, <1>6, Climb
<1>8. g[m] = f[m] /\ f[m] \in Nat
  BY <1>1, <1>4, <1>7
<1>9. g[m + 1] = g[m] + all[m + 1].dropped
  <2>1. m + 1 \in 1 .. m + 1 /\ (m + 1) - 1 = m
    BY <1>1
  <2> QED BY <1>3, <2>1
<1> QED BY <1>m, <1>1, <1>2, <1>3, <1>8, <1>9

LEMMA ReportedNone ==
  Reported(<<>>) = 0
<1>1. <<>> \in Seq(Event) /\ Len(<<>>) = 0
  OBVIOUS
<1> QED BY <1>1, ReportedSteps

-----------------------------------------------------------------------------
(* What the lines and batches do to what the user reads. *)

Origins == [ino : Inodes, epoch : Nat, base : Nat]

Buf ==
  [carry : 0 .. MaxLine, emitted : Nat, pending : Seq(Line), dropped : Nat, cut : Nat,
   inWindow : 0 .. MaxRate, timer : BOOLEAN, out : Seq(Event), lost : Seq(Line)]

LEMMA LineType ==
  Line = [of : Origins, at : Nat]
BY DEF Line, Origins

LEMMA BufType ==
  ASSUME NEW b \in Buf
  PROVE  /\ b.carry \in 0 .. MaxLine /\ b.emitted \in Nat /\ b.pending \in Seq(Line) /\ b.dropped \in Nat
         /\ b.cut \in Nat /\ b.inWindow \in 0 .. MaxRate /\ b.timer \in BOOLEAN /\ b.out \in Seq(Event)
         /\ b.lost \in Seq(Line)
BY DEF Buf

LEMMA EventType ==
  ASSUME NEW type \in Types, NEW entries \in Seq(Line), NEW dropped \in Nat
  PROVE  LET e == [type |-> type, entries |-> entries, dropped |-> dropped]
         IN e \in Event /\ e.type = type /\ e.entries = entries /\ e.dropped = dropped
BY DEF Event

Entries(out) == [k \in DOMAIN out |-> out[k].entries]

LEMMA EntriesAppend ==
  ASSUME NEW out \in Seq(Event), NEW e \in Event
  PROVE  Entries(out) \in Seq(Seq(Line)) /\ Entries(Append(out, e)) = Append(Entries(out), e.entries)
<1>1. PICK m, all : m = Len(out) /\ all = Append(out, e)
  OBVIOUS
<1>2. /\ m \in Nat /\ all \in Seq(Event) /\ Len(all) = m + 1 /\ all[m + 1] = e
      /\ DOMAIN all = 1 .. m + 1 /\ DOMAIN out = 1 .. m
      /\ \A n \in 1 .. m : all[n] = out[n] /\ out[n] \in Event
  BY <1>1
<1>3. e.entries \in Seq(Line) /\ \A n \in 1 .. m : out[n].entries \in Seq(Line)
  BY <1>2 DEF Event
<1>4. PICK T : T = Seq(Line)
  OBVIOUS
<1>5. Entries(out) = [n \in 1 .. m |-> out[n].entries]
  BY <1>2 DEF Entries
<1>6. Entries(out) \in Seq(T) /\ Len(Entries(out)) = m
  BY <1>2, <1>3, <1>4, <1>5
<1>7. Entries(all) = [n \in 1 .. m + 1 |-> all[n].entries]
  BY <1>2 DEF Entries
<1>8. PICK f, g : f = Entries(all) /\ g = Append(Entries(out), e.entries)
  OBVIOUS
<1>9. g \in Seq(T) /\ Len(g) = m + 1 /\ g[m + 1] = e.entries /\ \A n \in 1 .. m : g[n] = out[n].entries
  BY <1>2, <1>3, <1>4, <1>5, <1>6, <1>8
<1>10. g = [n \in 1 .. m + 1 |-> g[n]]
  BY <1>2, <1>9
<1>11. \A n \in 1 .. m + 1 : all[n].entries = g[n]
  BY <1>2, <1>9
<1>12. f = g
  BY <1>7, <1>8, <1>10, <1>11
<1> QED BY <1>1, <1>4, <1>6, <1>8, <1>12

\* The rows of a buffer: those of its events, then those of its batch.
LEMMA RowsType ==
  ASSUME NEW b \in Buf
  PROVE  /\ FlattenSeq(Entries(b.out)) \in Seq(Line) /\ Rows(b) = FlattenSeq(Entries(b.out)) \o b.pending
         /\ Rows(b) \in Seq(Line) /\ Counted(b) = Reported(b.out) + b.dropped /\ Counted(b) \in Nat
<1>1. PICK e : e \in Event
  <2>1. "log.entry" \in Types /\ <<>> \in Seq(Line) /\ 0 \in Nat
    BY DEF Types
  <2> QED BY <2>1, EventType
<1>2. Entries(b.out) \in Seq(Seq(Line)) /\ Reported(b.out) \in Nat
  BY <1>1, BufType, EntriesAppend, ReportedAppend
<1>3. <<>> \in Seq(Line)
  OBVIOUS
<1>4. FlattenSeq(Entries(b.out)) \in Seq(Line)
  BY <1>2, <1>3, FlattenAppend
<1>5. Rows(b) = FlattenSeq(Entries(b.out)) \o b.pending
  BY DEF Rows, Entries
<1>6. Rows(b) \in Seq(Line)
  BY <1>4, <1>5, BufType
<1> QED BY <1>2, <1>4, <1>5, <1>6, BufType DEF Counted

\* An event that takes what is pending with it leaves the rows alone.
LEMMA Published ==
  ASSUME NEW b \in Buf, NEW c \in Buf, NEW e \in Event, c.out = Append(b.out, e),
         b.pending = e.entries, c.pending = <<>>, c.dropped + e.dropped = b.dropped
  PROVE  Rows(c) = Rows(b) /\ Counted(c) = Counted(b)
<1>1. FlattenSeq(Entries(c.out)) = FlattenSeq(Entries(b.out)) \o e.entries
  <2>1. PICK s, t : s = Entries(b.out) /\ t = e.entries
    OBVIOUS
  <2>2. s \in Seq(Seq(Line)) /\ Entries(c.out) = Append(s, t) /\ t \in Seq(Line)
    BY <2>1, BufType, EntriesAppend DEF Event
  <2> QED BY <2>1, <2>2, FlattenAppend
<1>2. Rows(c) = Rows(b)
  <2>1. \A s \in Seq(Line) : s \o <<>> = s
    OBVIOUS
  <2> QED BY <1>1, <2>1, RowsType
<1>3. Reported(c.out) = Reported(b.out) + e.dropped
  BY BufType, ReportedAppend
<1>4. Counted(c) = Counted(b)
  <2>1. e.dropped \in Nat /\ b.dropped \in Nat /\ c.dropped \in Nat /\ Reported(b.out) \in Nat
    BY BufType, ReportedAppend DEF Event
  <2>2. Counted(c) = Reported(c.out) + c.dropped /\ Counted(b) = Reported(b.out) + b.dropped
    BY RowsType
  <2> QED BY <1>3, <2>1, <2>2
<1> QED BY <1>2, <1>4

\* What flush() does.
LEMMA FlushFacts ==
  ASSUME NEW b \in Buf
  PROVE  /\ Flush(b) \in Buf /\ Flush(b).pending = <<>> /\ Rows(Flush(b)) = Rows(b) /\ Counted(Flush(b)) = Counted(b)
         /\ Flush(b).carry = b.carry /\ Flush(b).emitted = b.emitted /\ Flush(b).lost = b.lost
         /\ Flush(b).inWindow = b.inWindow
         /\ \/ b.pending = <<>> /\ Flush(b).out = b.out
            \/ \E e \in Event : e.type = "log.entry" /\ e.entries = b.pending /\ Flush(b).out = Append(b.out, e)
<1>1. CASE b.pending = <<>>
  <2>1. PICK c : c = [b EXCEPT !.timer = FALSE]
    OBVIOUS
  <2>2. /\ c \in Buf /\ c.pending = <<>> /\ c.out = b.out /\ c.dropped = b.dropped /\ c.carry = b.carry
        /\ c.emitted = b.emitted /\ c.lost = b.lost /\ c.inWindow = b.inWindow
    BY <1>1, <2>1 DEF Buf
  <2>3. Rows(c) = Rows(b) /\ Counted(c) = Counted(b)
    BY <1>1, <2>2 DEF Rows, Counted
  <2>4. Flush(b) = c
    BY <1>1, <2>1 DEF Flush
  <2> QED BY <1>1, <2>2, <2>3, <2>4
<1>2. CASE b.pending # <<>>
  <2>1. PICK e : e = [type |-> "log.entry", entries |-> b.pending, dropped |-> b.dropped]
    OBVIOUS
  <2>2. e \in Event /\ e.entries = b.pending /\ e.dropped = b.dropped /\ e.type = "log.entry"
    <3>1. "log.entry" \in Types
      BY DEF Types
    <3> QED BY <2>1, <3>1, BufType, EventType
  <2>3. PICK p : p = [b EXCEPT !.out = Append(b.out, e)]
    OBVIOUS
  <2>4. PICK c : c = [p EXCEPT !.pending = <<>>, !.dropped = 0, !.cut = 0, !.timer = FALSE]
    OBVIOUS
  <2>5. Append(b.out, e) \in Seq(Event)
    BY <2>2, BufType
  <2>6. p \in Buf /\ p.out = Append(b.out, e) /\ p.carry = b.carry /\ p.emitted = b.emitted /\ p.lost = b.lost
        /\ p.inWindow = b.inWindow
    BY <2>3, <2>5 DEF Buf
  <2>7. <<>> \in Seq(Line) /\ 0 \in Nat
    OBVIOUS
  <2>8. /\ c \in Buf /\ c.out = Append(b.out, e) /\ c.carry = b.carry /\ c.emitted = b.emitted /\ c.lost = b.lost
        /\ c.inWindow = b.inWindow /\ c.pending = <<>> /\ c.dropped = 0
    BY <2>4, <2>6, <2>7 DEF Buf
  <2>9. Flush(b) = c
    BY <1>2, <2>1, <2>3, <2>4 DEF Flush, Publish
  <2>10. Rows(c) = Rows(b) /\ Counted(c) = Counted(b)
    BY <2>2, <2>8, BufType, Published
  <2> QED BY <2>2, <2>8, <2>9, <2>10
<1> QED BY <1>1, <1>2

\* What emit() of a marker or an error does.
LEMMA EmitFacts ==
  ASSUME NEW b \in Buf, NEW type \in Types, type # "log.entry"
  PROVE  /\ Emit(b, type) \in Buf /\ Emit(b, type).pending = <<>>
         /\ Rows(Emit(b, type)) = Rows(b) /\ Counted(Emit(b, type)) = Counted(b)
         /\ Emit(b, type).carry = b.carry /\ Emit(b, type).emitted = b.emitted /\ Emit(b, type).lost = b.lost
         /\ Emit(b, type).inWindow = b.inWindow
         /\ \E e \in Event : e.type = type /\ e.entries = <<>> /\ Emit(b, type).out = Append(Flush(b).out, e)
<1>1. PICK c : c = Flush(b)
  OBVIOUS
<1>2. /\ c \in Buf /\ c.pending = <<>> /\ Rows(c) = Rows(b) /\ Counted(c) = Counted(b) /\ c.carry = b.carry
      /\ c.emitted = b.emitted /\ c.lost = b.lost /\ c.inWindow = b.inWindow
  BY <1>1, FlushFacts
<1>3. PICK e : e = [type |-> type, entries |-> <<>>, dropped |-> 0]
  OBVIOUS
<1>4. <<>> \in Seq(Line)
  OBVIOUS
<1>5. e \in Event /\ e.entries = <<>> /\ e.dropped = 0 /\ e.type = type
  BY <1>3, <1>4, EventType
<1>6. Append(c.out, e) \in Seq(Event)
  BY <1>2, <1>5, BufType
<1>7. PICK d : d = [c EXCEPT !.out = Append(c.out, e)]
  OBVIOUS
<1>8. /\ d \in Buf /\ d.pending = <<>> /\ d.out = Append(c.out, e) /\ d.carry = b.carry /\ d.emitted = b.emitted
      /\ d.lost = b.lost /\ d.inWindow = b.inWindow /\ d.dropped = c.dropped
  BY <1>2, <1>6, <1>7 DEF Buf
<1>9. Rows(d) = Rows(c) /\ Counted(d) = Counted(c)
  <2>1. d.dropped + e.dropped = c.dropped
    BY <1>2, <1>5, <1>8, BufType
  <2> QED BY <1>2, <1>5, <1>8, <2>1, Published
<1>10. Emit(b, type) = d
  BY <1>1, <1>3, <1>7 DEF Emit, Publish
<1> QED BY <1>1, <1>2, <1>5, <1>8, <1>9, <1>10

-----------------------------------------------------------------------------
(* Where lines come from.  A later file, or the same file after it was      *)
(* truncated, is a later origin.                                            *)

Before(o, p) == o.ino < p.ino \/ (o.ino = p.ino /\ o.epoch < p.epoch)
UpTo(o, p) == o = p \/ Before(o, p)

LEMMA BeforeFacts ==
  ASSUME NEW o \in Origins, NEW p \in Origins, NEW q \in Origins
  PROVE  ~Before(o, o) /\ (UpTo(o, p) /\ Before(p, q) => Before(o, q))
<1>1. /\ o.ino \in Int /\ p.ino \in Int /\ q.ino \in Int
      /\ o.epoch \in Int /\ p.epoch \in Int /\ q.epoch \in Int
  BY Constants DEF Origins
<1> QED BY <1>1 DEF Before, UpTo

\* No line comes from a later origin than o.
Past(b, o) ==
  /\ \A l \in ToSet(Rows(b)) \cup ToSet(b.lost) \cup ToSet(b.pending) : UpTo(l.of, o)
  /\ \A k \in DOMAIN b.out : \A l \in ToSet(b.out[k].entries) : UpTo(l.of, o)

\* A marker has lines of other origins before it than after it, and than o.
Ahead(b, k) == {l \in Line : \E i \in DOMAIN b.out : i < k /\ l \in ToSet(b.out[i].entries)}
After(b, k) ==
  ToSet(b.pending) \cup {l \in Line : \E j \in DOMAIN b.out : k < j /\ l \in ToSet(b.out[j].entries)}
IsMark(e) == e.type \in {"log.rotated", "log.truncated"}
Parted(b, o) ==
  \A k \in DOMAIN b.out : IsMark(b.out[k]) =>
    \A a \in Ahead(b, k) : Before(a.of, o) /\ \A c \in After(b, k) : a.of # c.of

LEMMA SetOfAppend ==
  ASSUME NEW S, NEW s \in Seq(S), NEW e \in S
  PROVE  ToSet(Append(s, e)) = ToSet(s) \cup {e} /\ ToSet(s) \subseteq S /\ ToSet(<<>>) = {}
<1>1. /\ Append(s, e) \in Seq(S) /\ DOMAIN Append(s, e) = 1 .. Len(s) + 1 /\ DOMAIN s = 1 .. Len(s)
      /\ Append(s, e)[Len(s) + 1] = e /\ \A k \in 1 .. Len(s) : Append(s, e)[k] = s[k]
      /\ Len(s) \in Nat
  OBVIOUS
<1>2. PICK t : t = Append(s, e)
  OBVIOUS
<1>3. ToSet(t) \subseteq ToSet(s) \cup {e}
  BY <1>1, <1>2 DEF ToSet
<1>4. ToSet(s) \cup {e} \subseteq ToSet(t)
  <2>1. ASSUME NEW x \in ToSet(s) PROVE x \in ToSet(t)
    <3>1. PICK k \in 1 .. Len(s) : x = s[k]
      BY <1>1 DEF ToSet
    <3>2. k \in DOMAIN t /\ t[k] = x
      BY <1>1, <1>2, <3>1
    <3> QED BY <3>2 DEF ToSet
  <2>2. Len(s) + 1 \in DOMAIN t /\ t[Len(s) + 1] = e
    BY <1>1, <1>2
  <2> QED BY <2>1, <2>2 DEF ToSet
<1>5. ToSet(s) \subseteq S /\ ToSet(<<>>) = {}
  BY DEF ToSet
<1> QED BY <1>2, <1>3, <1>4, <1>5

LEMMA SetOfLines ==
  ASSUME NEW s \in Seq(Line)
  PROVE  ToSet(s) \subseteq Line
BY DEF ToSet

LEMMA EventAt ==
  ASSUME NEW out \in Seq(Event), NEW e \in Event, NEW all, all = Append(out, e)
  PROVE  /\ DOMAIN out = 1 .. Len(out) /\ DOMAIN all = 1 .. Len(out) + 1 /\ Len(out) \in Nat
         /\ all[Len(out) + 1] = e /\ \A k \in 1 .. Len(out) : all[k] = out[k]
         /\ \A k \in 1 .. Len(out) : ToSet(out[k].entries) \subseteq Line
         /\ ToSet(e.entries) \subseteq Line
<1>1. \A k \in 1 .. Len(out) : out[k] \in Event
  OBVIOUS
<1>2. \A f \in Event : f.entries \in Seq(Line)
  BY DEF Event
<1>3. \A s \in Seq(Line) : ToSet(s) \subseteq Line
  BY DEF ToSet
<1> QED BY <1>1, <1>2, <1>3

\* An event that is no marker, and takes the batch with it.
LEMMA PublishedPast ==
  ASSUME NEW b \in Buf, NEW c \in Buf, NEW e \in Event, c.out = Append(b.out, e), b.pending = e.entries,
         c.pending = <<>>, c.lost = b.lost, Rows(c) = Rows(b), NEW o \in Origins
  PROVE  /\ Past(b, o) => Past(c, o)
         /\ ~IsMark(e) /\ Parted(b, o) => Parted(c, o)
         /\ \A p \in Origins : Past(b, o) /\ Parted(b, o) /\ Before(o, p) => Past(c, p) /\ Parted(c, p)
<1>1. PICK m, s, t : m = Len(b.out) /\ s = b.out /\ t = c.out
  OBVIOUS
<1>2. /\ DOMAIN s = 1 .. m /\ DOMAIN t = 1 .. m + 1 /\ m \in Nat
      /\ t[m + 1] = e /\ \A k \in 1 .. m : t[k] = s[k] /\ ToSet(s[k].entries) \subseteq Line
      /\ ToSet(e.entries) \subseteq Line
  <2>1. s \in Seq(Event) /\ t = Append(s, e)
    BY <1>1, BufType
  <2> QED BY <1>1, <2>1, EventAt
<1>3. ToSet(c.pending) = {} /\ ToSet(b.pending) = ToSet(e.entries)
  BY DEF ToSet
<1>4. Past(b, o) => Past(c, o)
  <2> SUFFICES ASSUME Past(b, o) PROVE Past(c, o)
    OBVIOUS
  <2>1. \A k \in DOMAIN t : \A l \in ToSet(t[k].entries) : UpTo(l.of, o)
    <3> SUFFICES ASSUME NEW k \in DOMAIN t, NEW l \in ToSet(t[k].entries) PROVE UpTo(l.of, o)
      OBVIOUS
    <3>1. CASE k = m + 1
      BY <1>2, <1>3, <3>1 DEF Past
    <3>2. CASE k # m + 1
      BY <1>1, <1>2, <3>2 DEF Past
    <3> QED BY <3>1, <3>2
  <2> QED BY <1>1, <1>3, <2>1 DEF Past
<1>5. ASSUME NEW k \in 1 .. m PROVE Ahead(c, k) = Ahead(b, k) /\ After(c, k) \subseteq After(b, k)
  <2>1. Ahead(c, k) = Ahead(b, k)
    BY <1>1, <1>2 DEF Ahead
  <2>2. ASSUME NEW l \in After(c, k) PROVE l \in After(b, k)
    <3>1. PICK j \in 1 .. m + 1 : k < j /\ l \in ToSet(t[j].entries) /\ l \in Line
      BY <1>1, <1>2, <1>3 DEF After
    <3>2. CASE j = m + 1
      BY <1>2, <1>3, <3>1, <3>2 DEF After
    <3>3. CASE j # m + 1
      BY <1>1, <1>2, <3>1, <3>3 DEF After
    <3> QED BY <3>2, <3>3
  <2> QED BY <2>1, <2>2
<1>6. ~IsMark(e) /\ Parted(b, o) => Parted(c, o)
  <2> SUFFICES ASSUME ~IsMark(e), Parted(b, o), NEW k \in 1 .. m + 1, IsMark(t[k]), NEW a \in Ahead(c, k)
               PROVE  Before(a.of, o) /\ \A x \in After(c, k) : a.of # x.of
    BY <1>1, <1>2 DEF Parted
  <2>1. k \in 1 .. m /\ IsMark(s[k])
    BY <1>2
  <2> QED BY <1>1, <1>2, <1>5, <2>1 DEF Parted
<1>7. ASSUME NEW p \in Origins, Past(b, o), Parted(b, o), Before(o, p) PROVE Past(c, p) /\ Parted(c, p)
  <2>1. ASSUME NEW q \in Line, UpTo(q.of, o) PROVE Before(q.of, p)
    <3>1. q.of \in Origins
      BY LineType
    <3> QED BY <1>7, <2>1, <3>1, BeforeFacts
  <2>2. /\ ToSet(Rows(c)) \cup ToSet(c.lost) \cup ToSet(c.pending) \subseteq Line
        /\ \A k \in 1 .. m + 1 : ToSet(t[k].entries) \subseteq Line
    <3>1. /\ ToSet(Rows(c)) \subseteq Line /\ ToSet(c.lost) \subseteq Line /\ ToSet(c.pending) \subseteq Line
      <4>1. Rows(c) \in Seq(Line) /\ c.lost \in Seq(Line) /\ c.pending \in Seq(Line)
        BY BufType, RowsType
      <4> QED BY <4>1, SetOfLines
    <3>2. \A k \in 1 .. m + 1 : ToSet(t[k].entries) \subseteq Line
      BY <1>2
    <3> QED BY <3>1, <3>2
  <2>3. Past(c, o)
    BY <1>4, <1>7
  <2>4. Past(c, p)
    BY <1>1, <1>2, <2>1, <2>2, <2>3 DEF Past, UpTo
  <2>5. ASSUME NEW k \in 1 .. m + 1, IsMark(t[k]), NEW a \in Ahead(c, k)
        PROVE  Before(a.of, p) /\ \A x \in After(c, k) : a.of # x.of
    <3>1. PICK i \in 1 .. m : i < k /\ a \in ToSet(s[i].entries) /\ a \in Line
      BY <1>1, <1>2 DEF Ahead
    <3>2. Before(a.of, p)
      BY <1>1, <1>2, <1>7, <2>1, <3>1 DEF Past
    <3>3. CASE k = m + 1
      <4>1. After(c, k) = {}
        BY <1>1, <1>2, <1>3, <3>3 DEF After
      <4> QED BY <3>2, <4>1
    <3>4. CASE k # m + 1
      <4>1. k \in 1 .. m /\ IsMark(s[k])
        BY <1>2, <2>5, <3>4
      <4> QED BY <1>1, <1>2, <1>5, <1>7, <2>5, <3>2, <4>1 DEF Parted
    <3> QED BY <3>3, <3>4
  <2> QED BY <1>1, <1>2, <2>4, <2>5 DEF Parted
<1> QED BY <1>4, <1>6, <1>7

LEMMA SameLines ==
  ASSUME NEW b \in Buf, NEW c \in Buf, c.out = b.out, c.pending = b.pending, c.lost = b.lost, NEW o
  PROVE  /\ Rows(c) = Rows(b) /\ (Past(b, o) => Past(c, o)) /\ (Parted(b, o) => Parted(c, o))
<1>1. Rows(c) = Rows(b)
  BY DEF Rows
<1>2. \A k : Ahead(c, k) = Ahead(b, k) /\ After(c, k) = After(b, k)
  BY DEF Ahead, After
<1> QED BY <1>1, <1>2 DEF Past, Parted

LEMMA FlushPast ==
  ASSUME NEW b \in Buf, NEW o \in Origins
  PROVE  (Past(b, o) => Past(Flush(b), o)) /\ (Parted(b, o) => Parted(Flush(b), o))
<1>1. PICK c : c = Flush(b)
  OBVIOUS
<1>2. c \in Buf /\ c.pending = <<>> /\ Rows(c) = Rows(b) /\ c.lost = b.lost
  BY <1>1, FlushFacts
<1>3. CASE b.pending = <<>> /\ c.out = b.out
  BY <1>1, <1>2, <1>3, SameLines
<1>4. CASE \E e \in Event : e.type = "log.entry" /\ e.entries = b.pending /\ c.out = Append(b.out, e)
  <2>1. PICK e \in Event : e.type = "log.entry" /\ e.entries = b.pending /\ c.out = Append(b.out, e)
    BY <1>4
  <2>2. ~IsMark(e)
    BY <2>1 DEF IsMark
  <2> QED BY <1>1, <1>2, <2>1, <2>2, PublishedPast
<1> QED BY <1>1, <1>3, <1>4, FlushFacts

LEMMA EmitPast ==
  ASSUME NEW b \in Buf, NEW o \in Origins, NEW type \in Types, type # "log.entry"
  PROVE  /\ type \notin {"log.rotated", "log.truncated"} =>
              (Past(b, o) => Past(Emit(b, type), o)) /\ (Parted(b, o) => Parted(Emit(b, type), o))
         /\ \A p \in Origins : Past(b, o) /\ Parted(b, o) /\ Before(o, p) =>
              Past(Emit(b, type), p) /\ Parted(Emit(b, type), p)
<1>1. PICK c, d : c = Flush(b) /\ d = Emit(b, type)
  OBVIOUS
<1>2. /\ c \in Buf /\ c.pending = <<>> /\ c.lost = b.lost /\ Rows(c) = Rows(b)
      /\ (Past(b, o) => Past(c, o)) /\ (Parted(b, o) => Parted(c, o))
  BY <1>1, FlushFacts, FlushPast
<1>3. d \in Buf /\ d.pending = <<>> /\ d.lost = b.lost /\ Rows(d) = Rows(b)
  BY <1>1, EmitFacts
<1>4. PICK e \in Event : e.type = type /\ e.entries = <<>> /\ d.out = Append(c.out, e)
  BY <1>1, EmitFacts
<1>5. IsMark(e) <=> type \in {"log.rotated", "log.truncated"}
  BY <1>4 DEF IsMark
<1>6. /\ Past(c, o) => Past(d, o)
      /\ ~IsMark(e) /\ Parted(c, o) => Parted(d, o)
      /\ \A p \in Origins : Past(c, o) /\ Parted(c, o) /\ Before(o, p) => Past(d, p) /\ Parted(d, p)
  BY <1>2, <1>3, <1>4, PublishedPast
<1> QED BY <1>1, <1>2, <1>5, <1>6

\* What is read next comes from a later origin, without a marker.
LEMMA LaterOrigin ==
  ASSUME NEW b \in Buf, NEW o \in Origins, NEW p \in Origins, Past(b, o), Parted(b, o), Before(o, p)
  PROVE  Past(b, p) /\ Parted(b, p)
<1>1. ASSUME NEW l \in Line, UpTo(l.of, o) PROVE Before(l.of, p)
  <2>1. l.of \in Origins
    BY LineType
  <2> QED BY <1>1, <2>1, BeforeFacts
<1>2. ToSet(Rows(b)) \subseteq Line /\ ToSet(b.lost) \subseteq Line /\ ToSet(b.pending) \subseteq Line
  <2>1. Rows(b) \in Seq(Line) /\ b.lost \in Seq(Line) /\ b.pending \in Seq(Line)
    BY BufType, RowsType
  <2> QED BY <2>1, SetOfLines
<1>3. \A k \in DOMAIN b.out : ToSet(b.out[k].entries) \subseteq Line
  <2>1. \A k \in DOMAIN b.out : b.out[k] \in Event
    BY BufType
  <2>2. \A e \in Event : e.entries \in Seq(Line)
    BY DEF Event
  <2> QED BY <2>1, <2>2, SetOfLines
<1>4. Past(b, p)
  BY <1>1, <1>2, <1>3 DEF Past, UpTo
<1>5. \A k \in DOMAIN b.out : \A a \in Ahead(b, k) : Before(a.of, p)
  BY <1>1, <1>3 DEF Past, Ahead
<1> QED BY <1>4, <1>5 DEF Parted

LEMMA RewindFacts ==
  ASSUME NEW b \in Buf, NEW o
  PROVE  /\ Rewind(b) \in Buf /\ Rewind(b).carry = 0 /\ Rewind(b).emitted = 0 /\ Rewind(b).out = b.out
         /\ Rewind(b).pending = b.pending /\ Rewind(b).lost = b.lost /\ Rewind(b).inWindow = b.inWindow
         /\ Rows(Rewind(b)) = Rows(b) /\ Counted(Rewind(b)) = Counted(b)
         /\ (Past(b, o) => Past(Rewind(b), o)) /\ (Parted(b, o) => Parted(Rewind(b), o))
<1>1. PICK c : c = Rewind(b)
  OBVIOUS
<1>2. /\ c \in Buf /\ c.carry = 0 /\ c.emitted = 0 /\ c.out = b.out /\ c.pending = b.pending
      /\ c.lost = b.lost /\ c.inWindow = b.inWindow /\ c.dropped = b.dropped
  <2>1. 0 \in 0 .. MaxLine /\ 0 \in Nat
    BY Constants
  <2> QED BY <1>1, <2>1 DEF Rewind, Buf
<1>3. Counted(c) = Counted(b)
  BY <1>2 DEF Counted
<1> QED BY <1>1, <1>2, <1>3, SameLines

\* The lines of o that were kept and that were lost: where they end.
Sorted(b, o) ==
  /\ Ascend(Rows(b), o) /\ Ascend(b.lost, o)
  /\ Ends(Rows(b), o) \cap Ends(b.lost, o) = {}
  /\ \A e \in Ends(Rows(b), o) \cup Ends(b.lost, o) : e <= b.emitted
Read(b, o) == Ends(Rows(b), o) \cup Ends(b.lost, o)

LEMMA NothingRead ==
  ASSUME NEW b \in Buf, NEW o \in Origins, NEW p \in Origins, Past(b, o), Before(o, p)
  PROVE  Sorted(b, p) /\ Read(b, p) = {}
<1>1. Rows(b) \in Seq(Line) /\ b.lost \in Seq(Line)
  BY BufType, RowsType
<1>2. \A l \in ToSet(Rows(b)) \cup ToSet(b.lost) : l.of # p
  <2> SUFFICES ASSUME NEW l \in ToSet(Rows(b)) \cup ToSet(b.lost) PROVE l.of # p
    OBVIOUS
  <2>1. l \in Line /\ l.of \in Origins
    BY <1>1, SetOfLines, LineType
  <2>2. UpTo(l.of, o)
    BY DEF Past
  <2> QED BY <2>1, <2>2, BeforeFacts
<1>3. Ends(Rows(b), p) = {} /\ Ends(b.lost, p) = {}
  BY <1>2 DEF Ends
<1>4. Ascend(Rows(b), p) /\ Ascend(b.lost, p)
  BY <1>2 DEF Ascend, ToSet
<1> QED BY <1>3, <1>4 DEF Sorted, Read

LEMMA EndsAppend ==
  ASSUME NEW lines \in Seq(Line), NEW x \in Line
  PROVE  /\ Ends(Append(lines, x), x.of) = Ends(lines, x.of) \cup {x.at}
         /\ Ascend(lines, x.of) /\ (\A e \in Ends(lines, x.of) : e < x.at) => Ascend(Append(lines, x), x.of)
<1>1. PICK o, all, m : o = x.of /\ all = Append(lines, x) /\ m = Len(lines)
  OBVIOUS
<1>2. /\ DOMAIN all = 1 .. m + 1 /\ DOMAIN lines = 1 .. m /\ all[m + 1] = x /\ m \in Nat
      /\ \A k \in 1 .. m : all[k] = lines[k]
  BY <1>1
<1>3. Ends(all, o) = Ends(lines, o) \cup {x.at}
  <2>1. ToSet(all) = ToSet(lines) \cup {x}
    BY <1>1, SetOfAppend
  <2> QED BY <1>1, <2>1 DEF Ends
<1>4. ASSUME Ascend(lines, o), \A e \in Ends(lines, o) : e < x.at PROVE Ascend(all, o)
  <2> SUFFICES ASSUME NEW j \in 1 .. m + 1, NEW k \in 1 .. m + 1, j < k, all[j].of = o, all[k].of = o
               PROVE  all[j].at < all[k].at
    BY <1>2 DEF Ascend
  <2>1. j \in 1 .. m /\ all[j] = lines[j]
    BY <1>2
  <2>2. CASE k = m + 1
    <3>1. lines[j].at \in Ends(lines, o)
      BY <1>2, <2>1 DEF Ends, ToSet
    <3> QED BY <1>2, <1>4, <2>1, <2>2, <3>1
  <2>3. CASE k # m + 1
    <3>1. k \in 1 .. m /\ all[k] = lines[k]
      BY <1>2, <2>3
    <3> QED BY <1>2, <1>4, <2>1, <3>1 DEF Ascend
  <2> QED BY <2>2, <2>3
<1> QED BY <1>1, <1>3, <1>4

LEMMA EndsType ==
  ASSUME NEW lines \in Seq(Line), NEW o
  PROVE  Ends(lines, o) \subseteq Nat
<1>1. \A l \in ToSet(lines) : l.at \in Nat
  BY SetOfLines, LineType
<1> QED BY <1>1 DEF Ends

\* A line is kept, in the batch, or lost.
Joins(b, d, x) ==
  \/ Rows(d) = Append(Rows(b), x) /\ d.lost = b.lost /\ Counted(d) = Counted(b)
  \/ Rows(d) = Rows(b) /\ d.lost = Append(b.lost, x) /\ Counted(d) = Counted(b) + 1

LEMMA JoinsSorted ==
  ASSUME NEW b \in Buf, NEW d \in Buf, NEW x \in Line, Joins(b, d, x), d.emitted = x.at
  PROVE  /\ Counted(b) = Len(b.lost) => Counted(d) = Len(d.lost)
         /\ Sorted(b, x.of) /\ b.emitted < x.at => Sorted(d, x.of) /\ Read(d, x.of) = Read(b, x.of) \cup {x.at}
<1>1. PICK r, s, l, m, o : /\ r = Rows(b) /\ s = Rows(d) /\ l = b.lost /\ m = d.lost /\ o = x.of
  OBVIOUS
<1>2. /\ r \in Seq(Line) /\ l \in Seq(Line) /\ Counted(b) \in Nat /\ x.at \in Nat /\ b.emitted \in Nat
      /\ \/ s = Append(r, x) /\ m = l /\ Counted(d) = Counted(b)
         \/ s = r /\ m = Append(l, x) /\ Counted(d) = Counted(b) + 1
  BY <1>1, BufType, RowsType, LineType DEF Joins
<1>3. Counted(b) = Len(l) => Counted(d) = Len(m)
  BY <1>2
<1>4. ASSUME Sorted(b, o), b.emitted < x.at PROVE Sorted(d, o) /\ Read(d, o) = Read(b, o) \cup {x.at}
  <2>1. /\ Ascend(r, o) /\ Ascend(l, o) /\ Ends(r, o) \cap Ends(l, o) = {}
        /\ \A e \in Ends(r, o) \cup Ends(l, o) : e \in Nat /\ e < x.at
    <3>1. \A e \in Ends(r, o) \cup Ends(l, o) : e \in Nat /\ e <= b.emitted
      BY <1>1, <1>2, <1>4, EndsType DEF Sorted
    <3> QED BY <1>1, <1>2, <1>4, <3>1 DEF Sorted
  <2>2. CASE s = Append(r, x) /\ m = l
    <3>1. Ends(s, o) = Ends(r, o) \cup {x.at} /\ Ascend(s, o)
      BY <1>1, <1>2, <2>1, <2>2, EndsAppend
    <3>2. x.at \notin Ends(l, o)
      BY <1>2, <2>1
    <3>3. \A e \in Ends(s, o) \cup Ends(m, o) : e <= x.at
      BY <1>2, <2>1, <2>2, <3>1
    <3> QED BY <1>1, <2>1, <2>2, <3>1, <3>2, <3>3 DEF Sorted, Read
  <2>3. CASE s = r /\ m = Append(l, x)
    <3>1. Ends(m, o) = Ends(l, o) \cup {x.at} /\ Ascend(m, o)
      BY <1>1, <1>2, <2>1, <2>3, EndsAppend
    <3>2. x.at \notin Ends(r, o)
      BY <1>2, <2>1
    <3>3. \A e \in Ends(s, o) \cup Ends(m, o) : e <= x.at
      BY <1>2, <2>1, <2>3, <3>1
    <3> QED BY <1>1, <2>1, <2>3, <3>1, <3>2, <3>3 DEF Sorted, Read
  <2> QED BY <1>2, <2>2, <2>3
<1> QED BY <1>1, <1>3, <1>4

LEMMA EnqueueFacts ==
  ASSUME NEW b \in Buf, Len(b.pending) < BatchMax, NEW line \in Piece, NEW o \in Origins,
         NEW x, x = [of |-> o, at |-> line.at]
  PROVE  LET d == Enqueue(b, line, o)
         IN /\ d \in Buf /\ Len(d.pending) < BatchMax /\ d.carry = b.carry /\ d.emitted = line.at
            /\ x \in Line /\ Joins(b, d, x)
            /\ (Past(b, o) => Past(d, o)) /\ (Parted(b, o) => Parted(d, o))
<1>1. x \in Line /\ x.of = o /\ x.at = line.at /\ line.at \in Nat
  BY LineType DEF Piece
<1>2. PICK c : c = [b EXCEPT !.emitted = line.at, !.cut = @ + (IF line.cut THEN 1 ELSE 0)]
  OBVIOUS
<1>3. /\ c \in Buf /\ c.emitted = line.at /\ c.carry = b.carry /\ c.out = b.out /\ c.pending = b.pending
      /\ c.lost = b.lost /\ c.dropped = b.dropped /\ c.inWindow = b.inWindow
  <2>1. b.cut + (IF line.cut THEN 1 ELSE 0) \in Nat
    BY BufType
  <2> QED BY <1>1, <1>2, <2>1 DEF Buf
<1>4. /\ Rows(c) = Rows(b) /\ (Past(b, o) => Past(c, o)) /\ (Parted(b, o) => Parted(c, o)) /\ Counted(c) = Counted(b)
  <2>1. Counted(c) = Counted(b)
    BY <1>3 DEF Counted
  <2> QED BY <1>3, <2>1, SameLines
<1>5. PICK r : r = Rows(b)
  OBVIOUS
<1>6. r \in Seq(Line) /\ c.lost \in Seq(Line) /\ c.pending \in Seq(Line) /\ c.inWindow \in Nat /\ c.dropped \in Nat
  <2>1. r \in Seq(Line)
    BY <1>5, RowsType
  <2>2. c.lost \in Seq(Line) /\ c.pending \in Seq(Line) /\ c.inWindow \in 0 .. MaxRate /\ c.dropped \in Nat
    BY <1>3, BufType
  <2>3. c.inWindow \in Nat
    BY <2>2, Constants
  <2> QED BY <2>1, <2>2, <2>3
<1>7. CASE c.inWindow >= MaxRate
  <2>1. PICK d : d = [c EXCEPT !.dropped = @ + 1, !.lost = Append(@, x)]
    OBVIOUS
  <2>2. Append(c.lost, x) \in Seq(Line) /\ c.dropped + 1 \in Nat
    BY <1>1, <1>6
  <2>3. /\ d \in Buf /\ d.emitted = line.at /\ d.carry = b.carry /\ d.out = b.out /\ d.pending = b.pending
        /\ d.lost = Append(b.lost, x) /\ d.dropped = b.dropped + 1
    BY <1>3, <2>1, <2>2 DEF Buf
  <2>4. Rows(d) = Rows(b)
    BY <2>3 DEF Rows
  <2>5. Counted(d) = Counted(b) + 1
    <3>1. /\ Counted(d) = Reported(d.out) + d.dropped /\ Counted(b) = Reported(b.out) + b.dropped
          /\ b.dropped \in Nat
      BY <2>3, RowsType, BufType
    <3>2. Reported(b.out) \in Nat
      <4>1. PICK e : e = [type |-> "log.entry", entries |-> <<>>, dropped |-> 0]
        OBVIOUS
      <4>2. e \in Event
        <5>1. "log.entry" \in Types /\ <<>> \in Seq(Line)
          BY DEF Types
        <5> QED BY <4>1, <5>1, EventType
      <4> QED BY <4>2, BufType, ReportedAppend
    <3> QED BY <2>3, <3>1, <3>2
  <2>6. Past(b, o) => Past(d, o)
    <3>1. ToSet(d.lost) = ToSet(b.lost) \cup {x}
      BY <1>1, <2>3, BufType, SetOfAppend
    <3>2. UpTo(x.of, o)
      BY <1>1 DEF UpTo
    <3> QED BY <2>3, <2>4, <3>1, <3>2 DEF Past
  <2>7. Parted(b, o) => Parted(d, o)
    BY <2>3 DEF Parted, Ahead, After
  <2>8. Enqueue(b, line, o) = d
    BY <1>2, <1>7, <2>1 DEF Enqueue
  <2> QED BY <1>1, <2>3, <2>4, <2>5, <2>6, <2>7, <2>8 DEF Joins
<1>8. CASE ~(c.inWindow >= MaxRate)
  <2>1. PICK d : d = [c EXCEPT !.inWindow = @ + 1, !.timer = TRUE, !.pending = Append(@, x)]
    OBVIOUS
  <2>2. Append(c.pending, x) \in Seq(Line) /\ c.inWindow + 1 \in 0 .. MaxRate
    BY <1>1, <1>6, <1>8, Constants
  <2>3. /\ d \in Buf /\ d.emitted = line.at /\ d.carry = b.carry /\ d.out = b.out
        /\ d.pending = Append(b.pending, x) /\ d.lost = b.lost /\ d.dropped = b.dropped
    BY <1>3, <2>1, <2>2 DEF Buf
  <2>4. Rows(d) = Append(r, x)
    <3>1. PICK f, p : f = FlattenSeq(Entries(b.out)) /\ p = b.pending
      OBVIOUS
    <3>2. f \in Seq(Line) /\ p \in Seq(Line) /\ r = f \o p /\ Rows(d) = f \o Append(p, x)
      BY <1>5, <2>3, <3>1, RowsType, BufType
    <3> QED BY <1>1, <3>2, AppendToBoth
  <2>5. Counted(d) = Counted(b)
    BY <2>3 DEF Counted
  <2>6. ToSet(Rows(d)) = ToSet(r) \cup {x} /\ ToSet(d.pending) = ToSet(b.pending) \cup {x} /\ UpTo(x.of, o)
    BY <1>1, <1>6, <2>3, <2>4, BufType, SetOfAppend DEF UpTo
  <2>7. Past(b, o) => Past(d, o)
    BY <1>5, <2>3, <2>6 DEF Past
  <2>8. Parted(b, o) => Parted(d, o)
    <3>1. \A k : Ahead(d, k) = Ahead(b, k) /\ After(d, k) = After(b, k) \cup {x}
      BY <2>3, <2>6 DEF Ahead, After
    <3>2. \A k : \A a \in Ahead(b, k) : Before(a.of, o) => a.of # x.of
      <4> SUFFICES ASSUME NEW a \in Line, Before(a.of, o) PROVE a.of # x.of
        BY DEF Ahead
      <4>1. a.of \in Origins
        BY LineType
      <4> QED BY <1>1, <4>1, BeforeFacts
    <3> QED BY <2>3, <3>1, <3>2 DEF Parted
  <2>9. Joins(b, d, x)
    BY <1>5, <2>3, <2>4, <2>5 DEF Joins
  <2>10. CASE Len(d.pending) >= BatchMax
    <3>1. PICK e : e = Flush(d)
      OBVIOUS
    <3>2. /\ e \in Buf /\ e.pending = <<>> /\ Rows(e) = Rows(d) /\ Counted(e) = Counted(d) /\ e.lost = d.lost
          /\ e.carry = d.carry /\ e.emitted = d.emitted
          /\ (Past(d, o) => Past(e, o)) /\ (Parted(d, o) => Parted(e, o))
      BY <2>3, <3>1, FlushFacts, FlushPast
    <3>3. Len(e.pending) < BatchMax
      BY <3>2, Constants
    <3>4. Enqueue(b, line, o) = e
      BY <1>2, <1>8, <2>1, <2>10, <3>1 DEF Enqueue
    <3>5. Joins(b, e, x)
      BY <2>9, <3>2 DEF Joins
    <3> QED BY <1>1, <2>3, <2>7, <2>8, <3>2, <3>3, <3>4, <3>5
  <2>11. CASE ~(Len(d.pending) >= BatchMax)
    <3>1. Enqueue(b, line, o) = d
      BY <1>2, <1>8, <2>1, <2>11 DEF Enqueue
    <3>2. Len(d.pending) < BatchMax
      BY <2>3, <2>11, BufType, Constants
    <3> QED BY <1>1, <2>3, <2>7, <2>8, <2>9, <3>1, <3>2
  <2> QED BY <2>10, <2>11
<1> QED BY <1>7, <1>8

Batch == {b \in Buf : Len(b.pending) < BatchMax}

LEMMA QueueSteps ==
  ASSUME NEW b \in Batch, NEW lines \in Seq(Piece), NEW o \in Origins
  PROVE  /\ Queue(b, lines, o) \in [0 .. Len(lines) -> Batch] /\ Queue(b, lines, o)[0] = b
         /\ \A n \in 1 .. Len(lines) :
              Queue(b, lines, o)[n] = Enqueue(Queue(b, lines, o)[n - 1], lines[n], o)
<1>m. PICK m : m = Len(lines)
  OBVIOUS
<1>s. PICK step : step = [n \in 1 .. m |-> [c \in Batch |-> Enqueue(c, lines[n], o)]]
  OBVIOUS
<1>0. ASSUME NEW c \in Batch, NEW line \in Piece PROVE Enqueue(c, line, o) \in Batch
  <2>1. PICK x : x = [of |-> o, at |-> line.at]
    OBVIOUS
  <2>2. c \in Buf /\ Len(c.pending) < BatchMax
    BY DEF Batch
  <2>3. PICK d : d = Enqueue(c, line, o)
    OBVIOUS
  <2>4. d \in Buf /\ Len(d.pending) < BatchMax
    BY <2>1, <2>2, <2>3, EnqueueFacts
  <2> QED BY <2>3, <2>4 DEF Batch
<1>1. m \in Nat /\ \A n \in 1 .. m : lines[n] \in Piece
  BY <1>m
<1>2. step \in [1 .. m -> [Batch -> Batch]]
  BY <1>s, <1>0, <1>1
<1>3. PICK f \in [0 .. m -> Batch] : Steps(f, m, b, step)
  BY <1>1, <1>2, Iteration
<1>4. f = [n \in 0 .. m |-> IF n = 0 THEN b ELSE Enqueue(f[n - 1], lines[n], o)]
  <2>1. \A n \in 0 .. m : f[n] = IF n = 0 THEN b ELSE Enqueue(f[n - 1], lines[n], o)
    <3> SUFFICES ASSUME NEW n \in 0 .. m, n # 0 PROVE step[n][f[n-1]] = Enqueue(f[n - 1], lines[n], o)
      BY <1>3 DEF Steps
    <3>1. n \in 1 .. m /\ n - 1 \in 0 .. m
      BY <1>1
    <3> QED BY <3>1, <1>s
  <2> QED BY <2>1
<1>5. PICK g : g = Queue(b, lines, o)
  OBVIOUS
<1>6. g = [n \in 0 .. m |-> IF n = 0 THEN b ELSE Enqueue(g[n - 1], lines[n], o)]
  <2>1. g = CHOOSE h : h = [n \in 0 .. m |-> IF n = 0 THEN b ELSE Enqueue(h[n - 1], lines[n], o)]
    BY <1>m, <1>5 DEF Queue
  <2> QED BY <1>4, <2>1
<1>7. 0 .. m \subseteq {n \in 0 .. m : g[n] \in Batch}
  <2>1. \A n \in 1 .. m : g[n - 1] \in Batch => g[n] \in Batch
    <3> SUFFICES ASSUME NEW n \in 1 .. m, g[n - 1] \in Batch PROVE g[n] \in Batch
      OBVIOUS
    <3>1. g[n] = Enqueue(g[n - 1], lines[n], o) /\ lines[n] \in Piece
      BY <1>1, <1>6
    <3> QED BY <1>0, <3>1
  <2>2. PICK S : S = {n \in 0 .. m : g[n] \in Batch}
    OBVIOUS
  <2>3. 0 \in S /\ \A n \in 1 .. m : n - 1 \in S => n \in S
    <3>1. g[0] \in Batch /\ 0 \in 0 .. m
      BY <1>1, <1>6
    <3> HIDE <1>6
    <3> QED BY <1>1, <2>1, <2>2, <3>1
  <2> QED BY <1>1, <2>2, <2>3, Climb
<1>8. g \in [0 .. m -> Batch]
  BY <1>6, <1>7
<1>9. \A n \in 1 .. m : n \in 0 .. m /\ g[n] = Enqueue(g[n - 1], lines[n], o)
  BY <1>1, <1>6
<1>10. g[0] = b
  <2>1. 0 \in 0 .. m
    BY <1>1
  <2> QED BY <1>6, <2>1
<1> QED BY <1>m, <1>5, <1>8, <1>9, <1>10

\* What a chunk does to the buffer: its lines join, and the rest is carried.
LEMMA DeliverFacts ==
  ASSUME NEW b \in Batch, NEW cells \in Seq(BOOLEAN), NEW o \in Origins, NEW fresh \in BOOLEAN,
         NEW s, s = Push(b.carry, b.emitted, cells), NEW d, d = Deliver(b, cells, o, fresh)
  PROVE  /\ d \in Batch /\ s \in Split /\ d.carry = s.carry /\ d.emitted = s.at
         /\ s.at + s.carry = b.emitted + b.carry + Len(cells)
         /\ (Past(b, o) => Past(d, o)) /\ (Parted(b, o) => Parted(d, o))
         /\ (Counted(b) = Len(b.lost) => Counted(d) = Len(d.lost))
         /\ Sorted(b, o) => Sorted(d, o) /\ Read(d, o) = Read(b, o) \cup {l.at : l \in ToSet(s.lines)}
<1>1. b \in Buf /\ Len(b.pending) < BatchMax /\ b.carry \in 0 .. MaxLine /\ b.emitted \in Nat /\ Len(cells) \in Nat
  BY BufType DEF Batch
<1>2. /\ s \in Split /\ s.at + s.carry = b.emitted + b.carry + Len(cells)
      /\ Climbs(s.lines, b.emitted, s.at)
  <2>1. Len(cells) \in 0 .. Len(cells)
    BY <1>1
  <2>2. PICK f, c, a : f = Splits(b.carry, b.emitted, cells) /\ c = b.carry /\ a = b.emitted
    OBVIOUS
  <2>3. s = f[Len(cells)]
    BY <2>2 DEF Push
  <2>4. PICK k, t : k = Len(cells) /\ t = f[k]
    OBVIOUS
  <2>5. c \in 0 .. MaxLine /\ a \in Nat /\ k \in 0 .. Len(cells) /\ f = Splits(c, a, cells)
    BY <1>1, <2>1, <2>2, <2>4
  <2>6. t \in Split /\ t.at + t.carry = a + c + k /\ Climbs(t.lines, a, t.at)
    BY <2>4, <2>5, SplitsClimb
  <2> QED BY <2>2, <2>3, <2>4, <2>6
<1>3. s.carry \in 0 .. MaxLine /\ s.at \in Nat /\ s.lines \in Seq(Piece)
  BY <1>2 DEF Split
<1>4. PICK lines, m : lines = s.lines /\ m = Len(s.lines)
  OBVIOUS
<1>5. /\ lines \in Seq(Piece) /\ m \in Nat /\ DOMAIN lines = 1 .. m /\ m = Len(lines)
      /\ \A n \in 1 .. m : lines[n] \in Piece /\ lines[n].at \in Nat
  <2>1. /\ lines \in Seq(Piece) /\ m \in Nat /\ DOMAIN lines = 1 .. m /\ m = Len(lines)
        /\ \A n \in 1 .. m : lines[n] \in Piece
    BY <1>3, <1>4
  <2> QED BY <2>1 DEF Piece
<1>6. PICK w : w = [b EXCEPT !.carry = s.carry, !.inWindow = IF fresh /\ s.lines # <<>> THEN 0 ELSE @]
  OBVIOUS
<1>7. /\ w \in Buf /\ w.carry = s.carry /\ w.emitted = b.emitted /\ w.out = b.out /\ w.pending = b.pending
      /\ w.lost = b.lost /\ w.dropped = b.dropped
  <2>1. (IF fresh /\ s.lines # <<>> THEN 0 ELSE b.inWindow) \in 0 .. MaxRate
    BY <1>1, BufType, Constants
  <2> QED BY <1>1, <1>3, <1>6, <2>1 DEF Buf
<1>8. w \in Batch
  BY <1>1, <1>7 DEF Batch
<1>9. /\ Rows(w) = Rows(b) /\ Counted(w) = Counted(b)
      /\ (Past(b, o) => Past(w, o)) /\ (Parted(b, o) => Parted(w, o))
      /\ (Sorted(b, o) => Sorted(w, o)) /\ Read(w, o) = Read(b, o)
  <2>1. Rows(w) = Rows(b) /\ (Past(b, o) => Past(w, o)) /\ (Parted(b, o) => Parted(w, o))
    BY <1>1, <1>7, SameLines
  <2>2. Counted(w) = Counted(b)
    BY <1>7 DEF Counted
  <2> QED BY <1>7, <2>1, <2>2 DEF Sorted, Read
<1>10. PICK q : q = Queue(w, lines, o)
  OBVIOUS
<1>11. q \in [0 .. m -> Batch] /\ q[0] = w /\ \A n \in 1 .. m : q[n] = Enqueue(q[n - 1], lines[n], o)
  BY <1>5, <1>8, <1>10, QueueSteps
<1>12. d = q[m]
  BY <1>4, <1>6, <1>10 DEF Deliver
<1> DEFINE End(n) == IF n = 0 THEN b.emitted ELSE lines[n].at
           Good(n) == /\ q[n].carry = s.carry /\ q[n].emitted = End(n)
                      /\ (Past(b, o) => Past(q[n], o)) /\ (Parted(b, o) => Parted(q[n], o))
                      /\ (Counted(b) = Len(b.lost) => Counted(q[n]) = Len(q[n].lost))
                      /\ Sorted(b, o) => /\ Sorted(q[n], o)
                                         /\ Read(q[n], o) = Read(b, o) \cup {lines[j].at : j \in 1 .. n}
<1>13. Good(0)
  <2>1. {lines[j].at : j \in 1 .. 0} = {}
    OBVIOUS
  <2> QED BY <1>7, <1>9, <1>11, <2>1
<1>14. ASSUME NEW n \in 1 .. m, Good(n - 1) PROVE Good(n)
  <2>1. PICK c, e, line, x : c = q[n - 1] /\ e = q[n] /\ line = lines[n] /\ x = [of |-> o, at |-> line.at]
    OBVIOUS
  <2>2. /\ c \in Batch /\ e = Enqueue(c, line, o) /\ line \in Piece /\ c \in Buf /\ Len(c.pending) < BatchMax
        /\ x.of = o /\ x.at = line.at
    <3>1. n - 1 \in 0 .. m
      BY <1>5
    <3> QED BY <1>5, <1>11, <2>1, <3>1 DEF Batch
  <2>3. /\ e \in Buf /\ e.carry = c.carry /\ e.emitted = line.at /\ x \in Line /\ Joins(c, e, x)
        /\ (Past(c, o) => Past(e, o)) /\ (Parted(c, o) => Parted(e, o))
    BY <2>1, <2>2, EnqueueFacts
  <2>4. /\ Counted(c) = Len(c.lost) => Counted(e) = Len(e.lost)
        /\ Sorted(c, o) /\ c.emitted < line.at => Sorted(e, o) /\ Read(e, o) = Read(c, o) \cup {line.at}
    BY <2>2, <2>3, JoinsSorted
  <2>5. c.emitted < line.at
    <3>1. CASE n = 1
      BY <1>2, <1>4, <1>5, <1>14, <2>1, <3>1 DEF Climbs
    <3>2. CASE n # 1
      <4>1. n - 1 \in 1 .. m /\ n - 1 < n /\ n - 1 # 0
        BY <1>5, <3>2
      <4> QED BY <1>2, <1>4, <1>5, <1>14, <2>1, <4>1 DEF Climbs
    <3> QED BY <3>1, <3>2
  <2>6. {lines[j].at : j \in 1 .. n} = {lines[j].at : j \in 1 .. n - 1} \cup {line.at}
    BY <1>5, <2>1
  <2>7. End(n) = line.at
    BY <1>5, <2>1
  <2> HIDE DEF End
  <2> QED BY <1>14, <2>1, <2>3, <2>4, <2>5, <2>6, <2>7
<1>15. Good(m)
  <2>1. PICK S : S = {n \in 0 .. m : Good(n)}
    OBVIOUS
  <2> HIDE DEF Good
  <2>2. 0 \in S /\ \A n \in 1 .. m : n - 1 \in S => n \in S
    BY <1>5, <1>13, <1>14, <2>1
  <2>3. 0 .. m \subseteq S
    BY <1>5, <2>2, Climb
  <2> QED BY <1>5, <2>1, <2>3
<1>16. End(m) = s.at
  <2>1. CASE m = 0
    <3>1. lines = <<>>
      BY <1>5, <2>1
    <3> QED BY <1>2, <1>4, <2>1, <3>1 DEF Climbs
  <2>2. CASE m # 0
    <3>1. lines # <<>>
      BY <1>5, <2>2
    <3> QED BY <1>2, <1>4, <2>2, <3>1 DEF Climbs
  <2> QED BY <2>1, <2>2
<1>17. {l.at : l \in ToSet(s.lines)} = {lines[j].at : j \in 1 .. m}
  BY <1>4, <1>5 DEF ToSet
<1>18. d \in Batch
  BY <1>5, <1>11, <1>12
<1> HIDE DEF End
<1> QED BY <1>2, <1>12, <1>15, <1>16, <1>17, <1>18

-----------------------------------------------------------------------------
(* The invariant of a check. *)

States == {"active", "deleted-wait", "permission-wait", "stopped"}
Pcs == {"new", "failed", "gone", "idle", "stat", "retry", "drain", "read", "close", "open"}
Thens == {"end", "watch", "rotate", "delete", "reopen"}

JobType == [pc : Pcs, to : Nat, then : Thens, seen : Inodes \cup {None}]

\* The types of all but the lines and batches.
Typed ==
  /\ path \in Inodes \cup {None} /\ born \in Inodes
  /\ content \in [Inodes -> Seq(BOOLEAN)]
  /\ epoch \in [Inodes -> Nat] /\ left \in [Inodes -> Nat]
  /\ access \in {"all", "stat", "none", "odd"}
  /\ written \in 0 .. MaxCells /\ changes \in 0 .. MaxChanges
  /\ state \in States
  /\ fd \in Inodes \cup {None} /\ ino \in Inodes \cup {None} /\ readOffset \in Nat
  /\ job \in JobType
  /\ recheck \in BOOLEAN /\ watching \in BOOLEAN /\ closing \in BOOLEAN
  /\ attempts \in 0 .. MaxRetries /\ slipped \in BOOLEAN
  /\ stopAt \in {"never", "self", "idle", "read", "changing"}

\* What a check is doing, and what it has in its hands.
JobOK ==
  /\ job.pc \in {"failed", "gone", "stat"} => job.then = "end"
  /\ job.pc = "idle" => job = Idle
  /\ job.pc = "new" => job.then = "watch" /\ stopAt = "never" /\ state = "stopped"
  /\ job.pc = "retry" => job.then = "reopen"
  /\ job.pc = "drain" => job.then \in {"rotate", "delete"}
  /\ job.pc = "read" => job.then \in {"end", "watch", "rotate", "delete"}
  /\ job.pc = "close" => job.then \in {"rotate", "delete", "reopen"} /\ closing
  /\ job.pc = "open" => job.then \in {"rotate", "reopen"} /\ fd = None
  /\ job.pc = "open" /\ job.then = "reopen" => state # "deleted-wait"
  /\ job.pc \in {"new", "failed"} => fd = None /\ ~watching
  /\ job.pc \in {"drain", "read"} => fd # None
  /\ job.then = "watch" => stopAt = "never"
  /\ closing => fd # None
  /\ state = "deleted-wait" => fd = None
  /\ state = "permission-wait" =>
       job.pc = "retry" \/ (job.pc = "idle" /\ attempts < MaxRetries)

\* After a stop() that found no check in the middle of replacing the file,
\* nothing is left that could open one.
StopOK ==
  stopAt \notin {"never", "changing"} =>
    /\ state = "stopped" /\ ~watching /\ (fd = None \/ closing)
    /\ job.pc = "idle" \/ (job.pc = "read" /\ job.then = "end")

\* Files that have left the path only grow.
FilesOK ==
  /\ path # None => path = born /\ left[path] = 0
  /\ fd # None => fd <= born
  /\ \A i \in Inodes : /\ i > born => left[i] = 0 /\ content[i] = <<>>
                       /\ i # path => left[i] <= Len(content[i])

\* A check that replaces the open file has left its path behind, and reads
\* at least as much of it as it was then.
ReadFailed == "read failed" \in {e.type : e \in ToSet(buf.out)}
Replacing == job.then \in {"rotate", "delete"} /\ fd # None /\ ~slipped
DrainOK ==
  /\ fd # None /\ ~slipped => ino = fd
  /\ Replacing => fd # path
  /\ Replacing /\ job.pc = "read" => job.to >= left[fd]
  /\ Replacing /\ job.pc = "close" /\ state # "stopped" /\ ~ReadFailed => readOffset >= left[fd]

Control == Typed /\ JobOK /\ StopOK /\ FilesOK /\ DrainOK

-----------------------------------------------------------------------------
(* What the ways to end a step of a check do. *)

LEMMA AtType ==
  ASSUME NEW pc \in Pcs, NEW to \in Nat, NEW then \in Thens, NEW seen \in Inodes \cup {None}
  PROVE  /\ At(pc, to, then, seen) \in JobType
         /\ At(pc, to, then, seen).pc = pc /\ At(pc, to, then, seen).to = to
         /\ At(pc, to, then, seen).then = then
BY DEF At, JobType

LEMMA IdleType ==
  Idle \in JobType /\ Idle.pc = "idle" /\ Idle.then = "end"
BY AtType DEF Idle, Pcs, Thens

LEMMA SizeType ==
  ASSUME Typed, NEW i \in Inodes
  PROVE  Size(i) = Len(content[i]) /\ Size(i) \in Nat /\ content[i] \in Seq(BOOLEAN)
BY DEF Typed, Size

\* The check is over, or goes round again.
CheckOver ==
  /\ job' \in JobType /\ recheck' \in BOOLEAN /\ attempts' \in 0 .. MaxRetries
  /\ \/ job' = Idle /\ (state' = "permission-wait" => attempts' < MaxRetries)
     \/ job'.pc = "stat" /\ job'.then = "end" /\ state' \notin {"stopped", "permission-wait"}
     \/ job'.pc = "retry" /\ job'.then = "reopen" /\ state' = "permission-wait"

LEMMA FinishEnds ==
  ASSUME Typed, NEW a \in 0 .. MaxRetries, Finish(a),
         state' = "permission-wait" => a < MaxRetries
  PROVE  CheckOver
<1> DEFINE again == At("retry", 0, "reopen", None)
           next == At("stat", 0, "end", None)
<1>1. /\ again \in JobType /\ again.pc = "retry" /\ again.then = "reopen"
      /\ next \in JobType /\ next.pc = "stat" /\ next.then = "end"
  BY AtType DEF Pcs, Thens
<1>2. CASE recheck /\ state' # "stopped" /\ recheck' = FALSE /\ Begin(state', a)
  <2>1. CASE state' = "permission-wait"
    <3>1. (job' = Idle /\ attempts' = a) \/ (job' = again /\ attempts' = a + 1)
      BY <1>2, <2>1 DEF Begin
    <3>2. a + 1 \in 0 .. MaxRetries
      BY <2>1, Constants
    <3> HIDE DEF again
    <3> QED BY <1>1, <1>2, <2>1, <3>1, <3>2, IdleType DEF CheckOver
  <2>2. CASE state' # "permission-wait"
    <3>1. job' = next /\ attempts' = a
      BY <1>2, <2>2 DEF Begin
    <3> HIDE DEF next
    <3> QED BY <1>1, <1>2, <2>2, <3>1 DEF CheckOver
  <2> QED BY <2>1, <2>2
<1>3. CASE job' = Idle /\ attempts' = a /\ UNCHANGED recheck
  BY <1>3, IdleType DEF CheckOver, Typed
<1> QED BY <1>2, <1>3 DEF Finish

\* What remains to be shown of a step that ends a check.
LEMMA OverOK ==
  ASSUME CheckOver, closing' => fd' # None, state' = "deleted-wait" => fd' = None,
         stopAt' \notin {"never", "changing"} => state' = "stopped" /\ ~watching' /\ (fd' = None \/ closing'),
         fd' # None /\ ~slipped' => ino' = fd'
  PROVE  JobOK' /\ StopOK' /\ DrainOK'
BY IdleType DEF CheckOver, JobOK, StopOK, DrainOK, Replacing

\* The file is closed: the path is opened again, or awaited.
LEMMA AfterCloseGoesOn ==
  ASSUME Typed, NEW then \in {"rotate", "delete", "reopen"}, NEW seen \in Inodes \cup {None}, NEW b,
         NEW st \in States, AfterClose(then, seen, b, st), fd' = None, closing' = FALSE,
         st # "permission-wait", then = "reopen" => st # "deleted-wait",
         stopAt \in {"never", "changing"}, stopAt' = stopAt
  PROVE  /\ job' \in JobType /\ recheck' \in BOOLEAN /\ attempts' \in 0 .. MaxRetries /\ state' \in States
         /\ JobOK' /\ StopOK' /\ DrainOK'
<1>1. CASE then = "delete"
  <2>1. state' = "deleted-wait" /\ Finish(attempts)
    BY <1>1 DEF AfterClose
  <2>2. CheckOver
    BY <2>1, FinishEnds DEF Typed
  <2> QED BY <2>1, <2>2, OverOK DEF CheckOver, States
<1>2. CASE then # "delete"
  <2>1. state' = st /\ job' = At("open", 0, then, seen) /\ UNCHANGED <<recheck, attempts>>
    BY <1>2 DEF AfterClose, Suspend
  <2>2. job' \in JobType /\ job'.pc = "open" /\ job'.then = then
    BY <2>1, AtType DEF Pcs, Thens
  <2> QED BY <1>2, <2>1, <2>2 DEF Typed, JobOK, StopOK, DrainOK, Replacing
<1> QED BY <1>1, <1>2

LEMMA AtClose ==
  ASSUME NEW then \in {"rotate", "delete", "reopen"}, NEW seen \in Inodes \cup {None}
  PROVE  /\ At("close", 0, then, seen) \in JobType
         /\ At("close", 0, then, seen).pc = "close" /\ At("close", 0, then, seen).then = then
<1>1. then \in Thens /\ "close" \in Pcs /\ 0 \in Nat
  BY DEF Thens, Pcs
<1> QED BY <1>1, AtType

\* closeFd begins: nobody else waits for the close, or it has been done.
LEMMA CloseFdGoesOn ==
  ASSUME Typed, JobOK, NEW then \in {"rotate", "delete", "reopen"}, NEW seen \in Inodes \cup {None}, NEW b,
         NEW st \in States, CloseFd(then, seen, b, st), UNCHANGED <<fd, ino, slipped, stopAt, path, left>>,
         st # "permission-wait", st = "deleted-wait" => fd = None /\ then # "reopen", stopAt \in {"never", "changing"},
         fd # None /\ ~slipped => ino = fd,
         fd # None /\ ~slipped /\ then # "reopen" =>
           /\ fd # path
           /\ st # "stopped" /\ "read failed" \notin {e.type : e \in ToSet(b.out)} => readOffset' >= left[fd]
  PROVE  /\ job' \in JobType /\ recheck' \in BOOLEAN /\ attempts' \in 0 .. MaxRetries /\ state' \in States
         /\ closing' \in BOOLEAN /\ JobOK' /\ StopOK' /\ DrainOK'
<1>1. CASE fd = None /\ AfterClose(then, seen, b, st) /\ UNCHANGED closing
  <2>1. closing' = FALSE /\ fd' = None
    BY <1>1 DEF Typed, JobOK
  <2> QED BY <1>1, <2>1, AfterCloseGoesOn
<1>2. CASE fd # None /\ closing' = TRUE /\ state' = st /\ buf' = b /\ Suspend(At("close", 0, then, seen))
  <2>1. job' = At("close", 0, then, seen) /\ UNCHANGED <<recheck, attempts>>
    BY <1>2 DEF Suspend
  <2>2. job' \in JobType /\ job'.pc = "close" /\ job'.then = then
    BY <2>1, AtClose
  <2>3. JobOK' /\ StopOK'
    BY <1>2, <2>2 DEF JobOK, StopOK
  <2>4. ReadFailed' <=> "read failed" \in {e.type : e \in ToSet(b.out)}
    BY <1>2 DEF ReadFailed
  <2>5. DrainOK'
    BY <1>2, <2>2, <2>4 DEF DrainOK, Replacing
  <2> QED BY <1>2, <2>1, <2>2, <2>3, <2>5 DEF Typed
<1> QED BY <1>1, <1>2 DEF CloseFd

\* The steps of a check that leave the files and the end of the tailer alone.
LEMMA FilesFrame ==
  ASSUME Typed, FilesOK, UNCHANGED <<path, born, content, left>>, fd' \in {fd, path, None}
  PROVE  FilesOK'
<1>1. fd' # None => fd' <= born'
  <2>1. CASE fd' = path /\ path # None
    <3>1. path = born /\ born \in Inodes
      BY <2>1 DEF Typed, FilesOK
    <3> QED BY <2>1, <3>1 DEF Inodes
  <2> QED BY <2>1 DEF FilesOK
<1> QED BY <1>1 DEF FilesOK

-----------------------------------------------------------------------------
(* start() and what calls check(). *)

LEMMA StartOpensKeeps ==
  ASSUME Control, StartOpens
  PROVE  Control'
<1>1. /\ job.pc = "new" /\ path \in Inodes /\ state' = "active" /\ fd' = path /\ ino' = path
      /\ stopAt = "never" /\ closing = FALSE /\ path # None
      /\ UNCHANGED <<path, born, content, epoch, access, written, changes, left, slipped, recheck, closing,
                     attempts, stopAt>>
  BY Constants DEF StartOpens, CanOpen, fs, Control, Typed, JobOK
<1>2. PICK fromEnd \in BOOLEAN :
        LET size == Size(path)
            start == IF fromEnd THEN size ELSE Max2(0, size - Backfill)
        IN /\ readOffset' = start /\ watching' = (start = size)
           /\ job' = IF start < size THEN At("read", size, "watch", None) ELSE Idle
  BY DEF StartOpens
<1>3. Size(path) \in Nat
  BY <1>1, SizeType DEF Control
<1>4. /\ readOffset' \in Nat /\ watching' \in BOOLEAN
      /\ \/ job' = Idle
         \/ job' \in JobType /\ job'.pc = "read" /\ job'.then = "watch"
  <2>1. PICK size : size = Size(path)
    OBVIOUS
  <2>2. PICK start : start = IF fromEnd THEN size ELSE Max2(0, size - Backfill)
    OBVIOUS
  <2>3. start \in Nat /\ size \in Nat
    BY <1>3, <2>1, <2>2, Constants DEF Max2
  <2>4. /\ readOffset' = start /\ watching' = (start = size)
        /\ job' = IF start < size THEN At("read", size, "watch", None) ELSE Idle
    BY <1>2, <2>1, <2>2
  <2>5. "read" \in Pcs /\ "watch" \in Thens /\ None \in Inodes \cup {None}
    BY DEF Pcs, Thens
  <2>6. CASE start < size
    BY <2>3, <2>4, <2>5, <2>6, AtType
  <2>7. CASE ~(start < size)
    BY <2>3, <2>4, <2>7
  <2> QED BY <2>6, <2>7
<1>5. job' \in JobType /\ job'.then \notin {"rotate", "delete"}
  BY <1>4, IdleType
<1>6. Typed'
  BY <1>1, <1>4, <1>5 DEF Control, Typed, States
<1>7. JobOK' /\ StopOK'
  BY <1>1, <1>4, IdleType DEF Control, JobOK, StopOK
<1>8. DrainOK'
  BY <1>1, <1>5 DEF DrainOK, Replacing
<1> QED BY <1>1, <1>6, <1>7, <1>8, FilesFrame DEF Control

LEMMA StartFailsKeeps ==
  ASSUME Control, StartFails
  PROVE  Control'
<1>1. /\ job.pc = "new" /\ job' = At("failed", 0, "end", None)
      /\ UNCHANGED <<path, born, content, epoch, access, written, changes, left, state, fd, ino, readOffset,
                     slipped, recheck, attempts, watching, closing, stopAt>>
  BY DEF StartFails, fs, position
<1>2. job' \in JobType /\ job'.pc = "failed" /\ job'.then = "end"
  BY <1>1, AtType DEF Pcs, Thens
<1>3. stopAt = "never" /\ state = "stopped" /\ fd = None /\ ~watching
  BY <1>1, Constants DEF Control, JobOK
<1>4. Typed'
  BY <1>1, <1>2 DEF Control, Typed
<1>5. JobOK' /\ StopOK' /\ DrainOK'
  BY <1>1, <1>2, <1>3 DEF Control, Typed, JobOK, StopOK, DrainOK, Replacing
<1> QED BY <1>1, <1>4, <1>5, FilesFrame DEF Control

LEMMA SignalKeeps ==
  ASSUME Control, Signal
  PROVE  Control'
<1>1. /\ watching
      /\ UNCHANGED <<path, born, content, epoch, access, written, changes, left, state, fd, ino, readOffset,
                     slipped, attempts, watching, closing, buf, stopAt>>
      /\ \/ job = Idle /\ state # "permission-wait" /\ job' = At("stat", 0, "end", None) /\ recheck' = FALSE
         \/ recheck' = TRUE /\ UNCHANGED job
  BY DEF Signal, fs, position
<1>2. ReadFailed' <=> ReadFailed
  BY <1>1 DEF ReadFailed
<1>3. CASE recheck' = TRUE /\ UNCHANGED job
  <2>1. Typed'
    BY <1>1, <1>3 DEF Control, Typed
  <2>2. JobOK' /\ StopOK'
    BY <1>1, <1>3 DEF Control, JobOK, StopOK
  <2>3. DrainOK'
    BY <1>1, <1>2, <1>3 DEF Control, DrainOK, Replacing
  <2> QED BY <1>1, <2>1, <2>2, <2>3, FilesFrame DEF Control
<1>4. CASE job = Idle /\ state # "permission-wait" /\ job' = At("stat", 0, "end", None) /\ recheck' = FALSE
  <2>1. job' \in JobType /\ job'.pc = "stat" /\ job'.then = "end"
    BY <1>4, AtType DEF Pcs, Thens
  <2>2. recheck' \in BOOLEAN
    BY <1>4
  <2>3. Typed'
    BY <1>1, <2>1, <2>2 DEF Control, Typed
  <2>4. JobOK' /\ StopOK'
    BY <1>1, <1>4, <2>1 DEF Control, JobOK, StopOK
  <2>5. DrainOK'
    BY <1>1, <2>1 DEF Control, DrainOK, Replacing
  <2> QED BY <1>1, <2>3, <2>4, <2>5, FilesFrame DEF Control
<1> QED BY <1>1, <1>3, <1>4

LEMMA RetryDueKeeps ==
  ASSUME Control, RetryDue
  PROVE  Control'
<1>1. /\ watching /\ job = Idle /\ state = "permission-wait"
      /\ job' = At("retry", 0, "reopen", None) /\ attempts' = attempts + 1 /\ recheck' = FALSE
      /\ UNCHANGED <<path, born, content, epoch, access, written, changes, left, state, fd, ino, readOffset,
                     slipped, watching, closing, buf, stopAt>>
  BY DEF RetryDue, fs, position
<1>2. job' \in JobType /\ job'.pc = "retry" /\ job'.then = "reopen"
  BY <1>1, AtType DEF Pcs, Thens
<1>3. attempts' \in 0 .. MaxRetries
  BY <1>1, IdleType, Constants DEF Control, Typed, JobOK
<1>4. Typed'
  BY <1>1, <1>2, <1>3 DEF Control, Typed
<1>5. JobOK' /\ StopOK' /\ DrainOK'
  BY <1>1, <1>2 DEF Control, JobOK, StopOK, DrainOK, Replacing
<1> QED BY <1>1, <1>4, <1>5, FilesFrame DEF Control

-----------------------------------------------------------------------------
(* The stat of a check. *)

\* A check that examines the file was never stopped for good.
LEMMA Unstopped ==
  ASSUME Control, job.pc \notin {"idle", "read"}
  PROVE  stopAt \in {"never", "changing"}
BY DEF Control, Typed, StopOK

\* The tailer ends by itself, and the check with it.
LEMMA StopNowEnds ==
  ASSUME Control, NEW b, StopNow(b, "self"), Finish(attempts), UNCHANGED <<fd, ino, slipped>>
  PROVE  /\ job' \in JobType /\ recheck' \in BOOLEAN /\ attempts' \in 0 .. MaxRetries /\ state' \in States
         /\ closing' \in BOOLEAN /\ watching' \in BOOLEAN
         /\ stopAt' \in {"never", "self", "idle", "read", "changing"}
         /\ JobOK' /\ StopOK' /\ DrainOK'
<1>1. /\ state' = "stopped" /\ watching' = FALSE /\ closing' = (fd # None)
      /\ stopAt' \in {"self", stopAt}
  BY DEF StopNow
<1>2. CheckOver
  BY <1>1, FinishEnds DEF Control, Typed
<1>3. JobOK' /\ StopOK' /\ DrainOK'
  BY <1>1, <1>2, OverOK DEF Control, DrainOK
<1> QED BY <1>1, <1>2, <1>3 DEF CheckOver, Control, Typed, States

LEMMA StatForbiddenKeeps ==
  ASSUME Control, StatForbidden
  PROVE  Control'
<1>1. /\ job.pc = "stat" /\ state' = "permission-wait" /\ Finish(0)
      /\ UNCHANGED <<path, born, content, epoch, access, written, changes, left, fd, ino, readOffset,
                     slipped, watching, closing, stopAt>>
  BY DEF StatForbidden, fs, position
<1>2. CheckOver
  BY <1>1, FinishEnds, Constants DEF Control
<1>3. stopAt \in {"never", "changing"}
  BY <1>1, Unstopped
<1>4. JobOK' /\ StopOK' /\ DrainOK'
  BY <1>1, <1>2, <1>3, OverOK DEF Control, JobOK, DrainOK
<1>5. Typed'
  BY <1>1, <1>2 DEF Control, Typed, CheckOver, States
<1> QED BY <1>1, <1>4, <1>5, FilesFrame DEF Control

LEMMA StatFailsKeeps ==
  ASSUME Control, StatFails
  PROVE  Control'
<1>1. /\ StopNow(Emit(buf, "log.error"), "self") /\ Finish(attempts)
      /\ UNCHANGED <<path, born, content, epoch, access, written, changes, left, fd, ino, readOffset, slipped>>
  BY DEF StatFails, fs, position
<1>2. PICK b : b = Emit(buf, "log.error")
  OBVIOUS
<1>3. StopNow(b, "self")
  BY <1>1, <1>2
<1>4. /\ job' \in JobType /\ recheck' \in BOOLEAN /\ attempts' \in 0 .. MaxRetries /\ state' \in States
      /\ closing' \in BOOLEAN /\ watching' \in BOOLEAN
      /\ stopAt' \in {"never", "self", "idle", "read", "changing"}
      /\ JobOK' /\ StopOK' /\ DrainOK'
  BY <1>1, <1>3, StopNowEnds
<1>5. Typed'
  BY <1>1, <1>4 DEF Control, Typed
<1> QED BY <1>1, <1>4, <1>5, FilesFrame DEF Control

LEMMA StillMissingKeeps ==
  ASSUME Control, StillMissing
  PROVE  Control'
<1>1. /\ job.pc = "stat" /\ state = "deleted-wait" /\ Finish(attempts)
      /\ UNCHANGED <<path, born, content, epoch, access, written, changes, left, fd, ino, readOffset, slipped>>
  BY DEF StillMissing, fs, position
<1>2. CASE UNCHANGED <<state, watching, closing, buf, stopAt>>
  <2>1. CheckOver
    BY <1>1, <1>2, FinishEnds DEF Control, Typed
  <2>2. stopAt \in {"never", "changing"}
    BY <1>1, Unstopped
  <2>3. JobOK' /\ StopOK' /\ DrainOK'
    BY <1>1, <1>2, <2>1, <2>2, OverOK DEF Control, JobOK, DrainOK
  <2>4. Typed'
    BY <1>1, <1>2, <2>1 DEF Control, Typed, CheckOver, States
  <2> QED BY <1>1, <2>3, <2>4, FilesFrame DEF Control
<1>3. CASE StopNow(Emit(buf, "log.error"), "self")
  <2>1. PICK b : b = Emit(buf, "log.error")
    OBVIOUS
  <2>2. /\ job' \in JobType /\ recheck' \in BOOLEAN /\ attempts' \in 0 .. MaxRetries /\ state' \in States
        /\ closing' \in BOOLEAN /\ watching' \in BOOLEAN
        /\ stopAt' \in {"never", "self", "idle", "read", "changing"}
        /\ JobOK' /\ StopOK' /\ DrainOK'
    BY <1>1, <1>3, <2>1, StopNowEnds
  <2>3. Typed'
    BY <1>1, <2>2 DEF Control, Typed
  <2> QED BY <1>1, <2>2, <2>3, FilesFrame DEF Control
<1> QED BY <1>2, <1>3 DEF StillMissing

\* A check that found the file gone or replaced first reads what is left.
LEMMA DrainBegins ==
  ASSUME Control, NEW then \in {"rotate", "delete"}, NEW seen \in Inodes \cup {None},
         job.pc = "stat", Suspend(At("drain", 0, then, seen)), fd # None, fd # path \/ slipped,
         UNCHANGED <<path, left, state, fd, ino, slipped, closing, watching, stopAt>>
  PROVE  /\ job' \in JobType /\ recheck' \in BOOLEAN /\ attempts' \in 0 .. MaxRetries
         /\ JobOK' /\ StopOK' /\ DrainOK'
<1>1. PICK next : next = At("drain", 0, then, seen)
  OBVIOUS
<1>2. then \in Thens /\ "drain" \in Pcs /\ 0 \in Nat
  BY DEF Thens, Pcs
<1>3. next \in JobType /\ next.pc = "drain" /\ next.then = then
  BY <1>1, <1>2, AtType
<1>4. job' = next /\ UNCHANGED <<recheck, attempts>>
  BY <1>1 DEF Suspend
<1>5. stopAt \in {"never", "changing"}
  BY Unstopped
<1>6. JobOK' /\ StopOK' /\ DrainOK'
  BY <1>3, <1>4, <1>5 DEF Control, JobOK, StopOK, DrainOK, Replacing
<1> QED BY <1>3, <1>4, <1>6 DEF Control, Typed

LEMMA StatMissingKeeps ==
  ASSUME Control, StatMissing
  PROVE  Control'
<1>1. /\ job.pc = "stat" /\ path = None /\ state # "deleted-wait"
      /\ UNCHANGED <<path, born, content, epoch, access, written, changes, left, fd, ino, readOffset,
                     slipped, watching, stopAt>>
  BY DEF StatMissing, fs, position
<1>2. CASE fd # None /\ Suspend(At("drain", 0, "delete", None)) /\ UNCHANGED <<state, closing, buf>>
  <2>1. /\ job' \in JobType /\ recheck' \in BOOLEAN /\ attempts' \in 0 .. MaxRetries
        /\ JobOK' /\ StopOK' /\ DrainOK'
    BY <1>1, <1>2, DrainBegins
  <2>2. Typed'
    BY <1>1, <1>2, <2>1 DEF Control, Typed
  <2> QED BY <1>1, <2>1, <2>2, FilesFrame DEF Control
<1>3. CASE fd = None /\ CloseFd("delete", None, buf, state)
  <2>1. stopAt \in {"never", "changing"} /\ state \in States /\ state # "permission-wait" /\ JobOK /\ Typed
    BY <1>1, Unstopped DEF Control, Typed, JobOK
  <2>2. /\ job' \in JobType /\ recheck' \in BOOLEAN /\ attempts' \in 0 .. MaxRetries /\ state' \in States
        /\ closing' \in BOOLEAN /\ JobOK' /\ StopOK' /\ DrainOK'
    BY <1>1, <1>3, <2>1, CloseFdGoesOn
  <2>3. Typed'
    BY <1>1, <2>2 DEF Control, Typed
  <2> QED BY <1>1, <2>2, <2>3, FilesFrame DEF Control
<1> QED BY <1>2, <1>3 DEF StatMissing

LEMMA StatRotatedKeeps ==
  ASSUME Control, StatRotated
  PROVE  Control'
<1>1. /\ job.pc = "stat" /\ path # None /\ path \in Inodes \cup {None}
      /\ UNCHANGED <<path, born, content, epoch, access, written, changes, left, fd, ino, readOffset,
                     slipped, watching, stopAt>>
  BY DEF StatRotated, fs, position, Control, Typed
<1>2. CASE /\ state # "deleted-wait" /\ fd # None /\ path # ino
           /\ Suspend(At("drain", 0, "rotate", path)) /\ UNCHANGED <<state, closing, buf>>
  <2>1. fd # path \/ slipped
    BY <1>2 DEF Control, DrainOK
  <2>2. /\ job' \in JobType /\ recheck' \in BOOLEAN /\ attempts' \in 0 .. MaxRetries
        /\ JobOK' /\ StopOK' /\ DrainOK'
    BY <1>1, <1>2, <2>1, DrainBegins
  <2>3. Typed'
    BY <1>1, <1>2, <2>2 DEF Control, Typed
  <2> QED BY <1>1, <2>2, <2>3, FilesFrame DEF Control
<1>3. CASE state = "deleted-wait" /\ CloseFd("rotate", path, buf, state)
  <2>1. stopAt \in {"never", "changing"} /\ state \in States /\ fd = None /\ JobOK /\ Typed
    BY <1>1, <1>3, Unstopped DEF Control, Typed, JobOK
  <2>2. /\ job' \in JobType /\ recheck' \in BOOLEAN /\ attempts' \in 0 .. MaxRetries /\ state' \in States
        /\ closing' \in BOOLEAN /\ JobOK' /\ StopOK' /\ DrainOK'
    BY <1>1, <1>3, <2>1, CloseFdGoesOn
  <2>3. Typed'
    BY <1>1, <2>2 DEF Control, Typed
  <2> QED BY <1>1, <2>2, <2>3, FilesFrame DEF Control
<1> QED BY <1>2, <1>3 DEF StatRotated

-----------------------------------------------------------------------------
(* Reading and draining. *)

\* readTo is entered, or the check is over.
LEMMA ReadToGoesOn ==
  ASSUME Typed, NEW to \in Nat, NEW from \in Nat, ReadTo(to, from), fd' # None,
         state' \in {"active", "stopped"}, closing' \in BOOLEAN,
         stopAt \in {"never", "changing"}, stopAt' = stopAt, ~slipped' => ino' = fd'
  PROVE  /\ job' \in JobType /\ recheck' \in BOOLEAN /\ attempts' \in 0 .. MaxRetries
         /\ JobOK' /\ StopOK' /\ DrainOK'
<1>1. CASE from < to /\ state' # "stopped" /\ Suspend(At("read", to, "end", None))
  <2>1. job' = At("read", to, "end", None) /\ UNCHANGED <<recheck, attempts>>
    BY <1>1 DEF Suspend
  <2>2. job' \in JobType /\ job'.pc = "read" /\ job'.then = "end"
    BY <2>1, AtType DEF Pcs, Thens
  <2> QED BY <1>1, <2>1, <2>2 DEF Typed, JobOK, StopOK, DrainOK, Replacing
<1>2. CASE Finish(attempts)
  <2>1. CheckOver
    BY <1>2, FinishEnds DEF Typed
  <2> QED BY <2>1, OverOK DEF CheckOver
<1> QED BY <1>1, <1>2 DEF ReadTo

LEMMA StatSameKeeps ==
  ASSUME Control, StatSame
  PROVE  Control'
<1>1. /\ job.pc = "stat" /\ path # None /\ path \in Inodes /\ state # "deleted-wait"
      /\ UNCHANGED <<path, born, content, epoch, access, written, changes, left, state, fd, ino,
                     slipped, watching, closing, stopAt>>
  BY DEF StatSame, fs, Control, Typed
<1>2. /\ stopAt \in {"never", "changing"} /\ Size(path) \in Nat /\ readOffset \in Nat
      /\ state \in {"active", "stopped"} /\ closing' \in BOOLEAN
  BY <1>1, Unstopped, SizeType DEF Control, Typed, States, JobOK
<1>3. /\ job' \in JobType /\ recheck' \in BOOLEAN /\ attempts' \in 0 .. MaxRetries /\ readOffset' \in Nat
      /\ JobOK' /\ StopOK' /\ DrainOK'
  <2>1. CASE fd = None /\ Finish(attempts) /\ UNCHANGED <<readOffset, buf, origin>>
    <3>1. CheckOver
      BY <1>1, <1>2, <2>1, FinishEnds DEF Control, Typed
    <3> QED BY <1>1, <1>2, <2>1, <3>1, OverOK DEF CheckOver, Control, JobOK
  <2>2. CASE /\ fd # None /\ path = ino /\ readOffset' = 0 /\ ReadTo(Size(path), 0)
    BY <1>1, <1>2, <2>2, ReadToGoesOn DEF Control, DrainOK
  <2>3. CASE /\ fd # None /\ path = ino /\ ReadTo(Size(path), readOffset) /\ UNCHANGED readOffset
    BY <1>1, <1>2, <2>3, ReadToGoesOn DEF Control, DrainOK
  <2> QED BY <2>1, <2>2, <2>3 DEF StatSame
<1>4. Typed'
  BY <1>1, <1>3 DEF Control, Typed
<1> QED BY <1>1, <1>3, <1>4, FilesFrame DEF Control

LEMMA DrainKeeps ==
  ASSUME Control, Drain
  PROVE  Control'
<1>1. /\ job.pc = "drain" /\ fd \in Inodes /\ job.then \in {"rotate", "delete"} /\ job \in JobType
      /\ UNCHANGED <<path, born, content, epoch, access, written, changes, left, fd, ino, readOffset,
                     slipped, watching, stopAt>>
  BY DEF Drain, fs, position, Control, Typed, JobOK
<1>2. /\ stopAt \in {"never", "changing"} /\ Size(fd) \in Nat /\ readOffset \in Nat /\ left \in [Inodes -> Nat]
      /\ fd # None /\ state \in States /\ state \notin {"deleted-wait", "permission-wait"}
      /\ job.seen \in Inodes \cup {None} /\ job.then \in Thens
  BY <1>1, Unstopped, SizeType, Constants DEF Control, Typed, States, JobOK, JobType
<1>3. ~slipped => fd # path /\ left[fd] <= Size(fd) /\ ino = fd
  BY <1>1, <1>2 DEF Control, DrainOK, FilesOK, Replacing, Size
<1>4. /\ job' \in JobType /\ recheck' \in BOOLEAN /\ attempts' \in 0 .. MaxRetries /\ state' \in States
      /\ closing' \in BOOLEAN /\ JobOK' /\ StopOK' /\ DrainOK'
  <2>1. CASE /\ Suspend(At("read", Size(fd), job.then, job.seen)) /\ UNCHANGED <<state, closing, buf>>
    <3>1. PICK next : next = At("read", Size(fd), job.then, job.seen)
      OBVIOUS
    <3>2. "read" \in Pcs
      BY DEF Pcs
    <3>3. next \in JobType /\ next.pc = "read" /\ next.then = job.then /\ next.to = Size(fd)
      BY <1>2, <3>1, <3>2, AtType
    <3>4. job' = next /\ UNCHANGED <<recheck, attempts>>
      BY <2>1, <3>1 DEF Suspend
    <3>5. JobOK' /\ StopOK'
      BY <1>1, <1>2, <2>1, <3>3, <3>4 DEF Control, JobOK, StopOK
    <3>6. DrainOK'
      BY <1>1, <1>2, <1>3, <3>3, <3>4 DEF DrainOK, Replacing
    <3> QED BY <1>2, <2>1, <3>3, <3>4, <3>5, <3>6 DEF Control, Typed
  <2>2. CASE /\ state = "stopped" \/ Size(fd) <= readOffset
             /\ CloseFd(job.then, job.seen, buf, state)
    <3>1. PICK then \in {"rotate", "delete"}, seen \in Inodes \cup {None} : then = job.then /\ seen = job.seen
      BY <1>1, <1>2
    <3>2. fd # None /\ ~slipped => fd # path /\ (state # "stopped" => readOffset' >= left[fd])
      BY <1>1, <1>2, <1>3, <2>2
    <3>3. CloseFd(then, seen, buf, state) /\ Typed /\ JobOK
      BY <2>2, <3>1 DEF Control
    <3> QED BY <1>1, <1>2, <1>3, <3>2, <3>3, CloseFdGoesOn
  <2> QED BY <2>1, <2>2 DEF Drain
<1>5. Typed'
  BY <1>1, <1>4 DEF Control, Typed
<1> QED BY <1>1, <1>4, <1>5, FilesFrame DEF Control

\* A read is over: the file is closed, the watch begins, or the check ends.
LEMMA AfterReadGoesOn ==
  ASSUME Control, job.pc = "read", NEW b, AfterRead(b), UNCHANGED <<fd, ino, slipped, stopAt, path, left>>,
         fd # None /\ ~slipped /\ job.then \in {"rotate", "delete"} /\ state # "stopped"
           /\ "read failed" \notin {e.type : e \in ToSet(b.out)} => readOffset' >= left[fd]
  PROVE  /\ job' \in JobType /\ recheck' \in BOOLEAN /\ attempts' \in 0 .. MaxRetries /\ state' \in States
         /\ closing' \in BOOLEAN /\ watching' \in BOOLEAN /\ JobOK' /\ StopOK' /\ DrainOK'
<1>1. /\ fd # None /\ state \in States /\ state \notin {"deleted-wait", "permission-wait"}
      /\ job.seen \in Inodes \cup {None} /\ Typed /\ JobOK
  BY DEF Control, Typed, JobOK, JobType
<1>2. CASE job.then \in {"rotate", "delete"} /\ CloseFd(job.then, job.seen, b, state) /\ UNCHANGED watching
  <2>1. stopAt \in {"never", "changing"}
    BY <1>2 DEF Control, Typed, StopOK
  <2>2. ~slipped => fd # path /\ ino = fd
    BY <1>1, <1>2 DEF Control, DrainOK, Replacing
  <2>3. PICK then \in {"rotate", "delete"}, seen \in Inodes \cup {None} : then = job.then /\ seen = job.seen
    BY <1>1, <1>2
  <2>4. CloseFd(then, seen, b, state)
    BY <1>2, <2>3
  <2>5. /\ job' \in JobType /\ recheck' \in BOOLEAN /\ attempts' \in 0 .. MaxRetries /\ state' \in States
        /\ closing' \in BOOLEAN /\ JobOK' /\ StopOK' /\ DrainOK'
    BY <1>1, <2>1, <2>2, <2>3, <2>4, CloseFdGoesOn
  <2> QED BY <1>2, <2>5 DEF Control, Typed
<1>3. CASE /\ job.then = "watch" /\ watching' = TRUE /\ job' = Idle /\ buf' = b
           /\ UNCHANGED <<state, closing, recheck, attempts>>
  BY <1>1, <1>3, IdleType DEF Control, Typed, JobOK, StopOK, DrainOK, Replacing
<1>4. CASE /\ job.then = "end" /\ buf' = b /\ UNCHANGED <<state, closing, watching>> /\ Finish(attempts)
  <2>1. CheckOver
    BY <1>1, <1>4, FinishEnds DEF Typed
  <2>2. JobOK' /\ StopOK' /\ DrainOK'
    BY <1>1, <1>4, <2>1, OverOK DEF Control, JobOK, StopOK, DrainOK
  <2> QED BY <1>1, <1>4, <2>1, <2>2 DEF CheckOver, Typed
<1> QED BY <1>2, <1>3, <1>4 DEF AfterRead

LEMMA ReadChunkKeeps ==
  ASSUME Control, ReadChunk
  PROVE  Control'
<1>1. /\ job.pc = "read" /\ fd \in Inodes /\ fd # None /\ job \in JobType /\ job.to \in Nat
      /\ UNCHANGED <<path, born, content, epoch, access, written, changes, left, fd, ino, slipped, stopAt>>
  BY Constants DEF ReadChunk, fs, Control, Typed, JobOK, JobType
<1>2. Size(fd) \in Nat /\ readOffset \in Nat /\ left[fd] \in Nat
  BY <1>1, SizeType DEF Control, Typed
<1>3. PICK n : n = Max2(0, Min2(Chunk, Min2(job.to, Size(fd)) - readOffset))
  OBVIOUS
<1>4. PICK b :
        /\ readOffset' = readOffset + n
        /\ \/ /\ n > 0 /\ readOffset' < job.to /\ state # "stopped" /\ buf' = b
              /\ UNCHANGED <<state, closing, watching, check>>
           \/ /\ ~(n > 0 /\ readOffset' < job.to /\ state # "stopped")
              /\ AfterRead(b)
  BY <1>3 DEF ReadChunk
<1>5. /\ n \in Nat
      /\ n = 0 => readOffset >= job.to \/ readOffset >= Size(fd)
  BY <1>1, <1>2, <1>3, Constants DEF Max2, Min2
<1>6. readOffset' \in Nat
  BY <1>2, <1>4, <1>5
<1>7. CASE UNCHANGED <<state, closing, watching, check>>
  <2>1. UNCHANGED <<job, recheck, attempts, state, closing, watching>>
    BY <1>7 DEF check
  <2>2. Typed'
    BY <1>1, <1>6, <2>1, SMTT(30) DEF Control, Typed
  <2>3. JobOK' /\ StopOK'
    BY <1>1, <2>1 DEF Control, JobOK, StopOK
  <2>4. DrainOK'
    BY <1>1, <2>1 DEF Control, DrainOK, Replacing
  <2> QED BY <1>1, <2>2, <2>3, <2>4, FilesFrame DEF Control
<1>8. CASE ~(n > 0 /\ readOffset' < job.to /\ state # "stopped") /\ AfterRead(b)
  <2>1. ASSUME fd # None, ~slipped, job.then \in {"rotate", "delete"}, state # "stopped"
        PROVE  readOffset' >= left[fd]
    <3>1. job.to >= left[fd] /\ Size(fd) >= left[fd]
      BY <1>1, <2>1 DEF Control, DrainOK, Replacing, FilesOK, Size
    <3> QED BY <1>1, <1>2, <1>4, <1>5, <1>6, <1>8, <2>1, <3>1
  <2>2. /\ job' \in JobType /\ recheck' \in BOOLEAN /\ attempts' \in 0 .. MaxRetries /\ state' \in States
        /\ closing' \in BOOLEAN /\ watching' \in BOOLEAN /\ JobOK' /\ StopOK' /\ DrainOK'
    BY <1>1, <1>8, <2>1, AfterReadGoesOn
  <2>3. Typed'
    BY <1>1, <1>6, <2>2 DEF Control, Typed
  <2> QED BY <1>1, <2>2, <2>3, FilesFrame DEF Control
<1> QED BY <1>4, <1>7, <1>8

LEMMA EventTypes ==
  ASSUME NEW out \in Seq(Event), NEW e \in Event
  PROVE  {f.type : f \in ToSet(Append(out, e))} = {f.type : f \in ToSet(out)} \cup {e.type}
<1>1. ToSet(Append(out, e)) = ToSet(out) \cup {e}
  BY SetOfAppend
<1> QED BY <1>1

LEMMA ReadFailsKeeps ==
  ASSUME Control, buf \in Batch, ReadFails
  PROVE  Control'
<1>0. changes < MaxChanges /\ changes' = changes + 1
  BY DEF ReadFails
<1>1. /\ job.pc = "read" /\ AfterRead(Emit(buf, "read failed"))
      /\ UNCHANGED <<path, born, content, epoch, access, written, left, fd, ino, readOffset, slipped, stopAt>>
  BY DEF ReadFails, position
<1>2. changes' \in 0 .. MaxChanges
  <2>1. changes \in 0 .. MaxChanges /\ MaxChanges \in Nat
    BY Constants DEF Control, Typed
  <2> QED BY <1>0, <2>1
<1>3. PICK b : b = Emit(buf, "read failed")
  OBVIOUS
<1>4. "read failed" \in {e.type : e \in ToSet(b.out)}
  <2>1. buf \in Buf /\ "read failed" \in Types /\ "read failed" # "log.entry"
    BY DEF Batch, Types
  <2>2. PICK e \in Event : e.type = "read failed" /\ b.out = Append(Flush(buf).out, e)
    BY <1>3, <2>1, EmitFacts
  <2>3. Flush(buf).out \in Seq(Event)
    BY <2>1, FlushFacts, BufType
  <2> QED BY <2>2, <2>3, EventTypes
<1>5. AfterRead(b)
  BY <1>1, <1>3
<1>6. /\ job' \in JobType /\ recheck' \in BOOLEAN /\ attempts' \in 0 .. MaxRetries /\ state' \in States
      /\ closing' \in BOOLEAN /\ watching' \in BOOLEAN /\ JobOK' /\ StopOK' /\ DrainOK'
  BY <1>1, <1>4, <1>5, AfterReadGoesOn
<1>7. Typed'
  BY <1>1, <1>2, <1>6 DEF Control, Typed
<1> QED BY <1>1, <1>6, <1>7, FilesFrame DEF Control

-----------------------------------------------------------------------------
(* Closing and opening. *)

LEMMA RotateOpensKeeps ==
  ASSUME Control, RotateOpens
  PROVE  Control'
<1>1. /\ job.pc = "open" /\ path # None /\ path \in Inodes /\ fd' = path /\ ino' = job.seen /\ readOffset' = 0
      /\ slipped' = (slipped \/ job.seen # path) /\ state' = "active" /\ ReadTo(Size(path), 0)
      /\ UNCHANGED <<path, born, content, epoch, access, written, changes, left, watching, closing, stopAt>>
  BY DEF RotateOpens, CanOpen, fs, Control, Typed
<1>2. /\ stopAt \in {"never", "changing"} /\ Size(path) \in Nat /\ fd = None /\ closing = FALSE
      /\ job.seen \in Inodes \cup {None}
  BY <1>1, Unstopped, SizeType DEF Control, Typed, JobOK, JobType
<1>3. /\ job' \in JobType /\ recheck' \in BOOLEAN /\ attempts' \in 0 .. MaxRetries
      /\ JobOK' /\ StopOK' /\ DrainOK'
  BY <1>1, <1>2, ReadToGoesOn DEF Control
<1>4. Typed'
  BY <1>1, <1>2, <1>3 DEF Control, Typed, States
<1> QED BY <1>1, <1>3, <1>4, FilesFrame DEF Control

LEMMA RotateFailsKeeps ==
  ASSUME Control, RotateFails
  PROVE  Control'
<1>1. /\ job.pc = "open" /\ job' = At("gone", 0, "end", None) /\ watching' = FALSE
      /\ UNCHANGED <<path, born, content, epoch, access, written, changes, left, state, fd, ino, readOffset,
                     slipped, recheck, attempts, closing, stopAt>>
  BY DEF RotateFails, fs, position
<1>2. job' \in JobType /\ job'.pc = "gone" /\ job'.then = "end"
  BY <1>1, AtType DEF Pcs, Thens
<1>3. stopAt \in {"never", "changing"} /\ fd = None
  BY <1>1, Unstopped DEF Control, JobOK
<1>4. Typed'
  BY <1>1, <1>2 DEF Control, Typed
<1>5. JobOK' /\ StopOK' /\ DrainOK'
  BY <1>1, <1>2, <1>3 DEF Control, JobOK, StopOK, DrainOK, Replacing
<1> QED BY <1>1, <1>4, <1>5, FilesFrame DEF Control

LEMMA RetryOkKeeps ==
  ASSUME Control, RetryOk
  PROVE  Control'
<1>1. /\ job.pc = "retry" /\ CloseFd("reopen", None, buf, "active")
      /\ UNCHANGED <<path, born, content, epoch, access, written, changes, left, fd, ino, readOffset,
                     slipped, watching, stopAt>>
  BY DEF RetryOk, fs, position
<1>2. /\ stopAt \in {"never", "changing"} /\ Typed /\ JobOK /\ "active" \in States
      /\ fd # None /\ ~slipped => ino = fd
  BY <1>1, Unstopped DEF Control, DrainOK, States
<1>3. /\ job' \in JobType /\ recheck' \in BOOLEAN /\ attempts' \in 0 .. MaxRetries /\ state' \in States
      /\ closing' \in BOOLEAN /\ JobOK' /\ StopOK' /\ DrainOK'
  BY <1>1, <1>2, CloseFdGoesOn
<1>4. Typed'
  BY <1>1, <1>3 DEF Control, Typed
<1> QED BY <1>1, <1>3, <1>4, FilesFrame DEF Control

LEMMA RetryFailsKeeps ==
  ASSUME Control, RetryFails
  PROVE  Control'
<1>1. /\ job.pc \in {"retry", "open"} /\ Finish(attempts)
      /\ UNCHANGED <<path, born, content, epoch, access, written, changes, left, fd, ino, readOffset, slipped>>
  BY DEF RetryFails, fs, position
<1>2. CASE attempts < MaxRetries /\ UNCHANGED <<state, watching, closing, buf, stopAt>>
  <2>1. CheckOver
    BY <1>1, <1>2, FinishEnds DEF Control, Typed
  <2>2. stopAt \in {"never", "changing"}
    BY <1>1, Unstopped
  <2>3. JobOK' /\ StopOK' /\ DrainOK'
    BY <1>1, <1>2, <2>1, <2>2, OverOK DEF Control, JobOK, DrainOK
  <2>4. Typed'
    BY <1>1, <1>2, <2>1 DEF Control, Typed, CheckOver, States
  <2> QED BY <1>1, <2>3, <2>4, FilesFrame DEF Control
<1>3. CASE StopNow(Emit(buf, "log.error"), "self")
  <2>1. PICK b : b = Emit(buf, "log.error")
    OBVIOUS
  <2>2. /\ job' \in JobType /\ recheck' \in BOOLEAN /\ attempts' \in 0 .. MaxRetries /\ state' \in States
        /\ closing' \in BOOLEAN /\ watching' \in BOOLEAN
        /\ stopAt' \in {"never", "self", "idle", "read", "changing"}
        /\ JobOK' /\ StopOK' /\ DrainOK'
    BY <1>1, <1>3, <2>1, StopNowEnds
  <2>3. Typed'
    BY <1>1, <2>2 DEF Control, Typed
  <2> QED BY <1>1, <2>2, <2>3, FilesFrame DEF Control
<1> QED BY <1>2, <1>3 DEF RetryFails

LEMMA ReopenOpensKeeps ==
  ASSUME Control, ReopenOpens
  PROVE  Control'
<1>1. /\ job.pc = "open" /\ job.then = "reopen" /\ path # None /\ path \in Inodes /\ fd' = path /\ ino' = path
      /\ readOffset' \in {0, readOffset} /\ ReadTo(Size(path), readOffset')
      /\ UNCHANGED <<path, born, content, epoch, access, written, changes, left, state, slipped, watching,
                     closing, stopAt>>
  BY DEF ReopenOpens, CanOpen, fs, Control, Typed
<1>2. /\ stopAt \in {"never", "changing"} /\ Size(path) \in Nat /\ fd = None /\ closing = FALSE
      /\ readOffset' \in Nat /\ state \in {"active", "stopped"}
  <2>1. stopAt \in {"never", "changing"} /\ Size(path) \in Nat /\ readOffset \in Nat
    BY <1>1, Unstopped, SizeType DEF Control, Typed
  <2>2. fd = None /\ closing = FALSE /\ state \in {"active", "stopped"}
    BY <1>1 DEF Control, Typed, JobOK, States
  <2> QED BY <1>1, <2>1, <2>2
<1>3. /\ job' \in JobType /\ recheck' \in BOOLEAN /\ attempts' \in 0 .. MaxRetries
      /\ JobOK' /\ StopOK' /\ DrainOK'
  <2>1. PICK from : from = readOffset'
    OBVIOUS
  <2> QED BY <1>1, <1>2, <2>1, ReadToGoesOn DEF Control
<1>4. Typed'
  BY <1>1, <1>2, <1>3 DEF Control, Typed
<1> QED BY <1>1, <1>3, <1>4, FilesFrame DEF Control

LEMMA ClosedKeeps ==
  ASSUME Control, Closed
  PROVE  Control'
<1>1. /\ closing /\ job.pc \notin {"read", "drain"} /\ closing' = FALSE /\ fd' = None
      /\ UNCHANGED <<path, born, content, epoch, access, written, changes, left, ino, readOffset,
                     slipped, watching, stopAt>>
  BY DEF Closed, fs
<1>2. fd # None /\ Typed /\ state \in States /\ state # "deleted-wait"
  BY <1>1 DEF Control, Typed, JobOK
<1>3. CASE job.pc = "close" /\ AfterClose(job.then, job.seen, buf, state)
  <2>1. PICK then \in {"rotate", "delete", "reopen"}, seen \in Inodes \cup {None} :
          then = job.then /\ seen = job.seen
    BY <1>3 DEF Control, Typed, JobOK, JobType
  <2>2. AfterClose(then, seen, buf, state) /\ state # "permission-wait" /\ stopAt \in {"never", "changing"}
    BY <1>3, <2>1, Unstopped DEF Control, JobOK
  <2>3. /\ job' \in JobType /\ recheck' \in BOOLEAN /\ attempts' \in 0 .. MaxRetries /\ state' \in States
        /\ JobOK' /\ StopOK' /\ DrainOK'
    BY <1>1, <1>2, <2>2, AfterCloseGoesOn
  <2>4. Typed'
    BY <1>1, <2>3 DEF Control, Typed
  <2> QED BY <1>1, <2>3, <2>4, FilesFrame DEF Control
<1>4. CASE job.pc # "close" /\ UNCHANGED <<state, buf, check>>
  <2>1. Typed'
    BY <1>1, <1>4 DEF Control, Typed, check
  <2>2. JobOK' /\ StopOK' /\ DrainOK'
    BY <1>1, <1>2, <1>4 DEF Control, JobOK, StopOK, DrainOK, Replacing, check
  <2> QED BY <1>1, <2>1, <2>2, FilesFrame DEF Control
<1> QED BY <1>1, <1>3, <1>4 DEF Closed

-----------------------------------------------------------------------------
(* The flush timer, stop() and the other programs. *)

LEMMA FlushFiresKeeps ==
  ASSUME Control, buf \in Batch, FlushFires
  PROVE  Control'
<1>1. /\ buf' = Flush(buf)
      /\ UNCHANGED <<path, born, content, epoch, access, written, changes, left, state, fd, ino, readOffset,
                     slipped, job, recheck, attempts, watching, closing, stopAt>>
  BY DEF FlushFires, fs, position, check
<1>2. ReadFailed => ReadFailed'
  <2>1. buf \in Buf /\ buf.out \in Seq(Event)
    BY BufType DEF Batch
  <2>2. CASE buf'.out = buf.out
    BY <2>2 DEF ReadFailed
  <2>3. CASE \E e \in Event : buf'.out = Append(buf.out, e)
    BY <2>1, <2>3, EventTypes DEF ReadFailed
  <2> QED BY <1>1, <2>1, <2>2, <2>3, FlushFacts
<1>3. Typed' /\ JobOK' /\ StopOK'
  BY <1>1 DEF Control, Typed, JobOK, StopOK
<1>4. DrainOK'
  BY <1>1, <1>2 DEF Control, DrainOK, Replacing
<1> QED BY <1>1, <1>3, <1>4, FilesFrame DEF Control

LEMMA StopKeeps ==
  ASSUME Control, Stop
  PROVE  Control'
<1>1. /\ job.pc \notin {"new", "failed", "gone"} /\ job.then # "watch" /\ stopAt = "never"
      /\ state' = "stopped" /\ watching' = FALSE /\ closing' = (fd # None)
      /\ stopAt' = IF job.pc \in {"stat", "retry"} \/ job.then # "end" THEN "changing" ELSE job.pc
      /\ UNCHANGED <<path, born, content, epoch, access, written, changes, left, fd, ino, readOffset,
                     slipped, job, recheck, attempts>>
  BY DEF Stop, StopNow, fs, position, check
<1>2. stopAt' \in {"changing", "idle", "read"} /\ (stopAt' # "changing" => job.then = "end" /\ job.pc \in {"idle", "read"})
  BY <1>1 DEF Control, Typed, JobOK, JobType, Pcs
<1>3. Typed'
  BY <1>1, <1>2 DEF Control, Typed, States
<1>4. JobOK'
  BY <1>1 DEF Control, JobOK
<1>5. StopOK' /\ DrainOK'
  BY <1>1, <1>2 DEF Control, StopOK, DrainOK, Replacing
<1> QED BY <1>1, <1>3, <1>4, <1>5, FilesFrame DEF Control

\* Whatever a program does to the files, the tailer is where it was.
LEMMA TailerFrame ==
  ASSUME Control, UNCHANGED tailer
  PROVE  JobOK' /\ StopOK' /\ (path' = path /\ left' = left => DrainOK')
BY DEF Control, tailer, position, check, JobOK, StopOK, DrainOK, Replacing, ReadFailed

\* Only the files are to be looked at.
LEMMA TypedFrame ==
  ASSUME Typed, UNCHANGED tailer,
         path' \in Inodes \cup {None}, born' \in Inodes, content' \in [Inodes -> Seq(BOOLEAN)],
         epoch' \in [Inodes -> Nat], left' \in [Inodes -> Nat], access' \in {"all", "stat", "none", "odd"},
         written' \in 0 .. MaxCells, changes' \in 0 .. MaxChanges
  PROVE  Typed'
<1>1. UNCHANGED <<state, fd, ino, readOffset, job, recheck, watching, closing, attempts, slipped, stopAt>>
  BY DEF tailer, position, check
<1> QED BY <1>1 DEF Typed

LEMMA WriteKeeps ==
  ASSUME Control, NEW i \in Inodes, NEW newline \in BOOLEAN, Write(i, newline)
  PROVE  Control'
<1>1. /\ i \in {path, fd} /\ i # None /\ written < MaxCells /\ written' = written + 1
      /\ content' = [content EXCEPT ![i] = Append(@, newline)]
      /\ UNCHANGED <<path, born, epoch, access, changes, left>> /\ UNCHANGED tailer
  BY Constants DEF Write
<1>2. content[i] \in Seq(BOOLEAN) /\ Append(content[i], newline) \in Seq(BOOLEAN)
      /\ Len(Append(content[i], newline)) = Len(content[i]) + 1 /\ Len(content[i]) \in Nat
  BY DEF Control, Typed
<1>3. Typed'
  <2>1. content' \in [Inodes -> Seq(BOOLEAN)] /\ written' \in 0 .. MaxCells
    BY <1>1, <1>2, Constants DEF Control, Typed
  <2> QED BY <1>1, <2>1, TypedFrame DEF Control, Typed
<1>4. FilesOK'
  <2>1. i <= born /\ born \in Inodes /\ left \in [Inodes -> Nat]
    <3>1. born \in Inodes /\ left \in [Inodes -> Nat] /\ (i = path => i = born) /\ (i = fd => i <= born)
      BY <1>1 DEF Control, Typed, FilesOK
    <3> QED BY <1>1, <3>1, Constants
  <2>2. fd' = fd
    BY <1>1 DEF tailer, position
  <2>3. ASSUME NEW j \in Inodes
        PROVE  /\ j > born => left[j] = 0 /\ content'[j] = <<>>
               /\ j # path => left[j] <= Len(content'[j])
    <3>1. CASE j = i
      <4>1. content'[j] = Append(content[i], newline)
        BY <1>1, <3>1 DEF Control, Typed
      <4> QED BY <1>2, <2>1, <3>1, <4>1, Constants DEF Control, FilesOK
    <3>2. CASE j # i
      <4>1. content'[j] = content[j]
        BY <1>1, <3>2 DEF Control, Typed
      <4> QED BY <4>1 DEF Control, FilesOK
    <3> QED BY <3>1, <3>2
  <2> QED BY <1>1, <2>2, <2>3 DEF Control, FilesOK
<1> QED BY <1>1, <1>3, <1>4, TailerFrame DEF Control

LEMMA TruncateKeeps ==
  ASSUME Control, Truncate
  PROVE  Control'
<1>1. /\ path # None /\ path \in Inodes /\ content' = [content EXCEPT ![path] = <<>>]
      /\ epoch' = [epoch EXCEPT ![path] = @ + 1] /\ changes < MaxChanges /\ changes' = changes + 1
      /\ UNCHANGED <<path, born, access, left, written>> /\ UNCHANGED tailer
  BY DEF Truncate, Change, Control, Typed
<1>2. Typed'
  <2>1. content' \in [Inodes -> Seq(BOOLEAN)] /\ epoch' \in [Inodes -> Nat] /\ changes' \in 0 .. MaxChanges
    <3>1. /\ content \in [Inodes -> Seq(BOOLEAN)] /\ epoch \in [Inodes -> Nat] /\ changes \in 0 .. MaxChanges
      BY DEF Control, Typed
    <3>2. <<>> \in Seq(BOOLEAN)
      OBVIOUS
    <3> QED BY <1>1, <3>1, <3>2, Constants
  <2> QED BY <1>1, <2>1, TypedFrame DEF Control, Typed
<1>3. FilesOK'
  <2>1. fd' = fd
    BY <1>1 DEF tailer, position
  <2>2. ASSUME NEW j \in Inodes
        PROVE  /\ j > born => left[j] = 0 /\ content'[j] = <<>>
               /\ j # path => left[j] <= Len(content'[j])
    BY <1>1 DEF Control, Typed, FilesOK
  <2> QED BY <1>1, <2>1, <2>2 DEF Control, FilesOK
<1> QED BY <1>1, <1>2, <1>3, TailerFrame DEF Control

LEMMA LeaveFacts ==
  ASSUME Control, Leave
  PROVE  /\ left' \in [Inodes -> Nat]
         /\ \A i \in Inodes : /\ i # path => left'[i] = left[i]
                              /\ i > born => left'[i] = 0
                              /\ left'[i] <= Len(content[i])
<1>1. \A i \in Inodes : left'[i] = IF i = path THEN Size(i) ELSE left[i]
  BY DEF Leave
<1>2. /\ left' = [i \in Inodes |-> IF i = path THEN Size(i) ELSE left[i]]
      /\ left \in [Inodes -> Nat] /\ \A i \in Inodes : Size(i) \in Nat /\ Size(i) = Len(content[i])
  BY SizeType DEF Leave, Control, Typed
<1>3. left' \in [Inodes -> Nat]
  BY <1>2
<1>4. ASSUME NEW i \in Inodes, i > born PROVE i # path
  BY <1>4, Constants DEF Control, Typed, FilesOK
<1> QED BY <1>1, <1>2, <1>3, <1>4 DEF Control, FilesOK

LEMMA VanishKeeps ==
  ASSUME Control, Vanish
  PROVE  Control'
<1>1. /\ path # None /\ path' = None /\ Leave /\ changes < MaxChanges /\ changes' = changes + 1
      /\ UNCHANGED <<born, content, epoch, access, written>> /\ UNCHANGED tailer
      /\ UNCHANGED <<fd, ino, slipped, job, state, readOffset, buf>>
  BY DEF Vanish, Change, tailer, position, check
<1>2. /\ left' \in [Inodes -> Nat]
      /\ \A i \in Inodes : /\ i # path => left'[i] = left[i]
                           /\ i > born => left'[i] = 0
                           /\ left'[i] <= Len(content[i])
  BY <1>1, LeaveFacts
<1>3. Typed'
  <2>1. changes' \in 0 .. MaxChanges
    BY <1>1, Constants DEF Control, Typed
  <2> QED BY <1>1, <1>2, <2>1, TypedFrame DEF Control, Typed
<1>4. FilesOK'
  BY <1>1, <1>2 DEF Control, FilesOK
<1>5. DrainOK'
  <2>1. fd \in Inodes \cup {None} /\ (Replacing' <=> Replacing) /\ (ReadFailed' <=> ReadFailed)
    BY <1>1 DEF Control, Typed, Replacing, ReadFailed
  <2>2. Replacing => fd # path /\ left'[fd] = left[fd]
    BY <1>2, <2>1 DEF Control, DrainOK, Replacing
  <2>3. Replacing => fd # path'
    BY <1>1, Constants DEF Replacing
  <2> QED BY <1>1, <2>1, <2>2, <2>3 DEF Control, DrainOK
<1> QED BY <1>1, <1>3, <1>4, <1>5, TailerFrame DEF Control

LEMMA CreateKeeps ==
  ASSUME Control, Create
  PROVE  Control'
<1>1. /\ born + 1 \in Inodes /\ path' = born + 1 /\ born' = born + 1 /\ Leave
      /\ changes < MaxChanges /\ changes' = changes + 1
      /\ UNCHANGED <<content, epoch, access, written>> /\ UNCHANGED tailer
      /\ UNCHANGED <<fd, ino, slipped, job, state, readOffset, buf>>
  BY DEF Create, Change, tailer, position, check
<1>2. /\ left' \in [Inodes -> Nat]
      /\ \A i \in Inodes : /\ i # path => left'[i] = left[i]
                           /\ i > born => left'[i] = 0
                           /\ left'[i] <= Len(content[i])
  BY <1>1, LeaveFacts
<1>3. born \in Nat /\ fd \in Inodes \cup {None} /\ (fd # None => fd <= born) /\ Inodes \subseteq Nat /\ None \notin Inodes
  BY Constants DEF Control, Typed, FilesOK
<1>4. Typed'
  <2>1. changes' \in 0 .. MaxChanges
    BY <1>1, Constants DEF Control, Typed
  <2> QED BY <1>1, <1>2, <2>1, TypedFrame DEF Control, Typed
<1>5. FilesOK'
  <2>1. ASSUME NEW i \in Inodes
        PROVE  /\ i > born + 1 => left'[i] = 0 /\ content[i] = <<>>
               /\ left'[i] <= Len(content[i])
    <3>1. i > born + 1 => i > born
      BY <1>3
    <3> QED BY <1>2, <3>1 DEF Control, FilesOK
  <2>2. left'[born + 1] = 0
    BY <1>1, <1>2, <1>3
  <2>3. fd' # None => fd' <= born'
    BY <1>1, <1>3
  <2>4. \A i \in Inodes : /\ i > born' => left'[i] = 0 /\ content'[i] = <<>>
                          /\ i # path' => left'[i] <= Len(content'[i])
    BY <1>1, <2>1
  <2> QED BY <1>1, <2>2, <2>3, <2>4 DEF FilesOK
<1>6. DrainOK'
  <2>1. (Replacing' <=> Replacing) /\ (ReadFailed' <=> ReadFailed)
    BY <1>1 DEF Control, Typed, Replacing, ReadFailed
  <2>2. Replacing => fd # path /\ left'[fd] = left[fd]
    BY <1>2, <1>3, <2>1 DEF Control, DrainOK, Replacing
  <2>3. Replacing => fd # path'
    BY <1>1, <1>3 DEF Replacing
  <2> QED BY <1>1, <2>1, <2>2, <2>3 DEF Control, DrainOK
<1> QED BY <1>1, <1>4, <1>5, <1>6, TailerFrame DEF Control

LEMMA ProtectKeeps ==
  ASSUME Control, Protect
  PROVE  Control'
<1>1. /\ access' \in {"all", "stat", "none", "odd"} /\ changes < MaxChanges /\ changes' = changes + 1
      /\ UNCHANGED <<path, born, content, epoch, left, written>> /\ UNCHANGED tailer
  BY DEF Protect, Change
<1>2. Typed'
  <2>1. changes' \in 0 .. MaxChanges
    BY <1>1, Constants DEF Control, Typed
  <2> QED BY <1>1, <2>1, TypedFrame DEF Control, Typed
<1>3. fd' = fd
  BY <1>1 DEF tailer, position
<1> QED BY <1>1, <1>2, <1>3, TailerFrame, FilesFrame DEF Control

LEMMA ControlHolds ==
  Init => Control
<1> SUFFICES ASSUME Init PROVE Control
  OBVIOUS
<1>1. job \in JobType /\ job.pc = "new" /\ job.then = "watch"
  BY AtType DEF Init, Pcs, Thens
<1>2. Typed
  <2>1. /\ path \in Inodes \cup {None} /\ born \in Inodes /\ fd \in Inodes \cup {None}
        /\ ino \in Inodes \cup {None} /\ attempts \in 0 .. MaxRetries
        /\ written \in 0 .. MaxCells /\ changes \in 0 .. MaxChanges /\ readOffset \in Nat
    BY Constants DEF Init
  <2>2. epoch \in [Inodes -> Nat] /\ left \in [Inodes -> Nat] /\ content \in [Inodes -> Seq(BOOLEAN)]
    <3>1. <<>> \in Seq(BOOLEAN)
      OBVIOUS
    <3> QED BY <3>1 DEF Init
  <2> QED BY <1>1, <2>1, <2>2 DEF Init, Typed, States
<1>3. JobOK /\ StopOK /\ DrainOK
  BY <1>1 DEF Init, JobOK, StopOK, DrainOK, Replacing
<1>4. FilesOK
  BY Constants DEF Init, FilesOK
<1> QED BY <1>2, <1>3, <1>4 DEF Control

LEMMA ControlStays ==
  ASSUME Control, buf \in Batch, [Next]_vars
  PROVE  Control'
<1>1. CASE UNCHANGED vars
  <2>1. Typed' /\ FilesOK'
    BY <1>1 DEF vars, fs, position, check, Control, Typed, FilesOK
  <2>2. JobOK' /\ StopOK' /\ DrainOK'
    BY <1>1 DEF vars, fs, position, check, Control, JobOK, StopOK, DrainOK, Replacing, ReadFailed
  <2> QED BY <2>1, <2>2 DEF Control
<1>2. CASE Continue
  BY <1>2, StatForbiddenKeeps, StatFailsKeeps, StatMissingKeeps, StillMissingKeeps, StatRotatedKeeps,
     StatSameKeeps, DrainKeeps, ReadChunkKeeps, ReadFailsKeeps, RotateOpensKeeps, RotateFailsKeeps,
     RetryOkKeeps, RetryFailsKeeps, ReopenOpensKeeps DEF Continue
<1>3. CASE Programs
  BY <1>3, WriteKeeps, TruncateKeeps, VanishKeeps, CreateKeeps, ProtectKeeps DEF Programs
<1> QED BY <1>1, <1>2, <1>3, StartOpensKeeps, StartFailsKeeps, SignalKeeps, RetryDueKeeps, ClosedKeeps,
           FlushFiresKeeps, StopKeeps DEF Next

-----------------------------------------------------------------------------
(* The invariant of the text. *)

Buffered == buf \in Batch /\ origin \in Origins

\* The file that readOffset counts in is being left, or has been.
Behind ==
  \/ job.then \in {"rotate", "delete"} \/ state = "deleted-wait"
  \/ fd # None /\ fd # origin.ino

OriginOK ==
  /\ origin.ino <= born /\ origin.epoch <= epoch[origin.ino]
  /\ ~slipped => Past(buf, origin) /\ Parted(buf, origin) /\ (Behind => path # origin.ino)

\* Nothing has been read.
Unread(b) ==
  Rows(b) = <<>> /\ b.lost = <<>> /\ b.carry = 0 /\ \A o \in Origins : Past(b, o) /\ Parted(b, o)

\* The lines in b of o are those of cells, read in one piece.
Text(b, o, cells) ==
  LET s == Push(0, o.base, cells)
  IN s.carry = b.carry /\ s.at = b.emitted /\ Read(b, o) = {l.at : l \in ToSet(s.lines)} /\ Sorted(b, o)

\* The file is still the one readOffset counts in.
Intact ==
  /\ ~slipped /\ origin.epoch = epoch[origin.ino]
  /\ fd = origin.ino \/ (fd = None /\ path = origin.ino)

TextOK ==
  /\ buf.emitted + buf.carry = readOffset /\ Counted(buf) = Len(buf.lost)
  /\ job.pc = "new" => Unread(buf)
  /\ Intact =>
       /\ origin.base <= readOffset /\ readOffset <= Size(origin.ino)
       /\ Text(buf, origin, SubSeq(content[origin.ino], origin.base + 1, readOffset))

Told == Buffered /\ OriginOK /\ TextOK
IInv == Control /\ Told

-----------------------------------------------------------------------------
(* Steps that tell the user nothing new. *)

Alike(b, c) ==
  /\ c \in Batch /\ c.carry = b.carry /\ c.emitted = b.emitted /\ Rows(c) = Rows(b) /\ c.lost = b.lost
  /\ Counted(c) = Counted(b)
  /\ \A o \in Origins : (Past(b, o) => Past(c, o)) /\ (Parted(b, o) => Parted(c, o))

LEMMA BatchType ==
  ASSUME NEW b \in Batch
  PROVE  /\ b \in Buf /\ Len(b.pending) < BatchMax /\ b.carry \in 0 .. MaxLine /\ b.emitted \in Nat
         /\ b.lost \in Seq(Line) /\ b.out \in Seq(Event) /\ b.pending \in Seq(Line)
BY BufType DEF Batch

LEMMA AlikeSelf ==
  ASSUME NEW b \in Batch
  PROVE  Alike(b, b)
BY DEF Alike

LEMMA AlikeTimer ==
  ASSUME NEW b \in Batch
  PROVE  Alike(b, [b EXCEPT !.timer = FALSE])
<1>1. PICK c : c = [b EXCEPT !.timer = FALSE]
  OBVIOUS
<1>2. /\ c \in Buf /\ c.carry = b.carry /\ c.emitted = b.emitted /\ c.lost = b.lost /\ c.out = b.out
      /\ c.pending = b.pending /\ c.dropped = b.dropped /\ b \in Buf /\ Len(b.pending) < BatchMax
  BY <1>1 DEF Batch, Buf
<1>3. Rows(c) = Rows(b) /\ \A o \in Origins : (Past(b, o) => Past(c, o)) /\ (Parted(b, o) => Parted(c, o))
  BY <1>2, SameLines
<1>4. Counted(c) = Counted(b)
  BY <1>2 DEF Counted
<1> QED BY <1>1, <1>2, <1>3, <1>4 DEF Alike, Batch

LEMMA AlikeFlush ==
  ASSUME NEW b \in Batch
  PROVE  Alike(b, Flush(b))
<1>1. PICK c : c = Flush(b)
  OBVIOUS
<1>2. b \in Buf
  BY BatchType
<1>3. /\ c \in Buf /\ c.pending = <<>> /\ Rows(c) = Rows(b) /\ Counted(c) = Counted(b)
      /\ c.carry = b.carry /\ c.emitted = b.emitted /\ c.lost = b.lost
  BY <1>1, <1>2, FlushFacts
<1>4. \A o \in Origins : (Past(b, o) => Past(c, o)) /\ (Parted(b, o) => Parted(c, o))
  BY <1>1, <1>2, FlushPast
<1>5. c \in Batch
  BY <1>3, Constants DEF Batch
<1> QED BY <1>1, <1>3, <1>4, <1>5 DEF Alike

LEMMA EmptyBatch ==
  ASSUME NEW c \in Buf, c.pending = <<>>
  PROVE  c \in Batch
<1>1. Len(<<>>) = 0
  OBVIOUS
<1>2. BatchMax \in Nat \ {0}
  BY Constants
<1> QED BY <1>1, <1>2 DEF Batch

LEMMA AlikeEmit ==
  ASSUME NEW b \in Batch, NEW type \in {"log.error", "log.deleted", "read failed"}
  PROVE  Alike(b, Emit(b, type))
<1>1. PICK c : c = Emit(b, type)
  OBVIOUS
<1>2. b \in Buf /\ type \in Types /\ type # "log.entry" /\ type \notin {"log.rotated", "log.truncated"}
  BY BatchType DEF Types
<1>3. /\ c \in Buf /\ c.pending = <<>> /\ Rows(c) = Rows(b) /\ Counted(c) = Counted(b)
      /\ c.carry = b.carry /\ c.emitted = b.emitted /\ c.lost = b.lost
  BY <1>1, <1>2, EmitFacts
<1>4. \A o \in Origins : (Past(b, o) => Past(c, o)) /\ (Parted(b, o) => Parted(c, o))
  BY <1>1, <1>2, EmitPast
<1>5. c \in Batch
  BY <1>3, EmptyBatch
<1> QED BY <1>1, <1>3, <1>4, <1>5 DEF Alike

LEMMA AlikeTrans ==
  ASSUME NEW b, NEW c, NEW d, Alike(b, c), Alike(c, d)
  PROVE  Alike(b, d)
BY DEF Alike

\* Nothing changes but what the check goes on with.
Onward ==
  /\ job'.pc = "new" => job.pc = "new"
  /\ ~slipped /\ (job'.then \in {"rotate", "delete"} \/ state' = "deleted-wait") => Behind \/ path # origin.ino

Along ==
  /\ UNCHANGED <<path, born, content, epoch, readOffset, origin, slipped>>
  /\ Alike(buf, buf') /\ Onward
  /\ fd' = fd \/ fd' = None \/ (fd = None /\ fd' = path)

LEMMA AlongKeeps ==
  ASSUME Control, Told, Along
  PROVE  Told'
<1>1. /\ buf \in Batch /\ origin \in Origins /\ origin' = origin /\ readOffset' = readOffset /\ slipped' = slipped
      /\ UNCHANGED <<path, born, content, epoch>> /\ Alike(buf, buf') /\ origin.ino \in Inodes
  BY DEF Told, Buffered, Along, Origins
<1>2. Buffered'
  BY <1>1 DEF Buffered, Alike
<1>3. ~slipped /\ Behind' => path # origin.ino
  BY <1>1 DEF Told, OriginOK, Behind, Along, Onward
<1>4. OriginOK'
  BY <1>1, <1>3 DEF Told, OriginOK, Alike
<1>5. Intact' => Intact
  BY <1>1, Constants DEF Told, OriginOK, Intact, Behind, Along
<1>6. job'.pc = "new" => Unread(buf')
  BY <1>1 DEF Told, TextOK, Along, Onward, Unread, Alike
<1>7. \A cells : Text(buf, origin, cells) => Text(buf', origin, cells)
  BY <1>1 DEF Text, Alike, Read, Sorted
<1>8. TextOK'
  BY <1>1, <1>5, <1>6, <1>7 DEF Told, TextOK, Alike, Size
<1> QED BY <1>2, <1>4, <1>8 DEF Told

LEMMA AtIs ==
  ASSUME NEW pc, NEW to, NEW then, NEW seen
  PROVE  At(pc, to, then, seen).pc = pc /\ At(pc, to, then, seen).then = then
BY DEF At

LEMMA FinishJob ==
  ASSUME NEW a, Finish(a)
  PROVE  job'.pc \in {"idle", "stat", "retry"} /\ job'.then \in {"end", "reopen"}
BY AtIs DEF Finish, Begin, Idle

LEMMA ReadToJob ==
  ASSUME NEW to, NEW from, ReadTo(to, from)
  PROVE  job'.pc \in {"idle", "stat", "retry", "read"} /\ job'.then \in {"end", "reopen"}
BY AtIs, FinishJob DEF ReadTo, Suspend

LEMMA AfterCloseJob ==
  ASSUME NEW then, NEW seen, NEW b \in Batch, NEW st, AfterClose(then, seen, b, st)
  PROVE  /\ job'.pc # "new" /\ Alike(b, buf')
         /\ job'.then \in {"rotate", "delete"} \/ state' = "deleted-wait" =>
              then \in {"rotate", "delete"} \/ st = "deleted-wait"
<1>1. CASE then = "delete" /\ buf' = Emit(b, "log.deleted") /\ Finish(attempts)
  BY <1>1, FinishJob, AlikeEmit
<1>2. CASE then # "delete" /\ state' = st /\ buf' = b /\ Suspend(At("open", 0, then, seen))
  BY <1>2, AtIs, AlikeSelf DEF Suspend
<1> QED BY <1>1, <1>2 DEF AfterClose

LEMMA CloseFdJob ==
  ASSUME NEW then, NEW seen, NEW b \in Batch, NEW st, CloseFd(then, seen, b, st)
  PROVE  /\ job'.pc # "new" /\ Alike(b, buf') /\ (fd # None => buf' = b)
         /\ job'.then \in {"rotate", "delete"} \/ state' = "deleted-wait" =>
              then \in {"rotate", "delete"} \/ st = "deleted-wait"
<1>1. CASE fd = None /\ AfterClose(then, seen, b, st)
  BY <1>1, AfterCloseJob
<1>2. CASE fd # None /\ state' = st /\ buf' = b /\ Suspend(At("close", 0, then, seen))
  BY <1>2, AtIs, AlikeSelf DEF Suspend
<1> QED BY <1>1, <1>2 DEF CloseFd

LEMMA AfterReadJob ==
  ASSUME NEW b \in Batch, AfterRead(b), fd # None
  PROVE  /\ job'.pc # "new" /\ buf' = b
         /\ job'.then \in {"rotate", "delete"} \/ state' = "deleted-wait" =>
              job.then \in {"rotate", "delete"} \/ state = "deleted-wait"
<1>1. CASE job.then \in {"rotate", "delete"} /\ CloseFd(job.then, job.seen, b, state)
  BY <1>1, CloseFdJob
<1>2. CASE job.then = "watch" /\ job' = Idle /\ buf' = b /\ UNCHANGED state
  BY <1>2, AtIs DEF Idle
<1>3. CASE job.then = "end" /\ buf' = b /\ UNCHANGED state /\ Finish(attempts)
  BY <1>3, FinishJob
<1> QED BY <1>1, <1>2, <1>3 DEF AfterRead

\* A check that is over leaves nothing behind that it had not left before.
LEMMA FinishAlong ==
  ASSUME Told, NEW a, Finish(a), state' = "deleted-wait" => state = "deleted-wait", Alike(buf, buf'),
         UNCHANGED <<path, born, content, epoch, readOffset, origin, slipped>>,
         fd' = fd \/ (fd = None /\ fd' = path)
  PROVE  Along
BY FinishJob DEF Along, Onward, Behind

LEMMA WaitsAlong ==
  ASSUME Control, Told, StartFails \/ Signal \/ RetryDue
  PROVE  Along
<1>1. /\ UNCHANGED <<path, born, content, epoch, readOffset, origin, slipped, fd, state, buf>>
      /\ \/ job' = job \/ job' = At("failed", 0, "end", None)
         \/ job' = At("stat", 0, "end", None) \/ job' = At("retry", 0, "reopen", None)
  BY DEF StartFails, Signal, RetryDue, fs, position
<1>2. Onward
  BY <1>1, AtIs DEF Onward, Behind
<1>3. Alike(buf, buf')
  BY <1>1, AlikeSelf DEF Told, Buffered
<1> QED BY <1>1, <1>2, <1>3 DEF Along

LEMMA StopNowAlike ==
  ASSUME NEW b \in Batch, NEW type \in {"log.error", "log.deleted", "read failed"}, NEW where,
         StopNow(Emit(b, type), where)
  PROVE  state' = "stopped" /\ Alike(b, buf')
<1>1. PICK c : c = Emit(b, type)
  OBVIOUS
<1>2. Alike(b, c) /\ c \in Batch
  BY <1>1, AlikeEmit DEF Alike
<1>3. state' = "stopped" /\ buf' = [c EXCEPT !.timer = FALSE]
  BY <1>1 DEF StopNow
<1>4. Alike(c, buf')
  BY <1>2, <1>3, AlikeTimer
<1> QED BY <1>2, <1>3, <1>4, AlikeTrans

LEMMA StatEndsAlong ==
  ASSUME Control, Told, StatForbidden \/ StatFails \/ StillMissing \/ RetryFails
  PROVE  Along
<1>1. buf \in Batch /\ Alike(buf, buf)
  BY AlikeSelf DEF Told, Buffered
<1>2. UNCHANGED <<path, born, content, epoch, readOffset, origin, slipped, fd>>
  BY DEF StatForbidden, StatFails, StillMissing, RetryFails, fs, position
<1>3. CASE StatForbidden
  <2>1. state' = "permission-wait" /\ buf' = Emit(buf, "log.error") /\ Finish(0)
    BY <1>3 DEF StatForbidden
  <2> QED BY <1>1, <1>2, <2>1, AlikeEmit, FinishAlong
<1>4. CASE StopNow(Emit(buf, "log.error"), "self") /\ Finish(attempts)
  BY <1>1, <1>2, <1>4, StopNowAlike, FinishAlong
<1>5. CASE UNCHANGED <<state, watching, closing, buf, stopAt>> /\ Finish(attempts)
  BY <1>1, <1>2, <1>5, FinishAlong
<1> QED BY <1>3, <1>4, <1>5 DEF StatFails, StillMissing, RetryFails

\* A check that leaves the path has found another file there, or none.
LEMMA LeavingAlong ==
  ASSUME Control, Told, StatMissing \/ StatRotated
  PROVE  Along
<1>1. /\ buf \in Batch /\ origin.ino # None
      /\ UNCHANGED <<path, born, content, epoch, readOffset, origin, slipped, fd>>
  BY Constants DEF StatMissing, StatRotated, fs, position, Told, Buffered, Origins
<1>2. ~slipped => Behind \/ path # origin.ino
  BY <1>1 DEF StatMissing, StatRotated, Behind, Control, DrainOK
<1>3. job'.pc # "new" /\ Alike(buf, buf')
  <2>1. CASE \E then, seen : Suspend(At("drain", 0, then, seen)) /\ UNCHANGED buf
    BY <1>1, <2>1, AtIs, AlikeSelf DEF Suspend
  <2>2. CASE \E then, seen : CloseFd(then, seen, buf, state)
    BY <1>1, <2>2, CloseFdJob
  <2> QED BY <2>1, <2>2 DEF StatMissing, StatRotated
<1> QED BY <1>1, <1>2, <1>3 DEF Along, Onward

LEMMA ClosingAlong ==
  ASSUME Control, Told, Drain \/ RetryOk
  PROVE  Along
<1>1. /\ buf \in Batch
      /\ UNCHANGED <<path, born, content, epoch, readOffset, origin, slipped, fd>>
  BY DEF Drain, RetryOk, fs, position, Told, Buffered
<1>2. CASE Drain
  <2>1. Behind
    BY <1>2 DEF Drain, Control, JobOK, Behind
  <2>2. CASE Suspend(At("read", Size(fd), job.then, job.seen)) /\ UNCHANGED <<state, closing, buf>>
    BY <1>1, <2>1, <2>2, AtIs, AlikeSelf DEF Suspend, Along, Onward
  <2>3. CASE CloseFd(job.then, job.seen, buf, state)
    BY <1>1, <2>1, <2>3, CloseFdJob DEF Along, Onward
  <2> QED BY <1>2, <2>2, <2>3 DEF Drain
<1>3. CASE RetryOk
  <2>1. CloseFd("reopen", None, buf, "active")
    BY <1>3 DEF RetryOk
  <2> QED BY <1>1, <2>1, CloseFdJob DEF Along, Onward
<1> QED BY <1>2, <1>3

LEMMA ReadFailsAlong ==
  ASSUME Control, Told, ReadFails
  PROVE  Along
<1>1. /\ buf \in Batch /\ fd # None /\ AfterRead(Emit(buf, "read failed"))
      /\ UNCHANGED <<path, born, content, epoch, readOffset, origin, slipped, fd>>
  BY DEF ReadFails, position, Told, Buffered, Control, JobOK
<1>2. PICK b : b = Emit(buf, "read failed")
  OBVIOUS
<1>3. Alike(buf, b) /\ b \in Batch
  BY <1>1, <1>2, AlikeEmit DEF Alike
<1>4. AfterRead(b)
  BY <1>1, <1>2
<1> QED BY <1>1, <1>3, <1>4, AfterReadJob DEF Along, Onward, Behind

LEMMA EndsAlong ==
  ASSUME Control, Told, RotateFails \/ FlushFires \/ Stop \/ UNCHANGED vars
  PROVE  Along
<1>1. /\ buf \in Batch
      /\ UNCHANGED <<path, born, content, epoch, readOffset, origin, slipped, fd>>
  BY DEF RotateFails, FlushFires, Stop, vars, fs, position, Told, Buffered
<1>2. CASE RotateFails
  BY <1>1, <1>2, AtIs, AlikeTimer DEF RotateFails, Along, Onward, Behind
<1>3. CASE FlushFires
  BY <1>1, <1>3, AlikeFlush DEF FlushFires, check, Along, Onward, Behind
<1>4. CASE Stop
  BY <1>1, <1>4, AlikeTimer DEF Stop, StopNow, check, Along, Onward, Behind
<1>5. CASE UNCHANGED vars
  BY <1>1, <1>5, AlikeSelf DEF vars, check, Along, Onward, Behind
<1> QED BY <1>2, <1>3, <1>4, <1>5

LEMMA ClosedAlong ==
  ASSUME Control, Told, Closed
  PROVE  Along
<1>1. /\ buf \in Batch /\ fd' = None
      /\ UNCHANGED <<path, born, content, epoch, readOffset, origin, slipped>>
  BY DEF Closed, fs, Told, Buffered
<1>2. CASE AfterClose(job.then, job.seen, buf, state)
  BY <1>1, <1>2, AfterCloseJob DEF Along, Onward, Behind
<1>3. CASE UNCHANGED <<state, buf, check>>
  BY <1>1, <1>3, AlikeSelf DEF check, Along, Onward, Behind
<1> QED BY <1>2, <1>3 DEF Closed

LEMMA SameAlong ==
  ASSUME Control, Told, StatSame \/ ReopenOpens, UNCHANGED <<readOffset, buf, origin>>
  PROVE  Along
<1>1. /\ buf \in Batch /\ UNCHANGED <<path, born, content, epoch, slipped, state>>
      /\ fd' = fd \/ (fd = None /\ fd' = path)
  BY DEF StatSame, ReopenOpens, fs, Told, Buffered, Control, JobOK
<1>2. Alike(buf, buf')
  BY <1>1, AlikeSelf
<1>3. job'.pc \in {"idle", "stat", "retry", "read"} /\ job'.then \in {"end", "reopen"}
  BY ReadToJob, FinishJob DEF StatSame, ReopenOpens
<1> QED BY <1>1, <1>2, <1>3 DEF Along, Onward, Behind

-----------------------------------------------------------------------------
(* Reading on, and starting anew. *)

\* t is the n cells of s after the first m.
IsSlice(S, s, m, n, t) == t \in Seq(S) /\ Len(t) = n /\ \A k \in 1 .. n : t[k] = s[m + k]

LEMMA SliceFacts ==
  ASSUME NEW S, NEW s \in Seq(S), NEW m \in Nat, NEW n \in Nat, n = 0 \/ m + n <= Len(s)
  PROVE  IsSlice(S, s, m, n, SubSeq(s, m + 1, m + n))
<1>1. CASE n = 0
  BY <1>1 DEF IsSlice
<1>2. CASE n # 0
  BY <1>2 DEF IsSlice
<1> QED BY <1>1, <1>2

LEMMA ConcatFacts ==
  ASSUME NEW S, NEW u \in Seq(S), NEW v \in Seq(S)
  PROVE  /\ u \o v \in Seq(S) /\ Len(u \o v) = Len(u) + Len(v)
         /\ \A k \in 1 .. Len(u) + Len(v) : (u \o v)[k] = IF k <= Len(u) THEN u[k] ELSE v[k - Len(u)]
OBVIOUS

\* A slice that is longer by n cells goes on with those n.
LEMMA SliceOn ==
  ASSUME NEW S, NEW s \in Seq(S), NEW b \in Nat, NEW m \in Nat, NEW n \in Nat, b <= m,
         m <= Len(s), n = 0 \/ m + n <= Len(s)
  PROVE  SubSeq(s, b + 1, m + n) = SubSeq(s, b + 1, m) \o SubSeq(s, m + 1, m + n)
<1>1. PICK i : i = m - b
  OBVIOUS
<1>2. i \in Nat /\ b + i = m /\ b + (i + n) = m + n /\ i + n \in Nat
  BY <1>1
<1>3. PICK u, v, w : u = SubSeq(s, b + 1, m) /\ v = SubSeq(s, m + 1, m + n) /\ w = SubSeq(s, b + 1, m + n)
  OBVIOUS
<1>4. u \in Seq(S) /\ Len(u) = i /\ \A k \in 1 .. i : u[k] = s[b + k]
  <2>1. i \in Nat /\ (i = 0 \/ b + i <= Len(s)) /\ u = SubSeq(s, b + 1, b + i)
    BY <1>2, <1>3
  <2>2. IsSlice(S, s, b, i, SubSeq(s, b + 1, b + i))
    BY <2>1, SliceFacts
  <2> QED BY <2>1, <2>2 DEF IsSlice
<1>5. v \in Seq(S) /\ Len(v) = n /\ \A k \in 1 .. n : v[k] = s[m + k]
  <2>1. IsSlice(S, s, m, n, SubSeq(s, m + 1, m + n))
    BY SliceFacts
  <2> QED BY <1>3, <2>1 DEF IsSlice
<1>6. w \in Seq(S) /\ Len(w) = i + n /\ \A k \in 1 .. i + n : w[k] = s[b + k]
  <2>1. PICK j : j = i + n
    OBVIOUS
  <2>2. j \in Nat /\ (j = 0 \/ b + j <= Len(s)) /\ w = SubSeq(s, b + 1, b + j)
    BY <1>2, <1>3, <2>1
  <2>3. IsSlice(S, s, b, j, SubSeq(s, b + 1, b + j))
    BY <2>2, SliceFacts
  <2> QED BY <2>1, <2>2, <2>3 DEF IsSlice
<1>7. PICK z : z = u \o v
  OBVIOUS
<1>8. /\ z \in Seq(S) /\ Len(z) = i + n
      /\ \A k \in 1 .. i + n : z[k] = IF k <= i THEN u[k] ELSE v[k - i]
  <2>1. u \in Seq(S) /\ v \in Seq(S) /\ Len(u) = i /\ Len(v) = n
    BY <1>4, <1>5
  <2>2. /\ u \o v \in Seq(S) /\ Len(u \o v) = Len(u) + Len(v)
        /\ \A k \in 1 .. Len(u) + Len(v) : (u \o v)[k] = IF k <= Len(u) THEN u[k] ELSE v[k - Len(u)]
    BY <2>1, ConcatFacts
  <2> QED BY <1>7, <2>1, <2>2
<1>9. ASSUME NEW k \in 1 .. i + n PROVE z[k] = w[k]
  <2>1. CASE k <= i
    <3>1. k \in 1 .. i
      BY <1>2, <2>1
    <3> QED BY <1>4, <1>6, <1>8, <2>1, <3>1
  <2>2. CASE ~(k <= i)
    <3>1. k - i \in 1 .. n /\ m + (k - i) = b + k
      BY <1>2, <2>2
    <3>2. v[k - i] = s[m + (k - i)]
      BY <1>5, <3>1
    <3> QED BY <1>6, <1>8, <2>2, <3>1, <3>2
  <2> QED BY <2>1, <2>2
<1>10. z = w
  <2>1. DOMAIN z = 1 .. Len(z) /\ DOMAIN w = 1 .. Len(w)
    BY <1>6, <1>8
  <2>2. z = [k \in 1 .. i + n |-> z[k]] /\ w = [k \in 1 .. i + n |-> w[k]]
    BY <1>6, <1>8, <2>1
  <2> QED BY <1>9, <2>2
<1> QED BY <1>3, <1>7, <1>10

LEMMA SetOfBoth ==
  ASSUME NEW S, NEW s \in Seq(S), NEW t \in Seq(S)
  PROVE  ToSet(s \o t) = ToSet(s) \cup ToSet(t)
<1>1. PICK z, m, n : z = s \o t /\ m = Len(s) /\ n = Len(t)
  OBVIOUS
<1>2. /\ m \in Nat /\ n \in Nat /\ DOMAIN z = 1 .. m + n /\ DOMAIN s = 1 .. m /\ DOMAIN t = 1 .. n
      /\ \A k \in 1 .. m + n : z[k] = IF k <= m THEN s[k] ELSE t[k - m]
  BY <1>1
<1>3. ASSUME NEW x \in ToSet(z) PROVE x \in ToSet(s) \cup ToSet(t)
  <2>1. PICK k \in 1 .. m + n : x = z[k]
    BY <1>2 DEF ToSet
  <2>2. CASE k <= m
    <3>1. k \in DOMAIN s /\ s[k] = x
      BY <1>2, <2>1, <2>2
    <3> QED BY <3>1 DEF ToSet
  <2>3. CASE ~(k <= m)
    <3>1. k - m \in DOMAIN t /\ t[k - m] = x
      BY <1>2, <2>1, <2>3
    <3> QED BY <3>1 DEF ToSet
  <2> QED BY <2>2, <2>3
<1>4. ASSUME NEW x \in ToSet(s) PROVE x \in ToSet(z)
  <2>1. PICK k \in 1 .. m : x = s[k]
    BY <1>2 DEF ToSet
  <2>2. k \in DOMAIN z /\ z[k] = x
    BY <1>2, <2>1
  <2> QED BY <2>2 DEF ToSet
<1>5. ASSUME NEW x \in ToSet(t) PROVE x \in ToSet(z)
  <2>1. PICK k \in 1 .. n : x = t[k]
    BY <1>2 DEF ToSet
  <2>2. k + m \in 1 .. m + n /\ ~(k + m <= m) /\ (k + m) - m = k
    BY <1>2
  <2>3. k + m \in DOMAIN z /\ z[k + m] = x
    BY <1>2, <2>1, <2>2
  <2> QED BY <2>3 DEF ToSet
<1> QED BY <1>1, <1>3, <1>4, <1>5

LEMMA PushNothing ==
  ASSUME NEW at \in Nat
  PROVE  LET s == Push(0, at, <<>>) IN s.carry = 0 /\ s.at = at /\ s.lines = <<>>
<1>1. 0 \in 0 .. MaxLine /\ <<>> \in Seq(BOOLEAN) /\ Len(<<>>) = 0
  BY Constants
<1>2. PICK none, z : none = <<>> /\ z = 0
  OBVIOUS
<1>3. PICK f : f = Splits(z, at, none)
  OBVIOUS
<1>4. f[0] = First(z, at)
  <2>1. z \in 0 .. MaxLine /\ none \in Seq(BOOLEAN)
    BY <1>1, <1>2
  <2>2. Splits(z, at, none)[0] = First(z, at)
    BY <2>1, SplitsSteps
  <2> QED BY <1>3, <2>2
<1>5. First(z, at).carry = 0 /\ First(z, at).at = at /\ First(z, at).lines = <<>>
  BY <1>2 DEF First
<1>6. Push(0, at, <<>>) = f[0]
  BY <1>1, <1>2, <1>3 DEF Push
<1> QED BY <1>4, <1>5, <1>6

\* The reading of a chunk goes on where the last one ended.
LEMMA TextOn ==
  ASSUME NEW b \in Batch, NEW o \in Origins, NEW early \in Seq(BOOLEAN), NEW late \in Seq(BOOLEAN),
         NEW fresh \in BOOLEAN, Text(b, o, early)
  PROVE  Text(Deliver(b, late, o, fresh), o, early \o late)
<1>1. PICK s, t, w, d : /\ s = Push(0, o.base, early) /\ t = Push(b.carry, b.emitted, late)
                        /\ w = Push(0, o.base, early \o late) /\ d = Deliver(b, late, o, fresh)
  <2>1. PICK text : text = early \o late
    OBVIOUS
  <2>2. PICK s : s = Push(0, o.base, early)
    OBVIOUS
  <2>3. PICK t : t = Push(b.carry, b.emitted, late)
    OBVIOUS
  <2>4. PICK w : w = Push(0, o.base, text)
    OBVIOUS
  <2>5. PICK d : d = Deliver(b, late, o, fresh)
    OBVIOUS
  <2> QED BY <2>1, <2>2, <2>3, <2>4, <2>5
<1>2. /\ s.carry = b.carry /\ s.at = b.emitted /\ Read(b, o) = {l.at : l \in ToSet(s.lines)} /\ Sorted(b, o)
  BY <1>1 DEF Text
<1>3. w.carry = t.carry /\ w.at = t.at /\ w.lines = s.lines \o t.lines
  <2>1. 0 \in 0 .. MaxLine /\ o.base \in Nat
    BY Constants DEF Origins
  <2>2. PICK zero, base : zero = 0 /\ base = o.base
    OBVIOUS
  <2>3. zero \in 0 .. MaxLine /\ base \in Nat
    BY <2>1, <2>2
  <2>4. /\ s = Push(zero, base, early) /\ t = Push(s.carry, s.at, late) /\ w = Push(zero, base, early \o late)
    BY <1>1, <1>2, <2>2
  <2> QED BY <2>3, <2>4, PushInPieces
<1>4. /\ d.carry = t.carry /\ d.emitted = t.at /\ t \in Split
      /\ Sorted(d, o) /\ Read(d, o) = Read(b, o) \cup {l.at : l \in ToSet(t.lines)}
  <2>1. t = Push(b.carry, b.emitted, late) /\ d = Deliver(b, late, o, fresh)
    BY <1>1
  <2>2. /\ d.carry = t.carry /\ d.emitted = t.at /\ t \in Split
        /\ Sorted(b, o) => Sorted(d, o) /\ Read(d, o) = Read(b, o) \cup {l.at : l \in ToSet(t.lines)}
    BY <2>1, DeliverFacts
  <2> QED BY <1>2, <2>2
<1>5. s \in Split
  <2>1. o.base \in Nat /\ 0 \in 0 .. MaxLine /\ Len(early) \in 0 .. Len(early)
    BY Constants DEF Origins
  <2>2. PICK zero, base, f : zero = 0 /\ base = o.base /\ f = Splits(zero, base, early)
    <3>1. PICK zero, base : zero = 0 /\ base = o.base
      OBVIOUS
    <3>2. PICK f : f = Splits(zero, base, early)
      OBVIOUS
    <3> QED BY <3>1, <3>2
  <2>3. zero \in 0 .. MaxLine /\ base \in Nat
    BY <2>1, <2>2
  <2>4. f \in [0 .. Len(early) -> Split]
    BY <2>2, <2>3, SplitsSteps
  <2>5. s = f[Len(early)]
    BY <1>1, <2>2 DEF Push
  <2> QED BY <2>1, <2>4, <2>5
<1>6. {l.at : l \in ToSet(w.lines)} = {l.at : l \in ToSet(s.lines)} \cup {l.at : l \in ToSet(t.lines)}
  <2>1. s.lines \in Seq(Piece) /\ t.lines \in Seq(Piece)
    BY <1>4, <1>5 DEF Split
  <2>2. ToSet(w.lines) = ToSet(s.lines) \cup ToSet(t.lines)
    BY <1>3, <2>1, SetOfBoth
  <2> QED BY <2>2
<1>7. Text(d, o, early \o late)
  BY <1>1, <1>2, <1>3, <1>4, <1>6 DEF Text
<1> QED BY <1>1, <1>7

LEMMA ReadChunkTold ==
  ASSUME Control, Told, ReadChunk
  PROVE  Told'
<1>1. /\ job.pc = "read" /\ fd \in Inodes /\ fd # None /\ job.to \in Nat /\ readOffset \in Nat
      /\ buf \in Batch /\ origin \in Origins
      /\ UNCHANGED <<path, born, content, epoch, fd, origin, slipped>>
  BY Constants DEF ReadChunk, fs, Control, Typed, JobOK, JobType, Told, Buffered
<1>2. content[fd] \in Seq(BOOLEAN) /\ Size(fd) = Len(content[fd]) /\ Size(fd) \in Nat
  BY <1>1, SizeType DEF Control
<1>3. PICK n : n = Max2(0, Min2(Chunk, Min2(job.to, Size(fd)) - readOffset))
  OBVIOUS
<1>4. n \in Nat /\ (n = 0 \/ readOffset + n <= Size(fd))
  BY <1>1, <1>2, <1>3, Constants DEF Max2, Min2
<1>5. PICK cells : cells = SubSeq(content[fd], readOffset + 1, readOffset + n)
  OBVIOUS
<1>6. cells \in Seq(BOOLEAN) /\ Len(cells) = n
  <2>1. IsSlice(BOOLEAN, content[fd], readOffset, n, SubSeq(content[fd], readOffset + 1, readOffset + n))
    BY <1>1, <1>2, <1>4, SliceFacts
  <2> QED BY <1>5, <2>1 DEF IsSlice
<1>7. PICK fresh \in BOOLEAN :
        /\ readOffset' = readOffset + n
        /\ \/ /\ buf' = Deliver(buf, cells, origin, fresh)
              /\ UNCHANGED <<state, closing, watching, check>>
           \/ AfterRead(Deliver(buf, cells, origin, fresh))
  BY <1>3, <1>5 DEF ReadChunk
<1>8. PICK s, d : s = Push(buf.carry, buf.emitted, cells) /\ d = Deliver(buf, cells, origin, fresh)
  <2>1. PICK s : s = Push(buf.carry, buf.emitted, cells)
    OBVIOUS
  <2>2. PICK d : d = Deliver(buf, cells, origin, fresh)
    OBVIOUS
  <2> QED BY <2>1, <2>2
<1>9. /\ d \in Batch /\ d.carry = s.carry /\ d.emitted = s.at
      /\ s.at + s.carry = buf.emitted + buf.carry + n
      /\ (Past(buf, origin) => Past(d, origin)) /\ (Parted(buf, origin) => Parted(d, origin))
      /\ (Counted(buf) = Len(buf.lost) => Counted(d) = Len(d.lost))
  BY <1>1, <1>6, <1>8, DeliverFacts
<1>10. buf' = d /\ Onward
  <2>1. CASE buf' = d /\ UNCHANGED <<state, closing, watching, check>>
    BY <2>1 DEF Onward, Behind, check
  <2>2. CASE AfterRead(d)
    BY <1>1, <1>9, <2>2, AfterReadJob DEF Onward, Behind
  <2> QED BY <1>7, <1>8, <2>1, <2>2
<1>11. Buffered'
  BY <1>1, <1>9, <1>10 DEF Buffered
<1>12. OriginOK'
  BY <1>1, <1>9, <1>10 DEF Told, OriginOK, Behind, Onward
<1>13. ASSUME Intact'
       PROVE  /\ origin.base <= readOffset' /\ readOffset' <= Size(origin.ino)
              /\ Text(d, origin, SubSeq(content[origin.ino], origin.base + 1, readOffset'))
  <2>1. fd = origin.ino /\ Intact
    BY <1>1, <1>13 DEF Intact
  <2>2. /\ origin.base <= readOffset /\ readOffset <= Size(fd)
        /\ Text(buf, origin, SubSeq(content[fd], origin.base + 1, readOffset))
    BY <2>1 DEF Told, TextOK
  <2>3. PICK early, base : early = SubSeq(content[fd], base + 1, readOffset) /\ base = origin.base
    OBVIOUS
  <2>4. base \in Nat /\ base <= readOffset
    BY <1>1, <2>2, <2>3 DEF Origins
  <2>5. early \in Seq(BOOLEAN)
    <3>1. PICK i : i = readOffset - base
      OBVIOUS
    <3>2. i \in Nat /\ base + i = readOffset /\ base + i <= Len(content[fd])
      BY <1>1, <1>2, <2>2, <2>3, <2>4, <3>1
    <3>3. early = SubSeq(content[fd], base + 1, base + i)
      BY <2>3, <3>2
    <3>4. IsSlice(BOOLEAN, content[fd], base, i, SubSeq(content[fd], base + 1, base + i))
      BY <1>2, <2>4, <3>2, SliceFacts
    <3> QED BY <3>3, <3>4 DEF IsSlice
  <2>6. Text(d, origin, early \o cells)
    BY <1>1, <1>6, <1>8, <2>2, <2>3, <2>5, TextOn
  <2>7. early \o cells = SubSeq(content[fd], base + 1, readOffset + n)
    <3>1. PICK text, m : text = content[fd] /\ m = readOffset
      OBVIOUS
    <3>2. text \in Seq(BOOLEAN) /\ m \in Nat /\ m <= Len(text) /\ base <= m /\ (n = 0 \/ m + n <= Len(text))
      BY <1>1, <1>2, <1>4, <2>2, <2>4, <3>1
    <3>3. SubSeq(text, base + 1, m + n) = SubSeq(text, base + 1, m) \o SubSeq(text, m + 1, m + n)
      BY <1>4, <2>4, <3>2, SliceOn
    <3> QED BY <1>5, <2>3, <3>1, <3>3
  <2>8. base <= readOffset' /\ readOffset' <= Size(fd)
    BY <1>1, <1>2, <1>4, <1>7, <2>2, <2>3, <2>4
  <2> QED BY <1>7, <2>1, <2>3, <2>6, <2>7, <2>8
<1>14. buf'.emitted + buf'.carry = readOffset' /\ Counted(buf') = Len(buf'.lost)
  <2>1. buf.emitted + buf.carry = readOffset /\ Counted(buf) = Len(buf.lost)
    BY DEF Told, TextOK
  <2> QED BY <1>7, <1>9, <1>10, <2>1
<1>15. job'.pc # "new"
  BY <1>1, <1>10 DEF Onward
<1>16. TextOK'
  <2>1. UNCHANGED <<content, origin>> /\ Size(origin.ino)' = Size(origin.ino)
    BY <1>1 DEF Size
  <2> QED BY <1>10, <1>13, <1>14, <1>15, <2>1 DEF TextOK
<1> QED BY <1>11, <1>12, <1>16 DEF Told

LEMMA StartsAnew ==
  ASSUME Buffered', (origin.ino <= born)', (origin.epoch = epoch[origin.ino])', (origin.base <= Size(origin.ino))',
         readOffset' = origin'.base, buf'.carry = 0, buf'.emitted = readOffset', Counted(buf') = Len(buf'.lost),
         job'.pc # "new", job'.then \notin {"rotate", "delete"}, state' # "deleted-wait", fd' = origin'.ino,
         (epoch[origin.ino] \in Nat)',
         ~slipped' => /\ Past(buf', origin') /\ Parted(buf', origin') /\ Sorted(buf', origin')
                      /\ Read(buf', origin') = {}
  PROVE  Told'
<1>1. ~Behind'
  BY DEF Behind
<1>2. OriginOK'
  BY <1>1 DEF OriginOK
<1>3. ~slipped' => Text(buf', origin', SubSeq(content'[origin'.ino], origin'.base + 1, readOffset'))
  <2> SUFFICES ASSUME ~slipped' PROVE Text(buf', origin', SubSeq(content'[origin'.ino], origin'.base + 1, readOffset'))
    OBVIOUS
  <2>1. PICK at, cells, f : /\ at = origin'.base /\ f = content'[origin'.ino]
                            /\ cells = SubSeq(content'[origin'.ino], origin'.base + 1, readOffset')
    OBVIOUS
  <2>2. at \in Nat /\ readOffset' = at
    BY <2>1 DEF Buffered, Origins
  <2>3. cells = <<>>
    <3>1. cells = SubSeq(f, at + 1, at)
      BY <2>1, <2>2
    <3> QED BY <2>2, <3>1
  <2>4. PICK s : s = Push(0, at, cells)
    OBVIOUS
  <2>5. s.carry = 0 /\ s.at = at /\ s.lines = <<>>
    BY <2>2, <2>3, <2>4, PushNothing
  <2>6. {l.at : l \in ToSet(s.lines)} = {}
    BY <2>5 DEF ToSet
  <2> QED BY <2>1, <2>2, <2>4, <2>5, <2>6 DEF Text
<1>4. readOffset' \in Nat
  BY DEF Buffered, Origins
<1>5. buf'.emitted + buf'.carry = readOffset'
  BY <1>4
<1>6. TextOK'
  BY <1>3, <1>4, <1>5 DEF TextOK, Intact
<1> QED BY <1>2, <1>6 DEF Told

\* From the start of a file, or of the same one after it shrank.
LEMMA Rewound ==
  ASSUME Control, Told, NEW i \in Inodes, i <= born, UNCHANGED <<born, content, epoch>>,
         origin' = Whole(i), readOffset' = 0, fd' = i,
         job'.pc # "new", job'.then \notin {"rotate", "delete"}, state' # "deleted-wait",
         NEW type \in {"log.rotated", "log.truncated"},
         buf' = Rewind(buf) \/ buf' = Emit(Rewind(buf), type),
         ~slipped' => ~slipped /\ Before(origin, Whole(i))
  PROVE  Told'
<1>1. PICK o, p, b, c : o = origin /\ p = Whole(i) /\ b = Rewind(buf) /\ c = buf'
  OBVIOUS
<1>2. p \in Origins /\ p.ino = i /\ p.epoch = epoch[i] /\ p.base = 0 /\ epoch[i] \in Nat
  BY <1>1 DEF Whole, Origins, Control, Typed
<1>3. o \in Origins /\ buf \in Buf /\ Len(buf.pending) < BatchMax /\ Counted(buf) = Len(buf.lost)
  BY <1>1, BatchType DEF Told, Buffered, TextOK
<1>4. /\ b \in Buf /\ b.carry = 0 /\ b.emitted = 0 /\ b.pending = buf.pending /\ b.lost = buf.lost
      /\ Rows(b) = Rows(buf) /\ Counted(b) = Counted(buf)
      /\ (Past(buf, o) => Past(b, o)) /\ (Parted(buf, o) => Parted(b, o))
  BY <1>1, <1>3, RewindFacts
<1>5. type \in Types /\ type # "log.entry"
  BY DEF Types
<1>6. /\ c \in Batch /\ c.carry = 0 /\ c.emitted = 0 /\ c.lost = buf.lost /\ Rows(c) = Rows(buf)
      /\ Counted(c) = Counted(buf)
  <2>1. CASE c = b
    BY <1>3, <1>4, <2>1 DEF Batch
  <2>2. CASE c = Emit(b, type)
    BY <1>4, <1>5, <2>2, EmitFacts, EmptyBatch
  <2> QED BY <1>1, <2>1, <2>2
<1>7. ASSUME ~slipped' PROVE Past(c, p) /\ Parted(c, p) /\ Sorted(c, p) /\ Read(c, p) = {}
  <2>1. Past(buf, o) /\ Parted(buf, o) /\ Before(o, p)
    BY <1>1, <1>7 DEF Told, OriginOK
  <2>2. Past(c, p) /\ Parted(c, p)
    <3>1. CASE c = b
      BY <1>2, <1>3, <1>4, <2>1, <3>1, LaterOrigin
    <3>2. CASE c = Emit(b, type)
      BY <1>2, <1>3, <1>4, <1>5, <2>1, <3>2, EmitPast
    <3> QED BY <1>1, <3>1, <3>2
  <2>3. Sorted(buf, p) /\ Read(buf, p) = {}
    BY <1>2, <1>3, <2>1, NothingRead
  <2>4. Ends(Rows(buf), p) = {} /\ Ends(buf.lost, p) = {}
    BY <2>3 DEF Read
  <2> QED BY <1>6, <2>2, <2>3, <2>4 DEF Sorted, Read
<1>8. Buffered'
  BY <1>1, <1>2, <1>6 DEF Buffered
<1>9. Size(i)' \in Nat /\ Size(i)' = Size(i)
  <2>1. Size(i) \in Nat
    BY SizeType DEF Control
  <2> QED BY <2>1 DEF Size
<1>10. /\ (origin.ino <= born)' /\ (origin.epoch = epoch[origin.ino])' /\ (origin.base <= Size(origin.ino))'
       /\ (epoch[origin.ino] \in Nat)' /\ fd' = origin'.ino /\ readOffset' = origin'.base
  BY <1>1, <1>2, <1>9 DEF Size
<1>11. /\ buf'.carry = 0 /\ buf'.emitted = readOffset' /\ Counted(buf') = Len(buf'.lost)
       /\ ~slipped' => /\ Past(buf', origin') /\ Parted(buf', origin') /\ Sorted(buf', origin')
                       /\ Read(buf', origin') = {}
  BY <1>1, <1>3, <1>6, <1>7
<1> QED BY <1>8, <1>10, <1>11, StartsAnew

\* The file at the path is a later one, or the same after it was truncated.
LEMMA LaterFile ==
  ASSUME Control, Told, ~slipped, path # None, Behind \/ fd = None \/ fd = path,
         Behind \/ Size(path) < readOffset
  PROVE  Before(origin, Whole(path))
<1>1. /\ path \in Inodes /\ path = born /\ epoch[path] \in Nat /\ readOffset \in Nat /\ path \in Nat
      /\ origin.ino \in Inodes /\ origin.ino \in Nat /\ origin.epoch \in Nat /\ Size(path) \in Nat
  <2>1. path \in Inodes /\ path = born /\ epoch \in [Inodes -> Nat] /\ readOffset \in Nat
    BY DEF Control, Typed, FilesOK
  <2>2. origin.ino \in Inodes /\ origin.epoch \in Nat
    BY DEF Told, Buffered, Origins
  <2>3. Size(path) \in Nat
    BY <2>1, SizeType DEF Control
  <2>4. Inodes \subseteq Nat
    BY Constants
  <2> QED BY <2>1, <2>2, <2>3, <2>4
<1>2. /\ origin.ino <= born /\ origin.epoch <= epoch[origin.ino] /\ (Behind => path # origin.ino)
      /\ Intact => readOffset <= Size(origin.ino)
  BY DEF Told, OriginOK, TextOK
<1>3. Whole(path).ino = path /\ Whole(path).epoch = epoch[path]
  BY DEF Whole
<1>4. CASE path # origin.ino
  <2>1. origin.ino < path
    BY <1>1, <1>2, <1>4
  <2> QED BY <1>3, <2>1 DEF Before
<1>5. CASE path = origin.ino
  <2>1. origin.epoch # epoch[path]
    BY <1>1, <1>2, <1>5 DEF Intact
  <2> QED BY <1>1, <1>2, <1>3, <1>5, <2>1 DEF Before
<1> QED BY <1>4, <1>5

LEMMA RewindsTold ==
  ASSUME Control, Told, StatSame \/ ReopenOpens \/ RotateOpens
  PROVE  Told'
<1>1. CASE (StatSame \/ ReopenOpens) /\ UNCHANGED <<readOffset, buf, origin>>
  BY <1>1, SameAlong, AlongKeeps
<1>2. CASE /\ StatSame /\ fd # None /\ path = ino /\ Size(path) < readOffset /\ readOffset' = 0
           /\ origin' = Whole(fd) /\ buf' = Emit(Rewind(buf), "log.truncated") /\ ReadTo(Size(path), 0)
  <2>1. /\ path # None /\ state # "deleted-wait" /\ UNCHANGED <<path, born, content, epoch, state, fd, slipped>>
    BY <1>2 DEF StatSame, fs
  <2>2. fd \in Inodes /\ fd <= born /\ (~slipped => fd = path)
    BY <1>2 DEF Control, Typed, FilesOK, DrainOK
  <2>3. ~slipped => Before(origin, Whole(fd))
    BY <1>2, <2>1, <2>2, LaterFile
  <2>4. job'.pc # "new" /\ job'.then \notin {"rotate", "delete"}
    BY <1>2, ReadToJob
  <2>5. PICK i \in Inodes : i = fd
    BY <2>2
  <2>6. i <= born /\ origin' = Whole(i) /\ fd' = i /\ (~slipped' => ~slipped /\ Before(origin, Whole(i)))
    BY <1>2, <2>1, <2>2, <2>3, <2>5
  <2>7. PICK type \in {"log.rotated", "log.truncated"} : type = "log.truncated"
    OBVIOUS
  <2>8. buf' = Emit(Rewind(buf), type) /\ state' # "deleted-wait" /\ readOffset' = 0
    BY <1>2, <2>1, <2>7
  <2> QED BY <2>1, <2>4, <2>6, <2>8, Rewound
<1>3. CASE /\ ReopenOpens /\ Size(path) < readOffset /\ readOffset' = 0
           /\ buf' = Rewind(buf) /\ origin' = Whole(path)
  <2>1. /\ path # None /\ path \in Inodes /\ job.pc = "open" /\ job.then = "reopen" /\ fd' = path /\ fd = None
        /\ UNCHANGED <<path, born, content, epoch, state, slipped>> /\ ReadTo(Size(path), readOffset')
    BY <1>3 DEF ReopenOpens, CanOpen, fs, Control, Typed, JobOK
  <2>2. path <= born /\ state' # "deleted-wait"
    BY <2>1, Constants DEF Control, FilesOK, JobOK
  <2>3. ~slipped => Before(origin, Whole(path))
    BY <1>3, <2>1, LaterFile
  <2>4. job'.pc # "new" /\ job'.then \notin {"rotate", "delete"}
    BY <2>1, ReadToJob
  <2>5. PICK type \in {"log.rotated", "log.truncated"} : type = "log.truncated"
    OBVIOUS
  <2> QED BY <1>3, <2>1, <2>2, <2>3, <2>4, Rewound
<1>4. CASE RotateOpens
  <2>1. /\ path # None /\ path \in Inodes /\ job.pc = "open" /\ job.then = "rotate" /\ fd' = path /\ fd = None
        /\ UNCHANGED <<path, born, content, epoch>> /\ ReadTo(Size(path), 0) /\ state' = "active"
        /\ readOffset' = 0 /\ origin' = Whole(path) /\ (~slipped' => ~slipped)
    BY <1>4 DEF RotateOpens, CanOpen, fs, Control, Typed, JobOK
  <2>2. path <= born
    BY <2>1, Constants DEF Control, FilesOK
  <2>3. Behind
    BY <2>1 DEF Behind
  <2>4. ~slipped => Before(origin, Whole(path))
    BY <2>1, <2>3, LaterFile
  <2>5. job'.pc # "new" /\ job'.then \notin {"rotate", "delete"}
    BY <2>1, ReadToJob
  <2>6. PICK type \in {"log.rotated", "log.truncated"} : type = "log.rotated"
    OBVIOUS
  <2>7. buf' = Emit(Rewind(buf), type) /\ state' # "deleted-wait"
    BY <1>4, <2>1, <2>6 DEF RotateOpens
  <2> QED BY <2>1, <2>2, <2>4, <2>5, <2>7, Rewound
<1>5. StatSame => \/ UNCHANGED <<readOffset, buf, origin>>
                  \/ /\ fd # None /\ path = ino /\ Size(path) < readOffset /\ readOffset' = 0
                     /\ origin' = Whole(fd) /\ buf' = Emit(Rewind(buf), "log.truncated") /\ ReadTo(Size(path), 0)
  BY DEF StatSame
<1>6. ReopenOpens => \/ UNCHANGED <<readOffset, buf, origin>>
                     \/ /\ Size(path) < readOffset /\ readOffset' = 0
                        /\ buf' = Rewind(buf) /\ origin' = Whole(path)
  BY DEF ReopenOpens
<1> QED BY <1>1, <1>2, <1>3, <1>4, <1>5, <1>6

LEMMA StartOpensTold ==
  ASSUME Control, Told, StartOpens
  PROVE  Told'
<1>1. /\ job.pc = "new" /\ path # None /\ path \in Inodes /\ state' = "active" /\ fd' = path
      /\ UNCHANGED <<path, born, content, epoch, slipped>> /\ buf \in Batch /\ epoch[path] \in Nat
  BY DEF StartOpens, CanOpen, fs, Control, Typed, Told, Buffered
<1>2. path <= born
  BY <1>1, Constants DEF Control, FilesOK
<1>3. PICK fromEnd \in BOOLEAN :
        LET size == Size(path)
            start == IF fromEnd THEN size ELSE Max2(0, size - Backfill)
        IN /\ readOffset' = start /\ buf' = [buf EXCEPT !.emitted = start]
           /\ origin' = [ino |-> path, epoch |-> epoch[path], base |-> start]
           /\ job' = IF start < size THEN At("read", size, "watch", None) ELSE Idle
  BY DEF StartOpens
<1>4. PICK size : size = Size(path)
  OBVIOUS
<1>5. PICK start : start = IF fromEnd THEN size ELSE Max2(0, size - Backfill)
  OBVIOUS
<1>6. /\ readOffset' = start /\ buf' = [buf EXCEPT !.emitted = start]
      /\ origin' = [ino |-> path, epoch |-> epoch[path], base |-> start]
      /\ job' = IF start < size THEN At("read", size, "watch", None) ELSE Idle
  BY <1>3, <1>4, <1>5
<1>7. size \in Nat /\ start \in Nat /\ start <= size
  <2>1. size \in Nat
    BY <1>1, <1>4, SizeType DEF Control
  <2> QED BY <1>5, <2>1, Constants DEF Max2
<1>8. /\ origin' \in Origins /\ origin'.ino = path /\ origin'.epoch = epoch[path] /\ origin'.base = start
  BY <1>1, <1>6, <1>7 DEF Origins
<1>9. Unread(buf) /\ Counted(buf) = Len(buf.lost)
  BY <1>1 DEF Told, TextOK
<1>10. PICK c : c = buf'
  OBVIOUS
<1>11. /\ c \in Buf /\ c.carry = buf.carry /\ c.emitted = start /\ c.out = buf.out /\ c.pending = buf.pending
       /\ c.lost = buf.lost /\ c.dropped = buf.dropped /\ buf \in Buf /\ Len(buf.pending) < BatchMax
  BY <1>1, <1>6, <1>7, <1>10 DEF Batch, Buf
<1>12. Rows(c) = <<>> /\ c.lost = <<>> /\ c.carry = 0 /\ Past(c, origin') /\ Parted(c, origin')
  BY <1>8, <1>9, <1>11, SameLines DEF Unread
<1>13. Counted(c) = Len(c.lost)
  BY <1>9, <1>11 DEF Counted
<1>14. Ends(<<>>, origin') = {} /\ Ascend(<<>>, origin')
  BY DEF Ends, Ascend, ToSet
<1>15. Sorted(c, origin') /\ Read(c, origin') = {}
  BY <1>12, <1>14 DEF Sorted, Read
<1>16. job'.pc # "new" /\ job'.then \notin {"rotate", "delete"}
  BY <1>6, AtIs DEF Idle
<1>17. Buffered'
  BY <1>8, <1>10, <1>11 DEF Buffered, Batch
<1>18. /\ (origin.ino <= born)' /\ (origin.epoch = epoch[origin.ino])' /\ (origin.base <= Size(origin.ino))'
       /\ (epoch[origin.ino] \in Nat)' /\ fd' = origin'.ino /\ readOffset' = origin'.base
  BY <1>1, <1>2, <1>4, <1>6, <1>7, <1>8 DEF Size
<1> QED BY <1>1, <1>6, <1>10, <1>11, <1>12, <1>13, <1>15, <1>16, <1>17, <1>18, StartsAnew

-----------------------------------------------------------------------------
(* The other programs, and the invariant. *)

\* What is appended does not change what was read.
LEMMA SliceSame ==
  ASSUME NEW S, NEW s \in Seq(S), NEW e \in S, NEW b \in Nat, NEW m \in Nat, m <= Len(s)
  PROVE  SubSeq(Append(s, e), b + 1, m) = SubSeq(s, b + 1, m)
<1>1. PICK t : t = Append(s, e)
  OBVIOUS
<1>2. t \in Seq(S) /\ Len(t) = Len(s) + 1 /\ \A k \in 1 .. Len(s) : t[k] = s[k]
  BY <1>1
<1>3. CASE m <= b
  BY <1>1, <1>2, <1>3
<1>4. CASE b < m
  <2>1. PICK i : i = m - b
    OBVIOUS
  <2>2. i \in Nat /\ b + i = m /\ b + i <= Len(s) /\ b + i <= Len(t)
    BY <1>2, <1>4, <2>1
  <2>3. PICK u, v : u = SubSeq(s, b + 1, b + i) /\ v = SubSeq(t, b + 1, b + i)
    OBVIOUS
  <2>4. u \in Seq(S) /\ Len(u) = i /\ \A k \in 1 .. i : u[k] = s[b + k]
    <3>1. i \in Nat /\ b + i <= Len(s)
      BY <2>2
    <3>2. IsSlice(S, s, b, i, SubSeq(s, b + 1, b + i))
      BY <3>1, SliceFacts
    <3> QED BY <2>3, <3>2 DEF IsSlice
  <2>5. v \in Seq(S) /\ Len(v) = i /\ \A k \in 1 .. i : v[k] = t[b + k]
    <3>1. t \in Seq(S) /\ i \in Nat /\ b + i <= Len(t)
      BY <1>2, <2>2
    <3>2. IsSlice(S, t, b, i, SubSeq(t, b + 1, b + i))
      BY <3>1, SliceFacts
    <3> QED BY <2>3, <3>2 DEF IsSlice
  <2>6. ASSUME NEW k \in 1 .. i PROVE u[k] = v[k]
    <3>1. b + k \in 1 .. Len(s)
      BY <2>2
    <3> QED BY <1>2, <2>4, <2>5, <3>1
  <2>7. u = [k \in 1 .. i |-> u[k]] /\ v = [k \in 1 .. i |-> v[k]]
    BY <2>4, <2>5
  <2>8. u = v
    BY <2>6, <2>7
  <2> QED BY <1>1, <2>2, <2>3, <2>8
<1> QED BY <1>3, <1>4

LEMMA WorldTold ==
  ASSUME Control, Told, UNCHANGED tailer, born <= born', path' = path \/ path' # origin.ino, born \in Int, born' \in Int,
         epoch'[origin.ino] \in Nat, epoch[origin.ino] <= epoch'[origin.ino],
         epoch'[origin.ino] = epoch[origin.ino] =>
           \/ content'[origin.ino] = content[origin.ino]
           \/ \E c \in BOOLEAN : content'[origin.ino] = Append(content[origin.ino], c)
  PROVE  Told'
<1>1. /\ UNCHANGED <<state, fd, readOffset, origin, slipped, job, buf>>
      /\ origin \in Origins /\ origin.ino \in Inodes /\ origin.ino \in Int /\ origin.epoch \in Nat
      /\ origin.base \in Nat /\ readOffset \in Nat /\ epoch[origin.ino] \in Nat
      /\ content[origin.ino] \in Seq(BOOLEAN)
  BY Constants DEF tailer, position, check, Told, Buffered, Origins, Control, Typed
<1>2. Buffered'
  BY <1>1 DEF Told, Buffered
<1>3. OriginOK'
  <2>1. origin.ino <= born /\ origin.epoch <= epoch[origin.ino] /\
        (~slipped => Past(buf, origin) /\ Parted(buf, origin) /\ (Behind => path # origin.ino))
    BY DEF Told, OriginOK
  <2>2. origin.ino <= born' /\ origin.epoch <= epoch'[origin.ino]
    BY <1>1, <2>1
  <2>3. Behind' <=> Behind
    BY <1>1 DEF Behind
  <2> QED BY <1>1, <2>1, <2>2, <2>3 DEF OriginOK
<1>4. Intact' => Intact /\ epoch'[origin.ino] = epoch[origin.ino]
  <2>1. origin.epoch <= epoch[origin.ino]
    BY DEF Told, OriginOK
  <2> QED BY <1>1, <2>1 DEF Intact
<1>5. ASSUME Intact'
      PROVE  /\ origin.base <= readOffset /\ readOffset <= Size(origin.ino)'
             /\ Text(buf, origin, SubSeq(content'[origin.ino], origin.base + 1, readOffset))
  <2>1. PICK s, t, b : s = content[origin.ino] /\ t = content'[origin.ino] /\ b = origin.base
    OBVIOUS
  <2>2. /\ b <= readOffset /\ readOffset <= Len(s) /\ Text(buf, origin, SubSeq(s, b + 1, readOffset))
        /\ s \in Seq(BOOLEAN) /\ b \in Nat /\ Len(s) \in Nat
    BY <1>1, <1>4, <1>5, <2>1 DEF Told, TextOK, Size
  <2>3. t = s \/ \E c \in BOOLEAN : t = Append(s, c)
    BY <1>4, <1>5, <2>1
  <2>4. readOffset <= Len(t) /\ SubSeq(t, b + 1, readOffset) = SubSeq(s, b + 1, readOffset)
    <3>1. CASE t = s
      BY <2>2, <3>1
    <3>2. CASE \E c \in BOOLEAN : t = Append(s, c)
      <4>1. PICK c \in BOOLEAN : t = Append(s, c)
        BY <3>2
      <4>2. Len(t) = Len(s) + 1
        BY <2>2, <4>1
      <4> QED BY <1>1, <2>2, <4>1, <4>2, SliceSame
    <3> QED BY <2>3, <3>1, <3>2
  <2> QED BY <1>1, <2>1, <2>2, <2>4 DEF Size
<1>6. TextOK'
  BY <1>1, <1>5 DEF Told, TextOK, Size
<1> QED BY <1>2, <1>3, <1>6 DEF Told

LEMMA ProgramsTold ==
  ASSUME Control, Told, Programs
  PROVE  Told'
<1>1. /\ origin.ino \in Inodes /\ born \in Int /\ epoch \in [Inodes -> Nat] /\ origin.ino <= born
      /\ content \in [Inodes -> Seq(BOOLEAN)] /\ origin.ino # None /\ epoch[origin.ino] \in Nat
  <2>1. /\ born \in Inodes /\ epoch \in [Inodes -> Nat] /\ content \in [Inodes -> Seq(BOOLEAN)]
    BY DEF Control, Typed
  <2>2. origin.ino \in Inodes /\ origin.ino <= born
    BY DEF Told, Buffered, Origins, OriginOK
  <2> QED BY <2>1, <2>2, Constants
<1>2. ASSUME NEW i \in Inodes, NEW newline \in BOOLEAN, Write(i, newline) PROVE Told'
  <2>1. /\ content' = [content EXCEPT ![i] = Append(@, newline)]
        /\ UNCHANGED <<path, born, epoch>> /\ UNCHANGED tailer
    BY <1>2 DEF Write
  <2>2. \/ content'[origin.ino] = content[origin.ino]
        \/ \E c \in BOOLEAN : content'[origin.ino] = Append(content[origin.ino], c)
    <3>1. CASE origin.ino = i
      BY <1>1, <2>1, <3>1
    <3>2. CASE origin.ino # i
      BY <1>1, <2>1, <3>2
    <3> QED BY <3>1, <3>2
  <2> QED BY <1>1, <2>1, <2>2, WorldTold
<1>3. CASE Truncate
  <2>1. /\ content' = [content EXCEPT ![path] = <<>>] /\ epoch' = [epoch EXCEPT ![path] = @ + 1]
        /\ UNCHANGED <<path, born>> /\ UNCHANGED tailer /\ path \in Inodes
    BY <1>3 DEF Truncate, Change, Control, Typed
  <2>2. /\ epoch'[origin.ino] \in Nat /\ epoch[origin.ino] <= epoch'[origin.ino]
        /\ epoch'[origin.ino] = epoch[origin.ino] => content'[origin.ino] = content[origin.ino]
    <3>1. CASE origin.ino = path
      BY <1>1, <2>1, <3>1
    <3>2. CASE origin.ino # path
      BY <1>1, <2>1, <3>2
    <3> QED BY <3>1, <3>2
  <2> QED BY <1>1, <2>1, <2>2, WorldTold
<1>4. CASE Vanish \/ Create \/ Protect
  <2>1. /\ UNCHANGED <<content, epoch>> /\ UNCHANGED tailer /\ born' \in Int /\ born <= born'
        /\ path' = path \/ path' # origin.ino
    BY <1>1, <1>4 DEF Vanish, Create, Protect, Change
  <2> QED BY <1>1, <2>1, WorldTold
<1> QED BY <1>2, <1>3, <1>4 DEF Programs

LEMMA ToldStays ==
  ASSUME Control, Told, [Next]_vars
  PROVE  Told'
<1>1. CASE StatSame \/ ReopenOpens \/ RotateOpens
  BY <1>1, RewindsTold
<1>2. CASE StartFails \/ Signal \/ RetryDue
  BY <1>2, WaitsAlong, AlongKeeps
<1>3. CASE StatForbidden \/ StatFails \/ StillMissing \/ RetryFails
  BY <1>3, StatEndsAlong, AlongKeeps
<1>4. CASE StatMissing \/ StatRotated
  BY <1>4, LeavingAlong, AlongKeeps
<1>5. CASE Drain \/ RetryOk
  BY <1>5, ClosingAlong, AlongKeeps
<1>6. CASE RotateFails \/ FlushFires \/ Stop \/ UNCHANGED vars
  BY <1>6, EndsAlong, AlongKeeps
<1>7. CASE ReadFails
  BY <1>7, ReadFailsAlong, AlongKeeps
<1>8. CASE Closed
  BY <1>8, ClosedAlong, AlongKeeps
<1> QED BY <1>1, <1>2, <1>3, <1>4, <1>5, <1>6, <1>7, <1>8, ReadChunkTold, StartOpensTold, ProgramsTold
    DEF Next, Continue

LEMMA ToldFirst ==
  Init => Told
<1> SUFFICES ASSUME Init PROVE Told
  OBVIOUS
<1>1. PICK b : b = buf
  OBVIOUS
<1>2. /\ b \in Buf /\ b.carry = 0 /\ b.emitted = 0 /\ b.pending = <<>> /\ b.dropped = 0 /\ b.out = <<>> /\ b.lost = <<>>
  <2>1. b = [carry |-> 0, emitted |-> 0, pending |-> <<>>, dropped |-> 0, cut |-> 0,
             inWindow |-> 0, timer |-> FALSE, out |-> <<>>, lost |-> <<>>]
    BY <1>1 DEF Init
  <2>2. 0 \in 0 .. MaxLine /\ 0 \in 0 .. MaxRate /\ <<>> \in Seq(Line) /\ <<>> \in Seq(Event)
    BY Constants
  <2> QED BY <2>1, <2>2 DEF Buf
<1>3. b \in Batch
  BY <1>2, EmptyBatch
<1>4. origin \in Origins /\ origin.ino = 1 /\ origin.epoch = 0 /\ origin.base = 0
  BY Constants DEF Init, Origins
<1>5. Rows(b) = <<>> /\ Counted(b) = 0
  <2>1. Entries(b.out) = <<>>
    BY <1>2 DEF Entries
  <2>2. <<>> \o <<>> = <<>>
    OBVIOUS
  <2>3. Rows(b) = FlattenSeq(Entries(b.out)) \o b.pending /\ Counted(b) = Reported(b.out) + b.dropped
    BY <1>2, RowsType
  <2>4. Reported(b.out) = 0
    BY <1>2, ReportedNone
  <2>5. Rows(b) = <<>>
    BY <1>2, <2>1, <2>2, <2>3, FlattenNone
  <2> QED BY <1>2, <2>3, <2>4, <2>5
<1>6. Unread(b)
  BY <1>2, <1>5 DEF Unread, Past, Parted, ToSet
<1>7. content[1] = <<>> /\ epoch[1] = 0 /\ 1 \in Inodes /\ path = 1 /\ born = 1 /\ fd = None /\ readOffset = 0
      /\ job.pc = "new" /\ job.then = "watch" /\ state = "stopped"
  BY Constants, AtIs DEF Init
<1>8. OriginOK
  BY <1>1, <1>4, <1>6, <1>7 DEF OriginOK, Behind, Unread
<1>9. Text(b, origin, <<>>)
  <2>1. PICK s : s = Push(0, 0, <<>>)
    OBVIOUS
  <2>2. s.carry = 0 /\ s.at = 0 /\ s.lines = <<>>
    BY <2>1, PushNothing
  <2>3. {l.at : l \in ToSet(s.lines)} = {} /\ Ends(<<>>, origin) = {} /\ Ascend(<<>>, origin)
    BY <2>2 DEF Ends, Ascend, ToSet
  <2> QED BY <1>2, <1>4, <1>5, <2>1, <2>2, <2>3 DEF Text, Read, Sorted
<1>10. SubSeq(content[1], 0 + 1, 0) = <<>> /\ Size(1) = 0 /\ Len(<<>>) = 0
  BY <1>7 DEF Size
<1>11. TextOK
  <2>1. SubSeq(content[origin.ino], origin.base + 1, readOffset) = <<>>
    BY <1>4, <1>7, <1>10
  <2>2. origin.base <= readOffset /\ readOffset <= Size(origin.ino)
    BY <1>4, <1>7, <1>10
  <2>3. Text(buf, origin, SubSeq(content[origin.ino], origin.base + 1, readOffset))
    BY <1>1, <1>9, <2>1
  <2>4. buf.emitted + buf.carry = readOffset /\ Counted(buf) = Len(buf.lost)
    BY <1>1, <1>2, <1>5, <1>7, <1>10
  <2> QED BY <1>1, <1>6, <2>2, <2>3, <2>4 DEF TextOK
<1> QED BY <1>1, <1>3, <1>4, <1>8, <1>11 DEF Told, Buffered

LEMMA Invariance ==
  Spec => []IInv
<1>1. Init => IInv
  BY ControlHolds, ToldFirst DEF IInv
<1>2. IInv /\ [Next]_vars => IInv'
  <2> SUFFICES ASSUME IInv, [Next]_vars PROVE IInv'
    OBVIOUS
  <2>1. buf \in Batch
    BY DEF IInv, Told, Buffered
  <2> QED BY <2>1, ControlStays, ToldStays DEF IInv
<1> QED BY <1>1, <1>2, PTL DEF Spec

-----------------------------------------------------------------------------
(* The tailer. *)

(* Every variable has its type; so no window of the rate cap lets more     *)
(* lines through than MaxRate, and no batch waits at BatchMax lines.       *)
THEOREM TypeCorrect ==
  Spec => []TypeOK
<1>1. IInv => TypeOK
  <2> SUFFICES ASSUME IInv PROVE TypeOK
    OBVIOUS
  <2>1. buf \in Buf /\ Len(buf.pending) < BatchMax
    BY DEF IInv, Told, Buffered, Batch
  <2>2. job.pc \in Pcs /\ job.then \in Thens
    BY DEF IInv, Control, Typed, JobType
  <2> QED BY <2>1, <2>2, BufType DEF IInv, Control, Typed, TypeOK, States, Pcs, Thens
<1> QED BY <1>1, Invariance, PTL

(* The lines of a file that is still what was read, and those dropped, are *)
(* the lines a single reading of it would give, each once and in order     *)
(* (readTo, LineSplitter.push, enqueue, flush), every dropped line is       *)
(* counted, and no line of a file comes after the marker that ends it.     *)
THEOREM TextIsFaithful ==
  Spec => []TextFaithful
<1>1. IInv => TextFaithful
  <2> SUFFICES ASSUME IInv PROVE TextFaithful
    OBVIOUS
  <2>1. ASSUME Genuine
        PROVE  LET text == SubSeq(content[fd], origin.base + 1, readOffset)
                   whole == {l.at : l \in ToSet(Push(0, origin.base, text).lines)}
                   kept == Ends(Rows(buf), origin)
                   lost == Ends(buf.lost, origin)
               IN /\ kept \cup lost = whole /\ kept \cap lost = {}
                  /\ Ascend(Rows(buf), origin) /\ Ascend(buf.lost, origin)
    <3>1. Intact /\ origin.ino = fd
      BY <2>1 DEF Genuine, Intact
    <3>2. Text(buf, origin, SubSeq(content[fd], origin.base + 1, readOffset))
      BY <3>1 DEF IInv, Told, TextOK
    <3> QED BY <3>2 DEF Text, Read, Sorted
  <2>2. LinesFaithful
    BY <2>1 DEF LinesFaithful, IInv, Told, TextOK
  <2>3. ASSUME ~slipped, NEW k \in DOMAIN buf.out, buf.out[k].type \in {"log.rotated", "log.truncated"},
               NEW before \in DOMAIN buf.out, NEW after \in DOMAIN buf.out, before < k, k < after,
               NEW a \in ToSet(buf.out[before].entries), NEW b \in ToSet(buf.out[after].entries)
        PROVE  a.of # b.of
    <3>1. buf.out \in Seq(Event) /\ buf.out[before] \in Event /\ buf.out[after] \in Event
      BY BatchType DEF IInv, Told, Buffered
    <3>2. \A e \in Event : e.entries \in Seq(Line)
      BY DEF Event
    <3>3. a \in Line /\ b \in Line
      BY <3>1, <3>2, SetOfLines
    <3>4. a \in Ahead(buf, k) /\ b \in After(buf, k)
      BY <2>3, <3>3 DEF Ahead, After
    <3>5. Parted(buf, origin) /\ IsMark(buf.out[k])
      BY <2>3 DEF IInv, Told, OriginOK, IsMark
    <3> QED BY <3>4, <3>5 DEF Parted
  <2>4. MarkersPart
    BY <2>3 DEF MarkersPart
  <2> QED BY <2>2, <2>4 DEF TextFaithful
<1> QED BY <1>1, Invariance, PTL

(* After a stop() that found the tailer between two checks, or reading     *)
(* appended lines, nothing becomes active or stays open.                    *)
THEOREM StopFinal ==
  Spec => []StopIsFinal
<1>1. IInv => StopIsFinal
  BY DEF IInv, Control, StopOK, StopIsFinal
<1> QED BY <1>1, Invariance, PTL

(* Only the close that a check or stop() began takes the descriptor away. *)
LEMMA OnlyClosed ==
  ASSUME Control, [Next]_vars, fd # None, fd' = None
  PROVE  Closed
<1>1. CASE StartOpens \/ RotateOpens \/ ReopenOpens
  BY <1>1 DEF StartOpens, RotateOpens, ReopenOpens, CanOpen
<1>2. CASE Programs
  BY <1>2 DEF Programs, Write, Truncate, Vanish, Create, Protect, Change, tailer, position
<1>3. CASE StartFails \/ Signal \/ RetryDue \/ FlushFires \/ Stop \/ UNCHANGED vars
  BY <1>3 DEF StartFails, Signal, RetryDue, FlushFires, Stop, vars, position
<1>4. CASE StatForbidden \/ StatFails \/ StatMissing \/ StillMissing \/ StatRotated \/ StatSame \/ Drain
           \/ ReadChunk \/ ReadFails \/ RotateFails \/ RetryOk \/ RetryFails
  BY <1>4 DEF StatForbidden, StatFails, StatMissing, StillMissing, StatRotated, StatSame, Drain, ReadChunk,
              ReadFails, RotateFails, RetryOk, RetryFails, position
<1> QED BY <1>1, <1>2, <1>3, <1>4 DEF Next, Continue

(* A file that left its path is closed only when all that it held when it  *)
(* left has been read (drainCurrentFd before closeFd), however often files *)
(* are replaced, unless a read failed, the file was truncated behind the   *)
(* tailer, a rotation opened another file than it saw, or the watch ended. *)
THEOREM NothingLeftUnread ==
  Spec => RotationDrains
<1>1. IInv /\ [Next]_vars =>
        [fd # None /\ fd' = None /\ job.then \in {"rotate", "delete"} /\ state # "stopped"
           /\ Genuine /\ "read failed" \notin {e.type : e \in ToSet(buf.out)}
         => readOffset >= left[fd]]_vars
  <2> SUFFICES ASSUME IInv, [Next]_vars, fd # None, fd' = None, job.then \in {"rotate", "delete"},
                      state # "stopped", Genuine, "read failed" \notin {e.type : e \in ToSet(buf.out)}
               PROVE  readOffset >= left[fd]
    OBVIOUS
  <2>1. Closed /\ Control
    BY OnlyClosed DEF IInv
  <2>2. job.pc = "close"
    <3>1. job.pc \in Pcs /\ job.pc \notin {"read", "drain"}
      BY <2>1 DEF Closed, Control, Typed, JobType
    <3> QED BY <2>1, <3>1, IdleType DEF Control, JobOK, Pcs
  <2>3. ~slipped /\ ~ReadFailed
    BY DEF Genuine, ReadFailed
  <2> QED BY <2>1, <2>2, <2>3 DEF Control, DrainOK, Replacing
<1> QED BY <1>1, Invariance, PTL DEF Spec, RotationDrains
=============================================================================
