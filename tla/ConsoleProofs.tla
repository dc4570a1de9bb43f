---------------------------- MODULE ConsoleProofs ----------------------------
(***************************************************************************)
(* What the command line guarantees for every buffer size, history size    *)
(* and list of commands, wherever between two statements of the main loop  *)
(* a key comes or the prompt leaves.                                       *)
(***************************************************************************)
EXTENDS Console, SequenceTheorems, FiniteSetTheorems, TLAPS

Chars == Letters \cup {Space}
Lines == {s \in Seq(Chars) : Len(s) < CmdSize}
Buffers == {b \in [0 .. CmdSize - 1 -> Chars \cup {Nul}] : b[CmdSize - 1] = Nul}
Stashes == UNION {[1 .. n -> Chars \cup {Nul}] : n \in 0 .. CmdSize - 1}

\* Memory b begins with the characters of s.
Holds(b, s) == \A i \in 1 .. Len(s) : b[i - 1] = s[i]

\* Whatever keys come in between.
MemoryInv == buffer \in Buffers /\ buffer_pos \in 0 .. CmdSize - 1

\* While the user types on a line of their own.
EditorInv ==
  /\ buffer \in Buffers
  /\ line \in Lines /\ buffer_pos = Len(line)
  /\ Holds(buffer, line)

\* The entries of the ring; the new one is there before history_count says so.
Known == IF pc = "count" THEN NextCount ELSE history_count

HistoryInv ==
  /\ history \in [0 .. HistorySize - 1 -> Buffers]
  /\ history_head \in 0 .. HistorySize - 1
  /\ history_count \in 0 .. HistorySize
  /\ past \in Seq(Lines) /\ Len(past) = Known
  /\ \A n \in 0 .. Known - 1 : Unfinished(n) \/ StringIn(Entry(n), 0) = past[n + 1]

BrowseInv == history_browse \in -1 .. history_count - 1 /\ stash \in Stashes /\ esc_state \in 0 .. 2

Idle == {"top", "process", "wfi", "asleep"}
Saving == {"save", "savenul", "empty", "measure", "compare", "copy", "advance", "count", "browse"}
Executing == {"exec", "execnul", "scan", "args", "handler"}
Closing == {"reset", "prompt", "clear"}

WorkInv ==
  /\ pc \in Idle \cup Saving \cup Executing \cup Closing
  /\ command_pending \in BOOLEAN /\ early \in BOOLEAN
  /\ pc \notin Idle => command_pending
  /\ prompt \in {"shown", "owed", "queued"} /\ (pc = "prompt" => prompt = "owed")
  /\ pos \in 0 .. CmdSize - 1 /\ len \in 0 .. CmdSize - 1
  /\ pc = "compare" => history_count > 0
  /\ IF pc = "scan" THEN idx \in Nat \ {0}
     ELSE IF pc \in {"compare", "copy"} THEN idx \in 0 .. len ELSE idx = 0

\* The line behind position a.
Rest(a) == [k \in 1 .. buffer_pos - a |-> line[a + k]]

\* If no key comes early, the buffer holds the line entered all the while: the
\* line on the screen, what is saved of it, and what is run.
LineInv ==
  /\ IF prompt = "shown" THEN EditorInv ELSE buffer_pos = 0
  /\ command_pending /\ pc \notin {"prompt", "clear"} => prompt = "shown" /\ entered = line

SaveInv ==
  /\ pc \in {"savenul", "execnul"} => pos = buffer_pos
  /\ pc = "measure" => buffer_pos > 0
  /\ pc \in {"compare", "copy", "advance"} => len = buffer_pos /\ len > 0
  /\ pc = "compare" => \A k \in 0 .. idx - 1 : buffer[k] = Entry(0)[k]
  /\ pc = "copy" => \A k \in 0 .. idx - 1 : history[history_head][k] = buffer[k]
  /\ pc = "advance" => StringIn(history[history_head], 0) = entered

PastInv == pc \in {"count", "browse"} \cup Executing /\ entered # <<>> => past # <<>> /\ past[1] = entered

RunInv ==
  /\ pc \in {"scan", "args", "handler"} => buffer[buffer_pos] = Nul
  /\ pc = "args" => handler \in DOMAIN Commands /\ NameMatches(handler)
  /\ pc = "handler" => handler \in Names(line) /\ args \in 0 .. buffer_pos
                         /\ Rest(args) = Argument(line, handler)

CleanInv == LineInv /\ SaveInv /\ PastInv /\ RunInv

ConsoleInv == MemoryInv /\ HistoryInv /\ BrowseInv /\ WorkInv /\ (~early => CleanInv)

-----------------------------------------------------------------------------
(* Sequences and memory.                                                   *)

\* A set of naturals has a smallest element: the order of the finite subsets
\* 1 .. n is well-founded.
LEMMA SmallestOf ==
  ASSUME NEW S \in SUBSET Nat, S # {}
  PROVE  \E m \in S : \A n \in S : m <= n
<1> DEFINE Below(n) == 1 .. n
           T == {Below(n) : n \in S}
<1>1. IsWellFoundedOn(StrictSubsetOrdering(Nat), FiniteSubsetsOf(Nat))
  BY FS_StrictSubsetOrderingWellFounded
<1>2. T \subseteq FiniteSubsetsOf(Nat)
  <2> SUFFICES ASSUME NEW n \in S  PROVE Below(n) \in FiniteSubsetsOf(Nat)
    OBVIOUS
  <2>1. IsFiniteSet(1 .. n)
    BY FS_Interval
  <2> QED  BY <2>1 DEF FiniteSubsetsOf
<1>3. T # {}
  OBVIOUS
<1> HIDE DEF T
<1>4. \E x \in T : \A y \in T : <<y, x>> \notin StrictSubsetOrdering(Nat)
  BY <1>1, <1>2, <1>3, WFMin, Zenon
<1>5. PICK x \in T : \A y \in T : <<y, x>> \notin StrictSubsetOrdering(Nat)
  BY <1>4
<1>6. PICK m \in S : x = Below(m)
  BY DEF T
<1>7. ASSUME NEW n \in S, n < m  PROVE FALSE
  <2>1. Below(n) \in T  BY DEF T
  <2>2. Below(n) \subseteq Below(m) /\ Below(n) # Below(m)
    <3>1. m \in Below(m) /\ m \notin Below(n)  BY <1>7
    <3> QED  BY <3>1, <1>7
  <2>3. <<Below(n), x>> \in (SUBSET Nat) \X (SUBSET Nat)
    BY <1>6
  <2>4. <<Below(n), x>> \in StrictSubsetOrdering(Nat)
    BY <2>2, <2>3, <1>6 DEF StrictSubsetOrdering
  <2> QED  BY <2>4, <2>1, <1>5
<1> QED  BY <1>7

\* And a largest, when it is bounded.
LEMMA LargestOf ==
  ASSUME NEW S \in SUBSET Nat, S # {}, NEW b \in Nat, \A n \in S : n <= b
  PROVE  \E m \in S : \A n \in S : n <= m
<1> DEFINE T == {b - n : n \in S}
<1>1. T \in SUBSET Nat /\ T # {}
  <2>1. \A n \in S : b - n \in Nat
    OBVIOUS
  <2> QED  BY <2>1
<1>2. PICK t \in T : \A u \in T : t <= u
  <2> HIDE DEF T
  <2> QED  BY <1>1, SmallestOf
<1>3. PICK m \in S : t = b - m
  BY <1>2
<1>4. \A n \in S : b - m <= b - n
  BY <1>2, <1>3
<1> QED  BY <1>4

LEMMA LineType ==
  ASSUME NEW s \in Lines
  PROVE  /\ s \in Seq(Chars) /\ Len(s) \in 0 .. CmdSize - 1
         /\ \A i \in 1 .. Len(s) : s[i] \in Chars
BY CliAssumption, LenProperties, ElementOfSeq DEF Lines

LEMMA SizeType == CmdSize \in Nat /\ CmdSize > 0 /\ HistorySize \in Nat /\ HistorySize > 0
                    /\ Nul \notin Chars /\ Nul # Space
BY CliAssumption DEF Chars

\* Where the string at a position of memory ends.
LEMMA StringEnds ==
  ASSUME NEW b \in Buffers, NEW a \in 0 .. CmdSize - 1
  PROVE  \E e \in a .. CmdSize - 1 :
           /\ b[e] = Nul /\ \A k \in a .. e - 1 : b[k] # Nul
           /\ StringIn(b, a) = [k \in 1 .. e - a |-> b[a + k - 1]]
<1> DEFINE ends == {e \in a .. CmdSize - 1 : b[e] = Nul}
<1>1. ends \in SUBSET Nat /\ ends # {}
  <2>1. CmdSize - 1 \in a .. CmdSize - 1 /\ b[CmdSize - 1] = Nul
    BY SizeType DEF Buffers
  <2> QED  BY <2>1, SizeType
<1>2. \E e \in ends : \A f \in ends : e <= f
  <2> HIDE DEF ends
  <2> QED  BY <1>1, SmallestOf
<1> DEFINE end == CHOOSE e \in ends : \A f \in ends : e <= f
<1>3. end \in ends /\ \A f \in ends : end <= f
  BY <1>2
<1>4. StringIn(b, a) = [k \in 1 .. end - a |-> b[a + k - 1]]
  BY <1>1 DEF StringIn
<1> HIDE DEF end
<1>5. \A k \in a .. end - 1 : b[k] # Nul
  <2> SUFFICES ASSUME NEW k \in a .. end - 1, b[k] = Nul  PROVE FALSE
    OBVIOUS
  <2>1. k \in ends
    BY <1>3, SizeType
  <2> QED  BY <1>3, <2>1
<1> QED  BY <1>3, <1>4, <1>5

\* The same for an end that is known.
LEMMA StringIs ==
  ASSUME NEW b \in Buffers, NEW a \in 0 .. CmdSize - 1, NEW e \in a .. CmdSize - 1,
         b[e] = Nul, \A k \in a .. e - 1 : b[k] # Nul
  PROVE  StringIn(b, a) = [k \in 1 .. e - a |-> b[a + k - 1]]
<1>1. PICK f \in a .. CmdSize - 1 :
        /\ b[f] = Nul /\ \A k \in a .. f - 1 : b[k] # Nul
        /\ StringIn(b, a) = [k \in 1 .. f - a |-> b[a + k - 1]]
  BY StringEnds
<1>2. ~(e < f) /\ ~(f < e)
  BY <1>1
<1>3. e = f
  BY <1>2, SizeType
<1> QED  BY <1>1, <1>3

\* A string in memory is a line.
LEMMA TextIsLine ==
  ASSUME NEW b \in Buffers  PROVE StringIn(b, 0) \in Lines
<1>0. 0 \in 0 .. CmdSize - 1
  BY SizeType
<1>1. PICK e \in 0 .. CmdSize - 1 :
        /\ \A k \in 0 .. e - 1 : b[k] # Nul
        /\ StringIn(b, 0) = [k \in 1 .. e - 0 |-> b[0 + k - 1]]
  <2>1. \E e \in 0 .. CmdSize - 1 :
          /\ b[e] = Nul /\ \A k \in 0 .. e - 1 : b[k] # Nul
          /\ StringIn(b, 0) = [k \in 1 .. e - 0 |-> b[0 + k - 1]]
    BY <1>0, StringEnds, Zenon
  <2> QED  BY <2>1
<1>2. e - 0 = e /\ e \in Nat /\ e < CmdSize
  BY SizeType
<1>3. \A k \in 1 .. e : b[0 + k - 1] \in Chars
  <2> TAKE k \in 1 .. e
  <2>1. k - 1 \in 0 .. e - 1 /\ k - 1 \in 0 .. CmdSize - 1 /\ 0 + k - 1 = k - 1
    BY <1>2, SizeType
  <2> QED  BY <1>1, <2>1 DEF Buffers
<1> DEFINE s == [k \in 1 .. e |-> b[0 + k - 1]]
<1>4. s \in [1 .. e -> Chars]
  BY <1>3
<1>5. s \in Seq(Chars)
  BY <1>2, <1>4, SeqDef
<1>6. Len(s) = e
  BY <1>2, <1>5, LenProperties
<1> QED  BY <1>1, <1>2, <1>5, <1>6 DEF Lines

\* Memory that holds a line with a NUL behind it: that line is its string.
LEMMA TextOfLine ==
  ASSUME NEW b \in Buffers, NEW s \in Lines, Holds(b, s), b[Len(s)] = Nul
  PROVE  StringIn(b, 0) = s
<1>1. Len(s) \in 0 .. CmdSize - 1 /\ Len(s) - 0 = Len(s) /\ s = [k \in 1 .. Len(s) |-> s[k]]
  BY LineType, LenProperties
<1>2. \A k \in 1 .. Len(s) : s[k] \in Chars /\ b[k - 1] = s[k] /\ 0 + k - 1 = k - 1
  BY LineType DEF Holds
<1>3. \A k \in 0 .. Len(s) - 1 : b[k] # Nul
  <2> TAKE k \in 0 .. Len(s) - 1
  <2>1. k + 1 \in 1 .. Len(s) /\ k + 1 - 1 = k
    BY <1>1
  <2> QED  BY <1>2, <2>1, SizeType
<1>4. StringIn(b, 0) = [k \in 1 .. Len(s) - 0 |-> b[0 + k - 1]]
  <2>1. 0 \in 0 .. CmdSize - 1
    BY SizeType
  <2> QED  BY <1>1, <1>3, <2>1, StringIs, Zenon
<1>5. [k \in 1 .. Len(s) |-> b[0 + k - 1]] = [k \in 1 .. Len(s) |-> s[k]]
  BY <1>2
<1> QED  BY <1>1, <1>4, <1>5

\* Writing characters to memory, with or without a NUL behind them.
LEMMA OverType ==
  ASSUME NEW b \in Buffers, NEW n \in 0 .. CmdSize - 1, NEW s \in Seq(Chars \cup {Nul}),
         n + Len(s) < CmdSize \/ (n + Len(s) = CmdSize /\ s[Len(s)] = Nul)
  PROVE  /\ Over(b, n, s) \in Buffers
         /\ \A k \in 0 .. CmdSize - 1 :
              Over(b, n, s)[k] = IF n <= k /\ k < n + Len(s) THEN s[k - n + 1] ELSE b[k]
<1>1. /\ DOMAIN b = 0 .. CmdSize - 1 /\ b[CmdSize - 1] = Nul /\ Len(s) \in Nat
      /\ \A k \in 0 .. CmdSize - 1 : b[k] \in Chars \cup {Nul}
      /\ \A k \in 1 .. Len(s) : s[k] \in Chars \cup {Nul}
  BY LenProperties, ElementOfSeq DEF Buffers
<1>2. \A k \in 0 .. CmdSize - 1 :
        Over(b, n, s)[k] = IF n <= k /\ k < n + Len(s) THEN s[k - n + 1] ELSE b[k]
  BY <1>1 DEF Over
<1>3. \A k \in 0 .. CmdSize - 1 : n <= k /\ k < n + Len(s) => k - n + 1 \in 1 .. Len(s)
  BY <1>1, SizeType
<1>4. DOMAIN Over(b, n, s) = 0 .. CmdSize - 1
  BY <1>1 DEF Over
<1>5. Over(b, n, s) \in [0 .. CmdSize - 1 -> Chars \cup {Nul}]
  <2>1. \A k \in 0 .. CmdSize - 1 : Over(b, n, s)[k] \in Chars \cup {Nul}
    BY <1>1, <1>2, <1>3
  <2>2. Over(b, n, s) = [k \in 0 .. CmdSize - 1 |-> Over(b, n, s)[k]]
    BY <1>1 DEF Over
  <2> QED  BY <2>1, <2>2
<1>6. Over(b, n, s)[CmdSize - 1] = Nul
  <2>1. CmdSize - 1 \in 0 .. CmdSize - 1
    BY SizeType
  <2>2. CASE n + Len(s) < CmdSize
    BY <1>1, <1>2, <2>1, <2>2, SizeType
  <2>3. CASE n + Len(s) = CmdSize /\ s[Len(s)] = Nul
    <3>1. CmdSize - 1 - n + 1 = Len(s)
      BY <1>1, <2>3, SizeType
    <3> QED  BY <1>1, <1>2, <2>1, <2>3, <3>1
  <2> QED  BY <2>2, <2>3
<1> QED  BY <1>2, <1>5, <1>6 DEF Buffers

\* Writing a line to the beginning of memory.
LEMMA OverHolds ==
  ASSUME NEW b \in Buffers, NEW s \in Lines
  PROVE  Over(b, 0, s) \in Buffers /\ Holds(Over(b, 0, s), s)
<1>1. /\ s \in Seq(Chars \cup {Nul}) /\ 0 + Len(s) < CmdSize /\ 0 \in 0 .. CmdSize - 1
      /\ Len(s) \in 0 .. CmdSize - 1
  BY LineType, SeqMonotonic, SizeType DEF Lines
<1>2. /\ Over(b, 0, s) \in Buffers
      /\ \A k \in 0 .. CmdSize - 1 :
           Over(b, 0, s)[k] = IF 0 <= k /\ k < 0 + Len(s) THEN s[k - 0 + 1] ELSE b[k]
  BY <1>1, OverType
<1>3. \A i \in 1 .. Len(s) : /\ i - 1 \in 0 .. CmdSize - 1
                             /\ 0 <= i - 1 /\ i - 1 < 0 + Len(s) /\ i - 1 - 0 + 1 = i
  BY <1>1, SizeType
<1> QED  BY <1>2, <1>3 DEF Holds

\* A NUL at any position.
LEMMA TerminatedType ==
  ASSUME buffer \in Buffers, NEW n \in 0 .. CmdSize - 1
  PROVE  /\ Terminated(n) \in Buffers /\ Terminated(n)[n] = Nul
         /\ \A k \in 0 .. CmdSize - 1 : k # n => Terminated(n)[k] = buffer[k]
BY SizeType DEF Terminated, Buffers

\* What the buffer holds up to its position is the line.
LEMMA PrefixIsLine ==
  ASSUME EditorInv  PROVE Prefix(buffer_pos) = line
<1>1. line = [i \in 1 .. buffer_pos |-> line[i]]
  BY LineType, LenProperties DEF EditorInv
<1>2. \A i \in 1 .. buffer_pos : buffer[i - 1] = line[i]
  BY DEF EditorInv, Holds
<1> QED  BY <1>1, <1>2 DEF Prefix

LEMMA PrefixType ==
  ASSUME MemoryInv  PROVE Prefix(buffer_pos) \in Stashes
<1>1. \A i \in 1 .. buffer_pos : i - 1 \in 0 .. CmdSize - 1
  BY SizeType DEF MemoryInv
<1>2. Prefix(buffer_pos) \in [1 .. buffer_pos -> Chars \cup {Nul}]
  BY <1>1 DEF Prefix, MemoryInv, Buffers
<1> QED  BY <1>2 DEF Stashes, MemoryInv

\* The NUL at the buffer's position is not part of the line.
LEMMA TerminatedHolds ==
  ASSUME EditorInv
  PROVE  /\ Terminated(buffer_pos) \in Buffers
         /\ Holds(Terminated(buffer_pos), line)
         /\ Terminated(buffer_pos)[buffer_pos] = Nul
<1>1. buffer_pos \in 0 .. CmdSize - 1 /\ Len(line) = buffer_pos
  BY LineType DEF EditorInv
<1>2. \A i \in 1 .. Len(line) : i - 1 # buffer_pos /\ i - 1 \in 0 .. CmdSize - 1
  BY <1>1, SizeType
<1> QED  BY <1>1, <1>2, TerminatedType DEF EditorInv, Holds

-----------------------------------------------------------------------------
(* The interrupt: keys.                                                    *)

\* Whatever s becomes the line, from memory that is still a buffer.
LEMMA NewLine ==
  ASSUME buffer' \in Buffers, line' \in Lines, buffer_pos' = Len(line'), Holds(buffer', line')
  PROVE  EditorInv'
BY DEF EditorInv, Holds

LEMMA TypesStep ==
  ASSUME EditorInv, prompt = "shown", NEW c \in Chars, Types(c)  PROVE EditorInv'
<1>1. CASE buffer_pos < CmdSize - 1
  <2>1. /\ buffer' = [buffer EXCEPT ![buffer_pos] = c]
        /\ buffer_pos' = buffer_pos + 1 /\ line' = Append(line, c)
    BY <1>1 DEF Types, Echoes
  <2>2. /\ line' \in Seq(Chars) /\ Len(line') = Len(line) + 1
        /\ \A i \in 1 .. Len(line) : line'[i] = line[i]
        /\ line'[Len(line) + 1] = c
    BY <2>1, LineType, AppendProperties DEF EditorInv
  <2>3. buffer_pos \in 0 .. CmdSize - 1 /\ Len(line) = buffer_pos
    BY LineType DEF EditorInv
  <2>4. buffer' \in Buffers
    BY <1>1, <2>1, <2>3, SizeType DEF EditorInv, Buffers
  <2>5. Holds(buffer', line')
    <3> SUFFICES ASSUME NEW i \in 1 .. Len(line) + 1  PROVE buffer'[i - 1] = line'[i]
      BY <2>2 DEF Holds
    <3>1. CASE i = Len(line) + 1
      BY <3>1, <2>1, <2>2, <2>3 DEF EditorInv, Buffers
    <3>2. CASE i # Len(line) + 1
      <4>1. i \in 1 .. Len(line) /\ i - 1 # buffer_pos
        BY <3>2, <2>3
      <4> QED  BY <4>1, <2>1, <2>2, <2>3 DEF EditorInv, Buffers, Holds
    <3> QED  BY <3>1, <3>2
  <2>6. line' \in Lines
    BY <1>1, <2>2, <2>3, CliAssumption DEF Lines
  <2> QED  BY <2>1, <2>2, <2>3, <2>4, <2>5, <2>6, NewLine
<1>2. CASE ~(buffer_pos < CmdSize - 1)
  BY <1>2 DEF Types, editor, EditorInv, Holds
<1> QED  BY <1>1, <1>2

LEMMA ErasesStep ==
  ASSUME EditorInv, prompt = "shown", Erases  PROVE EditorInv'
<1>1. CASE buffer_pos > 0
  <2>1. buffer' = buffer /\ buffer_pos' = buffer_pos - 1 /\ line' = SubSeq(line, 1, Len(line) - 1)
    <3>1. line # <<>>
      BY <1>1, EmptySeq DEF EditorInv
    <3> QED  BY <1>1, <3>1 DEF Erases, Echoes, Front
  <2>2. /\ Len(line) = buffer_pos /\ buffer_pos \in 1 .. CmdSize - 1
        /\ \A i \in 1 .. Len(line) : line[i] \in Chars
    BY <1>1, LineType DEF EditorInv
  <2>3. /\ line' \in Seq(Chars) /\ Len(line') = Len(line) - 1
        /\ \A i \in 1 .. Len(line) - 1 : line'[i] = line[i]
    <3>1. \A i \in 1 .. Len(line) - 1 : line[i] \in Chars
      BY <2>2
    <3>2. Len(line) \in 1 .. CmdSize - 1 /\ CmdSize \in Nat
      BY <2>2, CliAssumption
    <3>3. /\ SubSeq(line, 1, Len(line) - 1) \in Seq(Chars)
          /\ Len(SubSeq(line, 1, Len(line) - 1)) =
               IF 1 <= Len(line) - 1 THEN Len(line) - 1 - 1 + 1 ELSE 0
          /\ \A i \in 1 .. Len(line) - 1 - 1 + 1 :
               SubSeq(line, 1, Len(line) - 1)[i] = line[1 + i - 1]
      <4>1. Len(line) - 1 \in Int
        BY <3>2
      <4> QED  BY <3>1, <4>1, SubSeqProperties
    <3>4. \A i \in 1 .. Len(line) - 1 : 1 + i - 1 = i /\ i \in 1 .. Len(line) - 1 - 1 + 1
      BY <3>2
    <3>5. Len(line') = Len(line) - 1
      <4>1. Len(line') = IF 1 <= Len(line) - 1 THEN Len(line) - 1 - 1 + 1 ELSE 0
        BY <3>3, <2>1, Zenon
      <4>2. \A l \in 1 .. CmdSize - 1 : (IF 1 <= l - 1 THEN l - 1 - 1 + 1 ELSE 0) = l - 1
        BY <3>2
      <4> QED  BY <3>2, <4>1, <4>2, Zenon
    <3>6. \A i \in 1 .. Len(line) - 1 : line'[i] = line[i]
      BY <3>3, <3>4, <2>1
    <3> QED  BY <3>3, <3>5, <3>6, <2>1
  <2>4. line' \in Lines /\ Holds(buffer', line')
    BY <2>1, <2>2, <2>3, CliAssumption DEF Lines, Holds, EditorInv
  <2> QED  BY <2>1, <2>2, <2>3, <2>4, NewLine DEF EditorInv
<1>2. CASE ~(buffer_pos > 0)
  BY <1>2 DEF Erases, EditorInv, Holds
<1> QED  BY <1>1, <1>2

\* What a nonempty set of names shares is made of letters.
LEMMA SharedType ==
  ASSUME NEW S, S # {}, S \subseteq Seq(Letters)
  PROVE  LongestCommonPrefix(S) \in Seq(Letters)
<1>1. \A s \in S : s \in Seq(Letters) /\ Len(s) \in Nat /\ \A i \in 1 .. Len(s) : s[i] \in Letters
  BY LenProperties, ElementOfSeq
<1>2. \A s \in S, l \in Nat : l <= Len(s) => SubSeq(s, 1, l) \in Seq(Letters) /\ Len(SubSeq(s, 1, l)) = l
  <2> TAKE s \in S, l \in Nat
  <2> SUFFICES ASSUME l <= Len(s)  PROVE SubSeq(s, 1, l) \in Seq(Letters) /\ Len(SubSeq(s, 1, l)) = l
    OBVIOUS
  <2>1. \A i \in 1 .. l : s[i] \in Letters
    BY <1>1
  <2>2. /\ SubSeq(s, 1, l) \in Seq(Letters)
        /\ Len(SubSeq(s, 1, l)) = IF 1 <= l THEN l - 1 + 1 ELSE 0
    BY <2>1, SubSeqProperties
  <2> QED  BY <2>2
<1>3. CommonPrefixes(S) \subseteq Seq(Letters)
  <2> SUFFICES ASSUME NEW p \in CommonPrefixes(S)  PROVE p \in Seq(Letters)
    OBVIOUS
  <2>1. PICK s \in S : p \in Prefixes(s)
    BY DEF CommonPrefixes
  <2>2. PICK l \in 0 .. Len(s) : p = SubSeq(s, 1, l)
    BY <2>1 DEF Prefixes
  <2> QED  BY <2>2, <1>1, <1>2
<1>4. <<>> \in CommonPrefixes(S)
  <2>1. PICK s \in S : TRUE
    OBVIOUS
  <2>2. 0 \in 0 .. Len(s) /\ SubSeq(s, 1, 0) = <<>>
    BY <1>1, SubSeqEmpty
  <2>3. <<>> \in Prefixes(s)
    BY <2>2 DEF Prefixes
  <2>4. \A t \in S : IsPrefix(<<>>, t)
    <3> TAKE t \in S
    <3>1. Len(<<>>) = 0 /\ SubSeq(<<>>, 1, 0) = <<>> /\ SubSeq(t, 1, 0) = <<>> /\ Len(t) \in Nat
      BY <1>1, SubSeqEmpty, EmptySeq
    <3> QED  BY <3>1 DEF IsPrefix
  <2> QED  BY <2>3, <2>4 DEF CommonPrefixes
<1>5. PICK s \in S : TRUE
  OBVIOUS
<1>6. \A p \in CommonPrefixes(S) : Len(p) \in Nat /\ Len(p) <= Len(s)
  <2> TAKE p \in CommonPrefixes(S)
  <2>1. IsPrefix(p, s)
    BY <1>5 DEF CommonPrefixes
  <2> QED  BY <2>1, <1>3, LenProperties DEF IsPrefix
<1> DEFINE Lengths == {Len(p) : p \in CommonPrefixes(S)}
<1>7. \E m \in Lengths : \A n \in Lengths : n <= m
  <2>1. Lengths \in SUBSET Nat /\ Lengths # {} /\ \A n \in Lengths : n <= Len(s)
    BY <1>4, <1>6
  <2>2. Len(s) \in Nat
    BY <1>1
  <2> HIDE DEF Lengths
  <2> QED  BY <2>1, <2>2, LargestOf
<1>8. \E p \in CommonPrefixes(S) : \A o \in CommonPrefixes(S) : Len(o) <= Len(p)
  BY <1>7
<1> QED  BY <1>3, <1>8 DEF LongestCommonPrefix

LEMMA CompletionType ==
  ASSUME NEW typed  PROVE Shared(typed) \in Seq(Letters)
<1>1. CASE Matching(typed) = {}
  BY <1>1, EmptySeq DEF Shared
<1>2. CASE Matching(typed) # {}
  <2>1. {Commands[i] : i \in Matching(typed)} \subseteq Seq(Letters)
    BY CliAssumption, ElementOfSeq, LenProperties DEF Matching
  <2>2. {Commands[i] : i \in Matching(typed)} # {}
    BY <1>2
  <2> QED  BY <1>2, <2>1, <2>2, SharedType DEF Shared
<1> QED  BY <1>1, <1>2

LEMMA CompletionLine ==
  ASSUME NEW s \in Seq(Letters), Len(s) < CmdSize  PROVE Completion(s) \in Lines
<1>1. s \in Seq(Chars) /\ Len(s) \in Nat
  BY SeqMonotonic, LenProperties DEF Chars
<1>2. Append(s, Space) \in Seq(Chars) /\ Len(Append(s, Space)) = Len(s) + 1
  BY <1>1, AppendProperties DEF Chars
<1> QED  BY <1>1, <1>2, CliAssumption DEF Completion, Lines

\* What completion adds to the line fits into the buffer.
LEMMA AddedType ==
  ASSUME NEW t \in Lines, NEW n \in 0 .. CmdSize - 1, n < Len(t)
  PROVE  /\ SubSeq(t, n + 1, Len(t)) \in Seq(Chars)
         /\ Len(SubSeq(t, n + 1, Len(t))) = Len(t) - n
<1>1. Len(t) \in 0 .. CmdSize - 1 /\ \A i \in 1 .. Len(t) : t[i] \in Chars
  BY LineType
<1>2. PICK f \in Int, l \in Int : f = n + 1 /\ l = Len(t)
  BY <1>1, SizeType
<1>3. \A i \in f .. l : t[i] \in Chars
  BY <1>1, <1>2
<1> DEFINE s == SubSeq(t, f, l)
<1>4. s \in Seq(Chars) /\ Len(s) = IF f <= l THEN l - f + 1 ELSE 0
  BY <1>3, SubSeqProperties
<1>5. s = SubSeq(t, n + 1, Len(t))
  BY <1>2
<1> HIDE DEF s
<1>6. Len(s) = Len(t) - n
  BY <1>1, <1>2, <1>4
<1> QED  BY <1>4, <1>5, <1>6

\* The buffer with an addition at its position, and perhaps a NUL behind it.
LEMMA AddedToBuffer ==
  ASSUME NEW b \in Buffers, NEW n \in 0 .. CmdSize - 1, NEW s \in Seq(Chars),
         n + Len(s) < CmdSize, NEW o \in {s, Append(s, Nul)}
  PROVE  /\ Over(b, n, o) \in Buffers
         /\ \A k \in 0 .. n - 1 : Over(b, n, o)[k] = b[k]
         /\ \A k \in 1 .. Len(s) : Over(b, n, o)[n + k - 1] = s[k]
<1>1. s \in Seq(Chars \cup {Nul}) /\ Len(s) \in Nat
  BY SeqMonotonic, LenProperties
<1>2. /\ o \in Seq(Chars \cup {Nul}) /\ Len(o) \in {Len(s), Len(s) + 1}
      /\ Len(o) = Len(s) + 1 => o[Len(o)] = Nul
      /\ \A k \in 1 .. Len(s) : o[k] = s[k]
  <2>1. CASE o = s
    BY <1>1, <2>1
  <2>2. CASE o = Append(s, Nul)
    BY <1>1, <2>2, AppendProperties
  <2> QED  BY <2>1, <2>2
<1>3. n + Len(o) < CmdSize \/ (n + Len(o) = CmdSize /\ o[Len(o)] = Nul)
  BY <1>1, <1>2, SizeType
<1>4. /\ Over(b, n, o) \in Buffers
      /\ \A k \in 0 .. CmdSize - 1 :
           Over(b, n, o)[k] = IF n <= k /\ k < n + Len(o) THEN o[k - n + 1] ELSE b[k]
  BY <1>2, <1>3, OverType
<1>5. \A k \in 0 .. n - 1 : Over(b, n, o)[k] = b[k]
  BY <1>4, SizeType
<1>6. \A k \in 1 .. Len(s) : Over(b, n, o)[n + k - 1] = s[k]
  <2> TAKE k \in 1 .. Len(s)
  <2>1. /\ n + k - 1 \in 0 .. CmdSize - 1 /\ n <= n + k - 1 /\ n + k - 1 < n + Len(o)
        /\ n + k - 1 - n + 1 = k
    BY <1>1, <1>2, SizeType
  <2> QED  BY <1>2, <1>4, <2>1
<1> QED  BY <1>4, <1>5, <1>6

\* The three things TAB does.
LEMMA CompletesCases ==
  ASSUME MemoryInv, Completes
  PROVE  \/ UNCHANGED <<buffer, buffer_pos, line>>
         \/ \E s \in Seq(Chars) : \E o \in {s, Append(s, Nul)} :
              /\ buffer_pos + Len(s) < CmdSize
              /\ buffer' = Over(buffer, buffer_pos, o)
              /\ buffer_pos' = buffer_pos + Len(s) /\ Echoes(line \o s)
         \/ buffer' = Terminated(buffer_pos) /\ UNCHANGED <<buffer_pos, line>>
<1> DEFINE shared == Shared(Prefix(buffer_pos))
           text == Completion(shared)
           added == SubSeq(text, buffer_pos + 1, Len(text))
<1>1. CASE /\ Len(shared) > buffer_pos /\ Len(shared) < CmdSize
           /\ buffer' = Over(buffer, buffer_pos, IF text = shared THEN Append(added, Nul) ELSE added)
           /\ buffer_pos' = Len(text)
           /\ Echoes(line \o added)
  <2>1. shared \in Seq(Letters) /\ Len(shared) \in Nat
    BY CompletionType, LenProperties
  <2>2. text \in Lines
    BY <1>1, <2>1, CompletionLine
  <2>3. Len(text) >= Len(shared)
    BY <2>1, AppendProperties, SeqMonotonic DEF Completion
  <2>4. Len(text) \in 0 .. CmdSize - 1
    BY <2>2, LineType
  <2>5. PICK o : o \in {added, Append(added, Nul)} /\ buffer' = Over(buffer, buffer_pos, o)
    BY <1>1
  <2> HIDE DEF shared, text
  <2>6. buffer_pos \in 0 .. CmdSize - 1 /\ buffer_pos < Len(text)
    BY <1>1, <2>1, <2>3, <2>4, SizeType DEF MemoryInv
  <2>7. added \in Seq(Chars) /\ Len(added) = Len(text) - buffer_pos
    BY <2>2, <2>6, AddedType
  <2>8. buffer_pos + Len(added) < CmdSize /\ buffer_pos' = buffer_pos + Len(added)
    BY <1>1, <2>4, <2>6, <2>7, SizeType
  <2> HIDE DEF added
  <2> QED  BY <1>1, <2>5, <2>7, <2>8
<1>2. CASE UNCHANGED editor \/ (buffer' = Terminated(buffer_pos) /\ UNCHANGED <<buffer_pos, line>>)
  BY <1>2 DEF editor
<1> QED  BY <1>1, <1>2 DEF Completes

LEMMA CompletesStep ==
  ASSUME EditorInv, prompt = "shown", Completes  PROVE EditorInv'
<1>1. MemoryInv /\ buffer_pos \in 0 .. CmdSize - 1 /\ Len(line) = buffer_pos /\ line \in Seq(Chars)
  BY LineType DEF EditorInv, MemoryInv
<1>2. CASE UNCHANGED <<buffer, buffer_pos, line>>
  BY <1>2 DEF EditorInv, Holds
<1>3. CASE buffer' = Terminated(buffer_pos) /\ UNCHANGED <<buffer_pos, line>>
  BY <1>3, TerminatedHolds DEF EditorInv, Holds
<1>4. CASE \E s \in Seq(Chars) : \E o \in {s, Append(s, Nul)} :
             /\ buffer_pos + Len(s) < CmdSize
             /\ buffer' = Over(buffer, buffer_pos, o)
             /\ buffer_pos' = buffer_pos + Len(s) /\ Echoes(line \o s)
  <2>0. PICK s \in Seq(Chars) : \E o \in {s, Append(s, Nul)} :
          /\ buffer_pos + Len(s) < CmdSize
          /\ buffer' = Over(buffer, buffer_pos, o)
          /\ buffer_pos' = buffer_pos + Len(s) /\ line' = line \o s
    BY <1>4 DEF Echoes
  <2>1. PICK o \in {s, Append(s, Nul)} :
          /\ buffer_pos + Len(s) < CmdSize
          /\ buffer' = Over(buffer, buffer_pos, o)
          /\ buffer_pos' = buffer_pos + Len(s) /\ line' = line \o s
    BY <2>0
  <2>2. /\ line' \in Seq(Chars) /\ Len(line') = Len(line) + Len(s)
        /\ \A i \in 1 .. Len(line) + Len(s) :
             line'[i] = IF i <= Len(line) THEN line[i] ELSE s[i - Len(line)]
    BY <1>1, <2>1, ConcatProperties
  <2>3. /\ buffer' \in Buffers
        /\ \A k \in 0 .. buffer_pos - 1 : buffer'[k] = buffer[k]
        /\ \A k \in 1 .. Len(s) : buffer'[buffer_pos + k - 1] = s[k]
    BY <1>1, <2>1, AddedToBuffer DEF EditorInv
  <2>4. Len(s) \in Nat
    BY LenProperties
  <2>5. Holds(buffer', line')
    <3> SUFFICES ASSUME NEW i \in 1 .. Len(line')  PROVE buffer'[i - 1] = line'[i]
      BY DEF Holds
    <3>1. CASE i <= Len(line)
      <4>1. i \in 1 .. Len(line) /\ i - 1 \in 0 .. buffer_pos - 1 /\ i \in 1 .. Len(line) + Len(s)
        BY <1>1, <2>2, <2>4, <3>1
      <4> QED  BY <2>2, <2>3, <3>1, <4>1 DEF EditorInv, Holds
    <3>2. CASE ~(i <= Len(line))
      <4>1. /\ i - Len(line) \in 1 .. Len(s) /\ i \in 1 .. Len(line) + Len(s)
            /\ buffer_pos + (i - Len(line)) - 1 = i - 1
        BY <1>1, <2>2, <2>4, <3>2
      <4> QED  BY <2>2, <2>3, <3>2, <4>1
    <3> QED  BY <3>1, <3>2
  <2>6. line' \in Lines /\ buffer_pos' = Len(line')
    BY <1>1, <2>1, <2>2 DEF Lines
  <2> QED  BY <2>3, <2>5, <2>6, NewLine
<1> QED  BY <1>1, <1>2, <1>3, <1>4, CompletesCases

\* An entry of the ring is memory, and its index one of the ring's.
LEMMA EntryType ==
  ASSUME HistoryInv, NEW n \in Int  PROVE Entry(n) \in Buffers
<1>1. history_head + HistorySize - 1 - n \in Int
  BY SizeType DEF HistoryInv
<1> DEFINE m == history_head + HistorySize - 1 - n
<1>2. m % HistorySize \in 0 .. HistorySize - 1
  <2> HIDE DEF m
  <2> QED  BY <1>1, SizeType DEF m
<1> QED  BY <1>2 DEF Entry, HistoryInv

\* A recalled line replaces the one that was there.
LEMMA ShowsStep ==
  ASSUME NEW b \in Buffers, NEW s \in Lines, Shows(b, s)
  PROVE  MemoryInv' /\ (prompt = "shown" => EditorInv')
<1>1. buffer' \in Buffers /\ Holds(buffer', s) /\ buffer_pos' \in 0 .. CmdSize - 1 /\ buffer_pos' = Len(s)
  BY OverHolds, LineType DEF Shows
<1>2. prompt = "shown" => line' = s
  BY DEF Shows, Echoes
<1> QED  BY <1>1, <1>2, NewLine DEF MemoryInv

\* The string in no more than n characters of memory is a line.
LEMMA StringIsLine ==
  ASSUME NEW n \in 0 .. CmdSize - 1, NEW s \in [1 .. n -> Chars \cup {Nul}]
  PROVE  UpToNul(s) \in Lines
<1> DEFINE Nuls == {i \in 1 .. n : s[i] = Nul}
<1>1. n \in Nat /\ n < CmdSize /\ DOMAIN s = 1 .. n /\ CmdSize \in Nat
  BY CliAssumption
<1>2. CASE Nuls = {}
  <2>1. UpToNul(s) = s
    BY <1>1, <1>2 DEF UpToNul
  <2>2. s \in [1 .. n -> Chars]
    <3>1. \A i \in 1 .. n : s[i] \in Chars
      BY <1>2
    <3> QED  BY <3>1
  <2>3. s \in Seq(Chars)
    BY <1>1, <2>2, SeqDef
  <2>4. Len(s) = n
    <3>1. Len(s) \in Nat /\ DOMAIN s = 1 .. Len(s)
      BY <2>3, LenProperties
    <3> QED  BY <1>1, <3>1
  <2> QED  BY <1>1, <2>1, <2>3, <2>4 DEF Lines
<1>3. CASE Nuls # {}
  <2>1. PICK k \in Nuls : \A i \in Nuls : k <= i
    <3>1. Nuls \in SUBSET Nat
      BY <1>1
    <3> HIDE DEF Nuls
    <3> QED  BY <1>3, <3>1, SmallestOf
  <2>2. k \in DOMAIN s /\ s[k] = Nul /\ \A j \in 1 .. k - 1 : s[j] # Nul
    <3>1. k \in 1 .. n /\ s[k] = Nul
      OBVIOUS
    <3>2. ASSUME NEW j \in 1 .. k - 1, s[j] = Nul  PROVE FALSE
      <4>1. j \in Nuls
        BY <1>1, <3>1, <3>2
      <4> QED  BY <1>1, <2>1, <3>1, <4>1
    <3> QED  BY <1>1, <3>1, <3>2
  <2>3. PICK e \in 1 .. n : /\ \A j \in 1 .. e - 1 : s[j] # Nul
                            /\ UpToNul(s) = SubSeq(s, 1, e - 1)
    <3> DEFINE e == CHOOSE i \in DOMAIN s : s[i] = Nul /\ \A j \in 1 .. i - 1 : s[j] # Nul
    <3>1. e \in 1 .. n /\ \A j \in 1 .. e - 1 : s[j] # Nul
      BY <1>1, <2>2
    <3>2. UpToNul(s) = SubSeq(s, 1, e - 1)
      BY <2>2 DEF UpToNul
    <3> QED  BY <3>1, <3>2
  <2>4. \A j \in 1 .. e - 1 : s[j] \in Chars
    <3> TAKE j \in 1 .. e - 1
    <3>1. j \in 1 .. n /\ s[j] # Nul
      BY <1>1, <2>3
    <3> QED  BY <3>1
  <2>5. e - 1 \in Int
    BY <1>1
  <2>6. /\ SubSeq(s, 1, e - 1) \in Seq(Chars)
        /\ Len(SubSeq(s, 1, e - 1)) = IF 1 <= e - 1 THEN e - 1 - 1 + 1 ELSE 0
    BY <2>4, <2>5, SubSeqProperties
  <2>7. (IF 1 <= e - 1 THEN e - 1 - 1 + 1 ELSE 0) < CmdSize
    BY <1>1
  <2>8. UpToNul(s) \in Seq(Chars) /\ Len(UpToNul(s)) < CmdSize
    BY <2>3, <2>6, <2>7, Zenon
  <2> QED  BY <2>8 DEF Lines
<1> QED  BY <1>2, <1>3

LEMMA EmptyStash == <<>> \in Stashes
<1>1. 0 \in 0 .. CmdSize - 1 /\ <<>> \in [1 .. 0 -> Chars \cup {Nul}]
  BY SizeType
<1> QED  BY <1>1 DEF Stashes

LEMMA StashType ==
  ASSUME NEW s \in Stashes  PROVE UpToNul(s) \in Lines
<1>1. PICK n \in 0 .. CmdSize - 1 : s \in [1 .. n -> Chars \cup {Nul}]
  BY DEF Stashes
<1> QED  BY <1>1, StringIsLine

LEMMA HistoryUpStep ==
  ASSUME MemoryInv, HistoryInv, BrowseInv, HistoryUp
  PROVE  /\ MemoryInv' /\ (EditorInv /\ prompt = "shown" => EditorInv')
         /\ history_browse' \in -1 .. history_count - 1 /\ stash' \in Stashes
<1>0. history_count \in Nat /\ history_browse \in -1 .. history_count - 1 /\ stash \in Stashes
  BY SizeType DEF HistoryInv, BrowseInv
<1>1. CASE history_browse + 1 >= history_count
  BY <1>0, <1>1 DEF HistoryUp, editor, browsing, MemoryInv, EditorInv, Holds
<1>2. CASE ~(history_browse + 1 >= history_count)
  <2> DEFINE b == IF history_browse = -1 THEN Terminated(buffer_pos) ELSE buffer
             s == StringIn(Entry(history_browse + 1), 0)
  <2>1. /\ history_browse' = history_browse + 1
        /\ stash' = IF history_browse = -1 THEN Prefix(buffer_pos) ELSE stash
        /\ Shows(b, s)
    BY <1>2 DEF HistoryUp
  <2>2. history_browse' \in -1 .. history_count - 1
    BY <1>0, <1>2, <2>1
  <2>3. stash' \in Stashes
    BY <1>0, <2>1, PrefixType
  <2>4. b \in Buffers
    BY TerminatedType DEF MemoryInv
  <2>5. s \in Lines
    BY <1>0, EntryType, TextIsLine
  <2> HIDE DEF b, s
  <2> QED  BY <2>1, <2>2, <2>3, <2>4, <2>5, ShowsStep
<1> QED  BY <1>1, <1>2

LEMMA HistoryDownStep ==
  ASSUME MemoryInv, HistoryInv, BrowseInv, HistoryDown
  PROVE  /\ MemoryInv' /\ (EditorInv /\ prompt = "shown" => EditorInv')
         /\ history_browse' \in -1 .. history_count - 1 /\ stash' \in Stashes
<1>0. history_count \in Nat /\ history_browse \in -1 .. history_count - 1 /\ stash \in Stashes
  BY SizeType DEF HistoryInv, BrowseInv
<1>1. CASE history_browse = -1
  BY <1>0, <1>1 DEF HistoryDown, editor, browsing, MemoryInv, EditorInv, Holds
<1>2. CASE history_browse # -1
  <2> DEFINE s == IF history_browse = 0 THEN UpToNul(stash) ELSE StringIn(Entry(history_browse - 1), 0)
  <2>1. /\ history_browse' = history_browse - 1
        /\ stash' = IF history_browse = 0 THEN <<>> ELSE stash
        /\ Shows(buffer, s)
    BY <1>2 DEF HistoryDown
  <2>2. history_browse' \in -1 .. history_count - 1
    BY <1>0, <1>2, <2>1
  <2>3. stash' \in Stashes
    BY <1>0, <2>1, EmptyStash
  <2>4. s \in Lines
    BY <1>0, EntryType, TextIsLine, StashType
  <2> HIDE DEF s
  <2> QED  BY <2>1, <2>2, <2>3, <2>4, ShowsStep DEF MemoryInv
<1> QED  BY <1>1, <1>2

\* Every key keeps the buffer's and the history's bounds, and the line on the
\* screen in the buffer; none of them touches the ring.
LEMMA KeyStep ==
  ASSUME MemoryInv, HistoryInv, BrowseInv, NEW c, cli_process_char(c)
  PROVE  /\ MemoryInv' /\ BrowseInv' /\ UNCHANGED <<ring, prompt>>
         /\ EditorInv /\ prompt = "shown" => EditorInv'
         /\ c = "Enter" => UNCHANGED editor
<1>1. esc_state' \in 0 .. 2 /\ UNCHANGED prompt
  BY DEF cli_process_char, InEscape, BrowseInv
<1>2. UNCHANGED ring
  BY DEF cli_process_char, InEscape, HistoryUp, HistoryDown, Types, Erases, Completes
<1>3. history_count' = history_count
  BY <1>2 DEF ring
<1>4. CASE c = "A" /\ HistoryUp
  BY <1>1, <1>2, <1>3, <1>4, HistoryUpStep DEF BrowseInv
<1>5. CASE c = "B" /\ HistoryDown
  BY <1>1, <1>2, <1>3, <1>5, HistoryDownStep DEF BrowseInv
<1>6. CASE c \in Chars /\ Types(c)
  <2>1. UNCHANGED browsing /\ c # "Enter"
    BY <1>6, CliAssumption DEF Types, Chars
  <2>2. MemoryInv'
    <3>1. CASE buffer_pos < CmdSize - 1
      BY <1>6, <3>1, SizeType DEF Types, MemoryInv, Buffers
    <3>2. CASE ~(buffer_pos < CmdSize - 1)
      BY <1>6, <3>2 DEF Types, MemoryInv, editor
    <3> QED  BY <3>1, <3>2
  <2> QED  BY <1>1, <1>2, <1>3, <1>6, <2>1, <2>2, TypesStep DEF BrowseInv, browsing
<1>7. CASE c = "Backspace" /\ Erases
  <2>1. UNCHANGED browsing /\ MemoryInv'
    BY <1>7, SizeType DEF Erases, MemoryInv
  <2> QED  BY <1>1, <1>2, <1>3, <1>7, <2>1, ErasesStep DEF BrowseInv, browsing
<1>8. CASE c = "Tab" /\ Completes
  <2>1. UNCHANGED browsing
    BY <1>8 DEF Completes
  <2>2. MemoryInv'
    <3>1. CASE buffer' = Terminated(buffer_pos) /\ UNCHANGED <<buffer_pos, line>>
      BY <3>1, TerminatedType DEF MemoryInv
    <3>2. CASE \E s \in Seq(Chars) : \E o \in {s, Append(s, Nul)} :
                 /\ buffer_pos + Len(s) < CmdSize
                 /\ buffer' = Over(buffer, buffer_pos, o)
                 /\ buffer_pos' = buffer_pos + Len(s) /\ Echoes(line \o s)
      <4>1. PICK s \in Seq(Chars) : \E o \in {s, Append(s, Nul)} :
              /\ buffer_pos + Len(s) < CmdSize
              /\ buffer' = Over(buffer, buffer_pos, o)
              /\ buffer_pos' = buffer_pos + Len(s)
        BY <3>2
      <4>2. PICK o \in {s, Append(s, Nul)} : buffer' = Over(buffer, buffer_pos, o)
        BY <4>1
      <4>3. Len(s) \in Nat
        BY LenProperties
      <4>4. buffer_pos' \in 0 .. CmdSize - 1
        BY <4>1, <4>3, SizeType DEF MemoryInv
      <4>5. buffer' \in Buffers
        BY <4>1, <4>2, AddedToBuffer DEF MemoryInv
      <4> QED  BY <4>4, <4>5 DEF MemoryInv
    <3>3. CASE UNCHANGED <<buffer, buffer_pos, line>>
      BY <3>3 DEF MemoryInv
    <3> QED  BY <1>8, <3>1, <3>2, <3>3, CompletesCases
  <2> QED  BY <1>1, <1>2, <1>3, <1>8, <2>1, <2>2, CompletesStep DEF BrowseInv, browsing
<1>9. CASE UNCHANGED <<editor, ring, browsing>>
  BY <1>1, <1>2, <1>3, <1>9 DEF editor, browsing, MemoryInv, EditorInv, BrowseInv, Holds
<1> QED
  BY <1>4, <1>5, <1>6, <1>7, <1>8, <1>9 DEF cli_process_char, InEscape, Chars

-----------------------------------------------------------------------------
(* The main loop: the ring.                                                *)

\* Where entry n is in the ring.
Place(head, n) == IF n < head THEN head - 1 - n ELSE head - 1 - n + HistorySize

LEMMA ModOnce ==
  ASSUME NEW N \in Nat, N > 0, NEW n \in 0 .. 2 * N - 1
  PROVE  n % N = IF n < N THEN n ELSE n - N
<1>1. CASE n < N
  BY <1>1
<1>2. CASE n >= N
  <2>1. n % N = (n - N) % N
    BY <1>2
  <2> QED  BY <1>2, <2>1
<1> QED  BY <1>1, <1>2

LEMMA PlaceIsMod ==
  ASSUME NEW head \in 0 .. HistorySize - 1, NEW n \in 0 .. HistorySize - 1
  PROVE  /\ (head + HistorySize - 1 - n) % HistorySize = Place(head, n)
         /\ Place(head, n) \in 0 .. HistorySize - 1
         /\ n # HistorySize - 1 => Place(head, n) # head
<1>1. head + HistorySize - 1 - n \in 0 .. 2 * HistorySize - 1
      /\ HistorySize \in Nat /\ HistorySize > 0
  BY CliAssumption
<1>2. (head + HistorySize - 1 - n) % HistorySize = Place(head, n)
  BY <1>1, ModOnce DEF Place
<1> QED  BY <1>1, <1>2 DEF Place

\* Writing moves every entry one further into the past.
LEMMA PlaceMoves ==
  ASSUME NEW h \in 0 .. HistorySize - 1
  PROVE  \E head \in 0 .. HistorySize - 1 :
           head = (h + 1) % HistorySize /\ \A n \in 0 .. HistorySize - 1 :
             Place(head, n) = IF n = 0 THEN h ELSE Place(h, n - 1)
<1>1. HistorySize \in Nat /\ HistorySize > 0 /\ h + 1 \in 0 .. 2 * HistorySize - 1
  BY CliAssumption
<1>2. (h + 1) % HistorySize = IF h + 1 < HistorySize THEN h + 1 ELSE h + 1 - HistorySize
  BY <1>1, ModOnce
<1> DEFINE head == IF h + 1 < HistorySize THEN h + 1 ELSE 0
<1>3. head = (h + 1) % HistorySize /\ head \in 0 .. HistorySize - 1
  BY <1>1, <1>2
<1>4. \A n \in 0 .. HistorySize - 1 : Place(head, n) = IF n = 0 THEN h ELSE Place(h, n - 1)
  BY <1>1 DEF Place
<1> QED  BY <1>3, <1>4

\* A line that goes into the ring is the latest of the past.
LEMMA LatestIs ==
  ASSUME HistoryInv, pc # "count", NEW s \in Lines
  PROVE  /\ Latest(s) \in Seq(Lines) /\ Len(Latest(s)) = NextCount
         /\ Latest(s)[1] = s
         /\ \A n \in 1 .. NextCount - 1 : Latest(s)[n + 1] = past[n]
<1> DEFINE all == <<s>> \o past
           last == IF Len(past) < HistorySize THEN Len(past) + 1 ELSE HistorySize
<1>1. /\ Len(past) = history_count /\ history_count \in Nat /\ history_count <= HistorySize
      /\ HistorySize \in Nat /\ HistorySize > 0
  BY SizeType DEF HistoryInv, Known
<1>2. <<s>> \in Seq(Lines) /\ Len(<<s>>) = 1 /\ <<s>>[1] = s
  OBVIOUS
<1>3. /\ all \in Seq(Lines)
      /\ Len(all) = Len(<<s>>) + Len(past)
      /\ \A i \in 1 .. Len(<<s>>) + Len(past) :
           all[i] = IF i <= Len(<<s>>) THEN <<s>>[i] ELSE past[i - Len(<<s>>)]
  BY <1>2, ConcatProperties DEF HistoryInv
<1>4. all[1] = s /\ \A i \in 1 .. Len(past) : all[i + 1] = past[i]
  BY <1>1, <1>2, <1>3
<1>5. \A i \in 1 .. Len(past) + 1 : all[i] \in Lines
  BY <1>1, <1>2, <1>3, ElementOfSeq
<1> HIDE DEF all
<1>6. last \in Nat /\ last >= 1 /\ last <= Len(past) + 1 /\ last = NextCount
  BY <1>1 DEF NextCount
<1>7. \A i \in 1 .. last : all[i] \in Lines
  BY <1>1, <1>5, <1>6
<1> HIDE DEF last
<1>8. /\ SubSeq(all, 1, last) \in Seq(Lines)
      /\ Len(SubSeq(all, 1, last)) = IF 1 <= last THEN last - 1 + 1 ELSE 0
      /\ \A i \in 1 .. last - 1 + 1 : SubSeq(all, 1, last)[i] = all[1 + i - 1]
  <2>1. last \in Int
    BY <1>6
  <2> QED  BY <1>7, <2>1, SubSeqProperties
<1>9. Latest(s) = SubSeq(all, 1, last)
  BY DEF Latest, all, last
<1> DEFINE t == Latest(s)
<1>10. /\ t \in Seq(Lines)
       /\ Len(t) = IF 1 <= last THEN last - 1 + 1 ELSE 0
       /\ \A i \in 1 .. last - 1 + 1 : t[i] = all[1 + i - 1]
  BY <1>8, <1>9, Zenon
<1> HIDE DEF t
<1>11. Len(t) = last /\ t[1] = s /\ \A n \in 1 .. last - 1 : t[n + 1] = past[n]
  <2>1. Len(t) = last
    BY <1>6, <1>10
  <2>2. \A i \in 1 .. last : t[i] = all[i]
    BY <1>6, <1>10
  <2> QED  BY <1>1, <1>4, <1>6, <2>1, <2>2
<1> QED  BY <1>6, <1>10, <1>11 DEF t

\* Where the ring is left alone.
LEMMA HistoryKept ==
  ASSUME HistoryInv, UNCHANGED ring,
         pc' = pc \/ (pc \notin {"count", "copy", "advance"} /\ pc' # "count")
  PROVE  HistoryInv'
<1>1. Known' = Known /\ \A n : Entry(n)' = Entry(n) /\ (Unfinished(n) => Unfinished(n)')
  BY DEF Known, NextCount, ring, Entry, Unfinished
<1> QED  BY <1>1 DEF HistoryInv, ring

\* cli_history_save writes the slot of the oldest entry, if that is in use.
LEMMA CopyRing ==
  ASSUME MemoryInv, HistoryInv, WorkInv, Copy
  PROVE  /\ HistoryInv' /\ history_head' = history_head
         /\ history'[history_head] = IF idx < len THEN [history[history_head] EXCEPT ![idx] = buffer[idx]]
                                     ELSE [history[history_head] EXCEPT ![len] = Nul]
<1>1. /\ pc = "copy" /\ pc' \in {"copy", "advance"} /\ history_head \in 0 .. HistorySize - 1
      /\ UNCHANGED <<history_head, history_count, past>>
      /\ idx \in 0 .. len /\ len \in 0 .. CmdSize - 1
  BY DEF Copy, editor, HistoryInv, WorkInv
<1> DEFINE slot == IF idx < len THEN [history[history_head] EXCEPT ![idx] = buffer[idx]]
                   ELSE [history[history_head] EXCEPT ![len] = Nul]
<1>2. history' = [history EXCEPT ![history_head] = slot]
  BY DEF Copy
<1>3. history[history_head] \in Buffers
  BY <1>1 DEF HistoryInv
<1>4. slot \in Buffers
  <2>1. CASE idx < len
    <3>1. idx \in 0 .. CmdSize - 1 /\ idx # CmdSize - 1 /\ buffer[idx] \in Chars \cup {Nul}
      BY <1>1, <2>1, SizeType DEF MemoryInv, Buffers
    <3>2. slot = [history[history_head] EXCEPT ![idx] = buffer[idx]]
      BY <2>1
    <3> HIDE DEF slot
    <3>3. CmdSize - 1 \in 0 .. CmdSize - 1
      BY SizeType
    <3> QED  BY <1>3, <3>1, <3>2, <3>3 DEF Buffers
  <2>2. CASE ~(idx < len)
    BY <1>1, <1>3, <2>2, SizeType DEF Buffers
  <2> QED  BY <2>1, <2>2
<1> HIDE DEF slot
<1>5. history' \in [0 .. HistorySize - 1 -> Buffers] /\ history'[history_head] = slot
  BY <1>1, <1>2, <1>4 DEF HistoryInv
<1>6. Known = history_count /\ Known' = history_count
  BY <1>1 DEF Known
<1>7. ASSUME NEW n \in 0 .. history_count - 1, n # HistorySize - 1
      PROVE  Entry(n)' = Entry(n) /\ ~Unfinished(n)
  <2>1. n \in 0 .. HistorySize - 1
    BY SizeType DEF HistoryInv
  <2>2. /\ Place(history_head, n) \in 0 .. HistorySize - 1 /\ Place(history_head, n) # history_head
        /\ (history_head + HistorySize - 1 - n) % HistorySize = Place(history_head, n)
    BY <1>1, <1>7, <2>1, PlaceIsMod
  <2>3. history'[Place(history_head, n)] = history[Place(history_head, n)]
    BY <1>2, <2>2 DEF HistoryInv
  <2> QED  BY <1>1, <1>7, <2>2, <2>3 DEF Entry, Unfinished
<1>8. \A n \in 0 .. history_count - 1 : Unfinished(n)' \/ StringIn(Entry(n), 0)' = past[n + 1]
  <2> TAKE n \in 0 .. history_count - 1
  <2>1. CASE n = HistorySize - 1
    BY <1>1, <2>1 DEF Unfinished
  <2>2. CASE n # HistorySize - 1
    <3>1. Entry(n)' = Entry(n) /\ StringIn(Entry(n), 0) = past[n + 1]
      BY <1>6, <1>7, <2>2 DEF HistoryInv
    <3> QED  BY <3>1 DEF StringIn
  <2> QED  BY <2>1, <2>2
<1> QED  BY <1>1, <1>5, <1>6, <1>8 DEF HistoryInv, slot

\* With the next head the slot becomes the latest entry, and the line the latest
\* of the past.
LEMMA AdvanceRing ==
  ASSUME HistoryInv, Advance, ~early => CleanInv
  PROVE  HistoryInv' /\ (~early => past' # <<>> /\ past'[1] = entered)
<1> DEFINE text == StringIn(history[history_head], 0)
<1>1. /\ pc = "advance" /\ pc' = "count" /\ UNCHANGED <<history, history_count>>
      /\ HistorySize \in Nat /\ HistorySize > 0
      /\ history_head \in 0 .. HistorySize - 1 /\ history_count \in 0 .. HistorySize
  BY SizeType DEF Advance, At, HistoryInv
<1>2. past' = Latest(text) /\ (~early => text = entered)
  BY <1>1 DEF Advance, CleanInv, SaveInv
<1>3. text \in Lines
  <2>1. history[history_head] \in Buffers
    BY <1>1 DEF HistoryInv
  <2> QED  BY <2>1, TextIsLine
<1> HIDE DEF text
<1>4. PICK head \in 0 .. HistorySize - 1 :
        head = (history_head + 1) % HistorySize /\ \A k \in 0 .. HistorySize - 1 :
          Place(head, k) = IF k = 0 THEN history_head ELSE Place(history_head, k - 1)
  BY <1>1, PlaceMoves
<1>5. history_head' = head
  BY <1>4 DEF Advance
<1>6. PICK count \in 1 .. HistorySize : count = NextCount /\ count <= history_count + 1
  BY <1>1 DEF NextCount
<1>7. Known = history_count /\ Known' = count
  BY <1>1, <1>6 DEF Known, NextCount
<1>8. /\ past' \in Seq(Lines) /\ Len(past') = count
      /\ past'[1] = text /\ \A k \in 1 .. count - 1 : past'[k + 1] = past[k]
  BY <1>1, <1>2, <1>3, <1>6, LatestIs
<1>9. ASSUME NEW k \in 0 .. count - 1  PROVE StringIn(Entry(k), 0)' = past'[k + 1]
  <2>1. k \in 0 .. HistorySize - 1
    BY <1>1, <1>6
  <2>2. Entry(k)' = history[Place(head, k)]
    BY <1>1, <1>5, <2>1, PlaceIsMod DEF Entry
  <2>3. CASE k = 0
    <3>1. Place(head, k) = history_head
      BY <1>4, <2>1, <2>3
    <3>2. StringIn(history[Place(head, k)], 0) = past'[k + 1]
      BY <1>8, <2>3, <3>1 DEF text
    <3> QED  BY <2>2, <3>2 DEF StringIn
  <2>4. CASE k # 0
    <3>1. /\ k - 1 \in 0 .. history_count - 1 /\ k - 1 \in 0 .. HistorySize - 1
          /\ k \in 1 .. count - 1 /\ k - 1 + 1 = k /\ k - 1 # HistorySize - 1
      BY <1>1, <1>6, <2>1, <2>4
    <3>2. Place(head, k) = Place(history_head, k - 1)
      BY <1>4, <2>1, <2>4
    <3>3. Entry(k - 1) = history[Place(history_head, k - 1)]
      BY <1>1, <3>1, PlaceIsMod DEF Entry
    <3>4. StringIn(Entry(k - 1), 0) = past[k]
      <4>1. ~Unfinished(k - 1)
        BY <3>1 DEF Unfinished
      <4> QED  BY <1>7, <3>1, <4>1 DEF HistoryInv
    <3>5. StringIn(history[Place(head, k)], 0) = past'[k + 1]
      BY <1>8, <3>1, <3>2, <3>3, <3>4
    <3> QED  BY <2>2, <3>5 DEF StringIn
  <2> QED  BY <2>3, <2>4
<1>10. HistoryInv'
  <2>1. history' \in [0 .. HistorySize - 1 -> Buffers] /\ history_count' \in 0 .. HistorySize
    BY <1>1 DEF HistoryInv
  <2> QED  BY <1>5, <1>7, <1>8, <1>9, <2>1 DEF HistoryInv
<1>11. past' # <<>>
  BY <1>6, <1>8, EmptySeq
<1> QED  BY <1>2, <1>8, <1>10, <1>11

LEMMA CountRing ==
  ASSUME HistoryInv, Count
  PROVE  HistoryInv' /\ history_count' >= history_count /\ history_count' \in Nat /\ history_count \in Nat
<1>1. /\ pc = "count" /\ pc' = "browse" /\ UNCHANGED <<history, history_head, past>>
      /\ history_count' = NextCount /\ history_count \in 0 .. HistorySize
      /\ HistorySize \in Nat
  BY SizeType DEF Count, At, HistoryInv
<1>2. Known = NextCount /\ Known' = NextCount
  BY <1>1 DEF Known
<1>3. NextCount \in 0 .. HistorySize /\ NextCount >= history_count
  BY <1>1 DEF NextCount
<1>4. \A n : Entry(n)' = Entry(n) /\ ~Unfinished(n)
  BY <1>1 DEF Entry, Unfinished
<1>5. \A n \in 0 .. NextCount - 1 : StringIn(Entry(n), 0)' = past[n + 1]
  <2> TAKE n \in 0 .. NextCount - 1
  <2>1. StringIn(Entry(n), 0) = past[n + 1]
    BY <1>2, <1>4 DEF HistoryInv
  <2> QED  BY <1>4, <2>1 DEF StringIn
<1>6. HistoryInv'
  BY <1>1, <1>2, <1>3, <1>5 DEF HistoryInv
<1> QED  BY <1>1, <1>3, <1>6

-----------------------------------------------------------------------------
(* The command that a line names.                                          *)

\* The characters of a line are those of the buffer, and none of them is NUL.
LEMMA LineInBuffer ==
  ASSUME EditorInv
  PROVE  /\ buffer_pos \in 0 .. CmdSize - 1 /\ CmdSize \in Nat /\ Len(line) = buffer_pos
         /\ line \in Seq(Chars)
         /\ \A k \in 0 .. buffer_pos - 1 : buffer[k] = line[k + 1] /\ buffer[k] # Nul
<1>1. /\ buffer_pos \in 0 .. CmdSize - 1 /\ CmdSize \in Nat /\ Len(line) = buffer_pos
      /\ \A i \in 1 .. Len(line) : line[i] \in Chars /\ buffer[i - 1] = line[i]
  BY CliAssumption, LineType DEF EditorInv, Holds
<1>2. \A k \in 0 .. buffer_pos - 1 : buffer[k] = line[k + 1] /\ buffer[k] # Nul
  <2> TAKE k \in 0 .. buffer_pos - 1
  <2>1. k + 1 \in 1 .. Len(line) /\ k + 1 - 1 = k
    BY <1>1
  <2>2. line[k + 1] \in Chars /\ buffer[k + 1 - 1] = line[k + 1]
    BY <1>1, <2>1
  <2> QED  BY <2>1, <2>2, CliAssumption DEF Chars
<1> QED  BY <1>1, <1>2, LineType DEF EditorInv

LEMMA NameType ==
  ASSUME NEW i \in DOMAIN Commands
  PROVE  /\ Commands[i] \in Seq(Letters) /\ Commands[i] \in Seq(Chars)
         /\ Len(Commands[i]) \in Nat
         /\ Commands[i] = [k \in 1 .. Len(Commands[i]) |-> Commands[i][k]]
<1>1. Commands[i] \in Seq(Letters)
  BY CliAssumption, ElementOfSeq, LenProperties
<1> QED  BY <1>1, SeqMonotonic, LenProperties DEF Chars

\* The command found in the buffer is one that the line names.
LEMMA MatchIsNamed ==
  ASSUME EditorInv, NEW i \in DOMAIN Commands, NameMatches(i)
  PROVE  i \in Names(line)
<1> DEFINE name == Commands[i]
           n == Len(Commands[i])
<1>1. n \in Nat /\ n <= buffer_pos /\ \A k \in 1 .. n : line[k] = name[k]
  <2>1. n \in Nat /\ buffer_pos >= n /\ Prefix(n) = name
    BY NameType DEF NameMatches
  <2>2. \A k \in 1 .. n : k - 1 \in 0 .. buffer_pos - 1 /\ k - 1 + 1 = k
    BY <2>1, LineInBuffer
  <2>3. \A k \in 1 .. n : name[k] = buffer[k - 1]
    BY <2>1 DEF Prefix
  <2> QED  BY <2>1, <2>2, <2>3, LineInBuffer
<1>2. CASE n = buffer_pos
  <2>1. line = name
    BY <1>1, <1>2, LineInBuffer, NameType, SeqEqual
  <2> QED  BY <2>1 DEF Names
<1>3. CASE n # buffer_pos
  <2>2. n \in 0 .. buffer_pos - 1
    BY <1>1, <1>3, LineInBuffer
  <2>1. buffer[n] = Space
    BY <2>2, LineInBuffer DEF NameMatches
  <2>3. line[n + 1] = Space
    BY <2>1, <2>2, LineInBuffer
  <2> DEFINE s == Append(name, Space)
  <2>4. /\ s \in Seq(Chars) /\ Len(s) = n + 1
        /\ \A k \in 1 .. n : s[k] = name[k]
        /\ s[n + 1] = Space
    BY NameType, AppendProperties DEF Chars
  <2> HIDE DEF s
  <2>5. \A k \in 1 .. n + 1 : s[k] = line[k] /\ s[k] \in Chars
    <3> TAKE k \in 1 .. n + 1
    <3>1. k = n + 1 \/ k \in 1 .. n
      BY <1>1
    <3>2. s[k] = line[k]
      BY <1>1, <2>3, <2>4, <3>1
    <3>3. s[k] \in Chars
      BY <2>4, ElementOfSeq
    <3> QED  BY <3>2, <3>3
  <2>6. SubSeq(s, 1, Len(s)) = s
    BY <2>4, SubSeqFull
  <2> DEFINE t == SubSeq(line, 1, n + 1)
  <2>7. PICK m \in Nat : m = n + 1
    BY <1>1
  <2>8. t \in Seq(Chars) /\ Len(t) = n + 1 /\ \A k \in 1 .. n + 1 : t[k] = line[k]
    <3>1. \A k \in 1 .. m : line[k] \in Chars
      BY <2>5, <2>7
    <3>2. /\ SubSeq(line, 1, m) \in Seq(Chars)
          /\ Len(SubSeq(line, 1, m)) = IF 1 <= m THEN m - 1 + 1 ELSE 0
          /\ \A k \in 1 .. m - 1 + 1 : SubSeq(line, 1, m)[k] = line[1 + k - 1]
      BY <3>1, SubSeqProperties
    <3>3. t = SubSeq(line, 1, m)
      BY <2>7
    <3> HIDE DEF t
    <3>4. /\ t \in Seq(Chars) /\ Len(t) = IF 1 <= m THEN m - 1 + 1 ELSE 0
          /\ \A k \in 1 .. m - 1 + 1 : t[k] = line[1 + k - 1]
      BY <3>2, <3>3, Zenon
    <3> QED  BY <1>1, <2>7, <3>4
  <2> HIDE DEF t
  <2>9. t = s
    BY <2>4, <2>5, <2>8, SeqEqual
  <2>10. IsPrefix(s, line)
    <3>1. Len(s) <= Len(line)
      BY <1>1, <2>2, <2>4, LineInBuffer
    <3> QED  BY <2>4, <2>6, <2>9, <3>1 DEF IsPrefix, t
  <2> QED  BY <2>10 DEF Names, s
<1> QED  BY <1>2, <1>3

\* Where the argument begins: not behind the NUL at the end of the line.
LEMMA ArgsType ==
  ASSUME EditorInv, buffer[buffer_pos] = Nul, NEW i \in DOMAIN Commands, NameMatches(i)
  PROVE  /\ ArgsFrom(i) \in Len(Commands[i]) .. buffer_pos
         /\ \A k \in Len(Commands[i]) .. ArgsFrom(i) - 1 : buffer[k] = Space
         /\ ArgsFrom(i) = buffer_pos \/ buffer[ArgsFrom(i)] # Space
<1> DEFINE n == Len(Commands[i])
           Ends == {e \in n .. CmdSize - 1 : buffer[e] # Space}
           Begins(e) == (\A k \in n .. e - 1 : buffer[k] = Space) /\ buffer[e] # Space
<1>1. n \in Nat /\ n <= buffer_pos /\ buffer_pos \in 0 .. CmdSize - 1
  BY NameType, LineInBuffer DEF NameMatches
<1>2. ArgsFrom(i) = CHOOSE e \in n .. CmdSize - 1 : Begins(e)
  BY DEF ArgsFrom
<1> HIDE DEF n
<1>3. Ends \in SUBSET Nat /\ buffer_pos \in Ends
  BY <1>1, SizeType
<1>4. PICK e \in Ends : \A f \in Ends : e <= f
  <2> HIDE DEF Ends
  <2> QED  BY <1>3, SmallestOf
<1>5. e \in n .. CmdSize - 1 /\ Begins(e)
  <2>1. ASSUME NEW k \in n .. e - 1, buffer[k] # Space  PROVE FALSE
    <3>1. k \in Ends
      BY <1>1, <1>4, <2>1, SizeType
    <3> QED  BY <1>1, <1>4, <3>1
  <2> QED  BY <1>4, <2>1
<1> DEFINE a == CHOOSE f \in n .. CmdSize - 1 : Begins(f)
<1>6. a \in n .. CmdSize - 1 /\ Begins(a)
  <2> HIDE DEF Begins
  <2> QED  BY <1>5
<1> HIDE DEF a
<1>7. a <= buffer_pos
  <2> SUFFICES ASSUME buffer_pos < a  PROVE FALSE
    BY <1>1, <1>6
  <2>1. buffer_pos \in n .. a - 1
    BY <1>1, <1>6
  <2> QED  BY <1>6, <2>1, SizeType
<1> QED  BY <1>1, <1>2, <1>6, <1>7 DEF n, a

\* With a NUL behind the line, the string that begins inside it ends with it.
LEMMA StringInLine ==
  ASSUME EditorInv, buffer[buffer_pos] = Nul, NEW a \in 0 .. buffer_pos
  PROVE  StringIn(buffer, a) = Rest(a)
<1>1. /\ a \in 0 .. CmdSize - 1 /\ buffer_pos \in a .. CmdSize - 1 /\ buffer \in Buffers
      /\ \A k \in a .. buffer_pos - 1 : k \in 0 .. buffer_pos - 1
  BY LineInBuffer DEF EditorInv
<1>2. \A k \in a .. buffer_pos - 1 : buffer[k] # Nul
  BY <1>1, LineInBuffer
<1>3. StringIn(buffer, a) = [k \in 1 .. buffer_pos - a |-> buffer[a + k - 1]]
  BY <1>1, <1>2, StringIs
<1>4. \A k \in 1 .. buffer_pos - a : buffer[a + k - 1] = line[a + k]
  <2> TAKE k \in 1 .. buffer_pos - a
  <2>1. a + k - 1 \in 0 .. buffer_pos - 1 /\ a + k - 1 + 1 = a + k
    BY LineInBuffer
  <2> QED  BY <2>1, LineInBuffer
<1> QED  BY <1>3, <1>4 DEF Rest

\* What ArgsFrom points at is the argument the line has.
LEMMA ArgsAreArgument ==
  ASSUME EditorInv, buffer[buffer_pos] = Nul, NEW i \in DOMAIN Commands, NameMatches(i)
  PROVE  ArgsFrom(i) \in 0 .. buffer_pos /\ Rest(ArgsFrom(i)) = Argument(line, i)
<1> DEFINE n == Len(Commands[i])
           rest == SubSeq(line, n + 1, Len(line))
<1>1. PICK a \in n .. buffer_pos :
        /\ ArgsFrom(i) = a
        /\ \A k \in n .. a - 1 : buffer[k] = Space
        /\ a = buffer_pos \/ buffer[a] # Space
  BY ArgsType
<1>2. n \in Nat /\ buffer_pos \in Nat /\ n <= a /\ a <= buffer_pos /\ Len(line) = buffer_pos
  BY NameType, LineInBuffer
<1>3. Rest(a) = [k \in 1 .. buffer_pos - a |-> line[a + k]]
  BY DEF Rest
<1>4. PICK m \in Nat : m = buffer_pos - n
  BY <1>2
<1>5. /\ rest \in Seq(Chars) /\ Len(rest) = m
      /\ \A k \in 1 .. m : rest[k] = line[n + k]
  <2>1. PICK f \in Int, l \in Int : f = n + 1 /\ l = Len(line)
    BY <1>2
  <2>2. \A k \in f .. l : line[k] \in Chars
    <3> TAKE k \in f .. l
    <3>1. k \in 1 .. Len(line)
      BY <1>2, <2>1
    <3> QED  BY <3>1, LineInBuffer, ElementOfSeq
  <2>3. /\ SubSeq(line, f, l) \in Seq(Chars)
        /\ Len(SubSeq(line, f, l)) = IF f <= l THEN l - f + 1 ELSE 0
        /\ \A k \in 1 .. l - f + 1 : SubSeq(line, f, l)[k] = line[f + k - 1]
    BY <2>2, SubSeqProperties
  <2>4. rest = SubSeq(line, f, l)
    BY <2>1
  <2> HIDE DEF rest
  <2>5. /\ rest \in Seq(Chars) /\ Len(rest) = IF f <= l THEN l - f + 1 ELSE 0
        /\ \A k \in 1 .. l - f + 1 : rest[k] = line[f + k - 1]
    BY <2>3, <2>4, Zenon
  <2> HIDE DEF n
  <2>6. m = l - f + 1 /\ (IF f <= l THEN l - f + 1 ELSE 0) = m
    BY <1>2, <1>4, <2>1
  <2>7. \A k \in 1 .. m : f + k - 1 = n + k
    BY <1>2, <2>1
  <2> QED  BY <2>5, <2>6, <2>7
<1> HIDE DEF rest
<1>6. \A k \in 1 .. a - n : rest[k] = Space
  <2> TAKE k \in 1 .. a - n
  <2>1. /\ k \in 1 .. m /\ n + k - 1 \in n .. a - 1 /\ n + k - 1 \in 0 .. buffer_pos - 1
        /\ n + k - 1 + 1 = n + k
    BY <1>2, <1>4
  <2> QED  BY <1>1, <1>5, <2>1, LineInBuffer
<1>7. DOMAIN rest = 1 .. m
  BY <1>5, LenProperties
<1>8. Argument(line, i) = IF \A k \in DOMAIN rest : rest[k] = Space THEN <<>>
        ELSE SubSeq(rest, CHOOSE k \in DOMAIN rest : rest[k] # Space /\ \A j \in 1 .. k - 1 : rest[j] = Space,
                    Len(rest))
  BY DEF Argument, rest
<1>9. a \in 0 .. buffer_pos
  BY <1>2
<1>10. CASE a = buffer_pos
  <2>1. \A k \in DOMAIN rest : rest[k] = Space
    BY <1>2, <1>4, <1>6, <1>7, <1>10
  <2>2. Rest(a) = <<>>
    <3>1. 1 .. buffer_pos - a = {} /\ <<>> = [k \in {} |-> line[a + k]]
      BY <1>2, <1>10
    <3> QED  BY <1>3, <3>1
  <2> QED  BY <1>1, <1>8, <1>9, <2>1, <2>2
<1>11. CASE a # buffer_pos
  <2>1. PICK p \in 1 .. m : p = a - n + 1
    BY <1>2, <1>4, <1>11
  <2>2. rest[p] # Space /\ \A j \in 1 .. p - 1 : rest[j] = Space
    <3>1. a \in 0 .. buffer_pos - 1 /\ n + p = a + 1 /\ p - 1 = a - n
      BY <1>2, <1>11, <2>1
    <3>2. rest[p] = buffer[a]
      BY <1>5, <2>1, <3>1, LineInBuffer
    <3> QED  BY <1>1, <1>6, <1>11, <3>1, <3>2
  <2> DEFINE q == CHOOSE k \in DOMAIN rest : rest[k] # Space /\ \A j \in 1 .. k - 1 : rest[j] = Space
  <2>3. q \in 1 .. m /\ rest[q] # Space /\ \A j \in 1 .. q - 1 : rest[j] = Space
    BY <1>7, <2>2
  <2>4. Argument(line, i) = SubSeq(rest, q, Len(rest))
    BY <1>7, <1>8, <2>2
  <2> HIDE DEF q
  <2>5. q = p
    <3>1. ~(q < p)
      BY <2>2, <2>3
    <3>2. ~(p < q)
      BY <2>2, <2>3
    <3> QED  BY <2>3, <3>1, <3>2
  <2> DEFINE t == SubSeq(rest, p, m)
  <2>6. /\ t \in Seq(Chars) /\ Len(t) = IF p <= m THEN m - p + 1 ELSE 0
        /\ \A k \in 1 .. m - p + 1 : t[k] = rest[p + k - 1]
    <3>1. p \in Int /\ m \in Int
      OBVIOUS
    <3>2. \A k \in p .. m : rest[k] \in Chars
      <4> TAKE k \in p .. m
      <4>1. k \in 1 .. Len(rest)
        BY <1>5
      <4> QED  BY <1>5, <4>1, ElementOfSeq
    <3> QED  BY <3>1, <3>2, SubSeqProperties
  <2> HIDE DEF t
  <2>7. Len(t) = buffer_pos - a /\ m - p + 1 = buffer_pos - a
    BY <1>2, <1>4, <2>1, <2>6
  <2>8. \A k \in 1 .. buffer_pos - a : t[k] = line[a + k]
    <3> TAKE k \in 1 .. buffer_pos - a
    <3>1. k \in 1 .. m - p + 1 /\ p + k - 1 \in 1 .. m /\ n + (p + k - 1) = a + k
      BY <1>2, <1>4, <2>1, <2>7
    <3> QED  BY <1>5, <2>6, <3>1
  <2>9. t = [k \in 1 .. buffer_pos - a |-> line[a + k]]
    <3>1. t = [k \in 1 .. Len(t) |-> t[k]]
      BY <2>6, LenProperties
    <3> QED  BY <2>7, <2>8, <3>1
  <2>10. Argument(line, i) = t
    BY <1>5, <2>4, <2>5 DEF t
  <2> QED  BY <1>1, <1>3, <1>9, <2>9, <2>10
<1> QED  BY <1>10, <1>11

-----------------------------------------------------------------------------
(* The inductive invariant.                                                *)

LEMMA ConsoleInit ==
  ASSUME Init  PROVE ConsoleInv
<1>1. 0 \in 0 .. CmdSize - 1 /\ 0 \in 0 .. HistorySize - 1 /\ 0 \in 0 .. HistorySize
      /\ CmdSize - 1 \in 0 .. CmdSize - 1
  BY SizeType
<1>2. Zeroed \in Buffers
  BY <1>1 DEF Zeroed, Buffers
<1>3. MemoryInv
  BY <1>1, <1>2 DEF Init, CliInit, MemoryInv
<1>4. HistoryInv
  BY <1>1, <1>2, EmptySeq DEF Init, CliInit, HistoryInv, Known
<1>5. BrowseInv
  BY EmptyStash DEF Init, CliInit, BrowseInv
<1>6. WorkInv
  BY <1>1 DEF Init, CliInit, WorkInv, Idle
<1>7. CleanInv
  BY DEF Init, CliInit, CleanInv, LineInv, SaveInv, PastInv, RunInv, Executing
<1> QED  BY <1>3, <1>4, <1>5, <1>6, <1>7 DEF ConsoleInv

\* Where a step changes neither the command line nor a line's history.
LEMMA CliKept ==
  ASSUME ConsoleInv, UNCHANGED cliVars,
         pc' = pc \/ (pc \notin {"count", "copy", "advance"} /\ pc' # "count")
  PROVE  /\ MemoryInv' /\ HistoryInv' /\ BrowseInv'
         /\ UNCHANGED <<buffer, buffer_pos, line, prompt, history, history_head, history_count, past>>
         /\ EditorInv => EditorInv'
<1>1. UNCHANGED <<buffer, buffer_pos, line, history, history_head, history_count, past,
                  history_browse, stash, esc_state, prompt, ring>>
  BY DEF cliVars, editor, ring, browsing
<1>2. HistoryInv'
  BY <1>1, HistoryKept DEF ConsoleInv
<1> QED  BY <1>1, <1>2 DEF ConsoleInv, MemoryInv, BrowseInv, EditorInv, Holds

\* A key.  One that is not early finds the user on their own line.
LEMMA CharReceivedStep ==
  ASSUME ConsoleInv, CharReceived  PROVE ConsoleInv'
<1>1. PICK c \in KeysTyped :
        /\ cli_process_char(c)
        /\ early' = (early \/ Busy)
        /\ IF c = "Enter" /\ ~command_pending
           THEN command_pending' = TRUE /\ entered' = IF early' THEN <<>> ELSE line
           ELSE UNCHANGED <<command_pending, entered>>
        /\ pc' = IF pc = "asleep" THEN "top" ELSE pc
        /\ UNCHANGED locals
  BY DEF CharReceived
<1>2. /\ MemoryInv' /\ BrowseInv' /\ UNCHANGED ring /\ UNCHANGED prompt
      /\ EditorInv /\ prompt = "shown" => EditorInv'
      /\ c = "Enter" => UNCHANGED editor
  BY <1>1, KeyStep DEF ConsoleInv
<1>3. HistoryInv'
  BY <1>1, <1>2, HistoryKept DEF ConsoleInv
<1>4. UNCHANGED <<pos, len, idx, args, handler, history_count>>
  BY <1>1, <1>2 DEF locals, ring
<1>5. WorkInv'
  <2>1. early' \in BOOLEAN /\ command_pending' \in BOOLEAN /\ (command_pending => command_pending')
    BY <1>1 DEF ConsoleInv, WorkInv, Busy
  <2> QED  BY <1>1, <1>2, <1>4, <2>1 DEF ConsoleInv, WorkInv, Idle
<1>6. ASSUME ~early'  PROVE CleanInv'
  <2>1. ~early /\ ~command_pending /\ prompt = "shown" /\ prompt' = "shown"
    BY <1>1, <1>2, <1>6 DEF Busy
  <2>2. EditorInv'
    BY <1>2, <2>1 DEF ConsoleInv, CleanInv, LineInv
  <2>3. pc' \in Idle
    BY <1>1, <2>1 DEF ConsoleInv, WorkInv, Idle
  <2>4. command_pending' => entered' = line'
    <3>1. CASE c = "Enter"
      BY <1>1, <1>2, <1>6, <2>1, <3>1 DEF editor
    <3>2. CASE c # "Enter"
      BY <1>1, <2>1, <3>2
    <3> QED  BY <3>1, <3>2
  <2>5. LineInv'
    BY <2>1, <2>2, <2>4 DEF LineInv
  <2> QED  BY <2>3, <2>5 DEF CleanInv, SaveInv, PastInv, RunInv, Idle, Executing
<1> QED  BY <1>2, <1>3, <1>5, <1>6 DEF ConsoleInv

\* The prompt leaves: a new line begins, on which nothing has been typed early.
LEMMA PromptLeavesStep ==
  ASSUME ConsoleInv, PromptLeaves  PROVE ConsoleInv'
<1>1. /\ prompt = "queued" /\ prompt' = "shown" /\ line' = <<>>
      /\ UNCHANGED <<buffer, buffer_pos, ring, browsing, esc_state, pc, locals, entry>>
  BY DEF PromptLeaves
<1>2. UNCHANGED <<pos, len, idx, args, handler, command_pending, entered, early,
                  history, history_head, history_count, past, history_browse, stash>>
  BY <1>1 DEF locals, entry, ring, browsing
<1>3. HistoryInv'
  BY <1>1, HistoryKept DEF ConsoleInv
<1>4. MemoryInv' /\ BrowseInv' /\ WorkInv'
  BY <1>1, <1>2 DEF ConsoleInv, MemoryInv, BrowseInv, WorkInv
<1>5. ASSUME ~early'  PROVE CleanInv'
  <2>1. CleanInv /\ buffer_pos = 0
    BY <1>1, <1>2, <1>5 DEF ConsoleInv, CleanInv, LineInv
  <2>2. pc \in Idle \cup {"prompt", "clear"} /\ (command_pending => pc \in {"prompt", "clear"})
    BY <1>1, <2>1 DEF ConsoleInv, CleanInv, LineInv, WorkInv
  <2>3. EditorInv'
    <3>1. <<>> \in Lines /\ Len(<<>>) = 0
      BY SizeType, EmptySeq DEF Lines
    <3> QED  BY <1>1, <2>1, <3>1 DEF ConsoleInv, MemoryInv, EditorInv, Holds
  <2>4. LineInv'
    BY <1>1, <1>2, <2>2, <2>3 DEF LineInv
  <2> QED  BY <1>1, <2>2, <2>4 DEF CleanInv, SaveInv, PastInv, RunInv, Idle, Executing
<1> QED  BY <1>3, <1>4, <1>5 DEF ConsoleInv

\* buffer[buffer_pos] = 0, in two steps.
LEMMA LoadStep ==
  ASSUME ConsoleInv, SaveLoads \/ ExecLoads  PROVE ConsoleInv'
<1>1. /\ \/ pc = "save" /\ pc' = "savenul"
         \/ pc = "exec" /\ pc' = "execnul"
      /\ pos' = buffer_pos
      /\ UNCHANGED cliVars /\ UNCHANGED <<len, idx, args, handler>> /\ UNCHANGED entry
  BY DEF SaveLoads, ExecLoads, Load, At
<1>2. /\ MemoryInv' /\ HistoryInv' /\ BrowseInv' /\ (EditorInv => EditorInv')
      /\ UNCHANGED <<buffer, buffer_pos, line, prompt, history, history_head, history_count, past>>
      /\ UNCHANGED <<command_pending, entered, early>>
  BY <1>1, CliKept DEF entry
<1>3. WorkInv'
  BY <1>1, <1>2 DEF ConsoleInv, WorkInv, MemoryInv, Idle, Saving, Executing
<1>4. ASSUME ~early'  PROVE CleanInv'
  BY <1>1, <1>2, <1>4 DEF ConsoleInv, CleanInv, LineInv, SaveInv, PastInv, RunInv, Executing, WorkInv, Idle
<1> QED  BY <1>2, <1>3, <1>4 DEF ConsoleInv

LEMMA StoreStep ==
  ASSUME ConsoleInv, SaveStores \/ ExecStores  PROVE ConsoleInv'
<1>1. /\ \/ pc = "savenul" /\ pc' = "empty" /\ idx' = idx
         \/ pc = "execnul" /\ pc' = "scan" /\ idx' = 1
      /\ buffer' = Terminated(pos) /\ pos' = 0
      /\ UNCHANGED <<buffer_pos, line, ring, browsing, esc_state, prompt, len, args, handler, entry>>
  BY DEF SaveStores, ExecStores, Store, At
<1>2. UNCHANGED <<history, history_head, history_count, past, history_browse, stash,
                  command_pending, entered, early>>
  BY <1>1 DEF ring, browsing, entry
<1>3. MemoryInv'
  BY <1>1, TerminatedType DEF ConsoleInv, MemoryInv, WorkInv
<1>4. HistoryInv' /\ BrowseInv'
  BY <1>1, <1>2, HistoryKept DEF ConsoleInv, BrowseInv
<1>5. WorkInv'
  BY <1>1, <1>2, SizeType DEF ConsoleInv, WorkInv, Idle, Saving, Executing
<1>6. ASSUME ~early'  PROVE CleanInv'
  <2>1. CleanInv /\ pc \notin Idle /\ command_pending
    BY <1>1, <1>2, <1>6 DEF ConsoleInv, WorkInv, Idle
  <2>2. EditorInv /\ prompt = "shown" /\ entered = line /\ pos = buffer_pos
    BY <1>1, <2>1 DEF CleanInv, LineInv, SaveInv
  <2>3. EditorInv' /\ buffer'[buffer_pos] = Nul
    BY <1>1, <2>2, TerminatedHolds DEF EditorInv, Holds
  <2>4. LineInv'
    BY <1>1, <1>2, <2>2, <2>3 DEF LineInv
  <2>5. PastInv'
    BY <1>1, <1>2, <2>1 DEF CleanInv, PastInv, Executing
  <2> QED  BY <1>1, <2>3, <2>4, <2>5 DEF CleanInv, SaveInv, RunInv
<1> QED  BY <1>3, <1>4, <1>5, <1>6 DEF ConsoleInv

\* An empty line is not saved; another is measured.
LEMMA MeasuresStep ==
  ASSUME ConsoleInv, SkipsEmpty \/ Measures  PROVE ConsoleInv'
<1>1. /\ \/ /\ pc = "empty" /\ pc' = IF buffer_pos = 0 THEN "exec" ELSE "measure"
            /\ len' = len
         \/ /\ pc = "measure" /\ pc' = IF history_count > 0 THEN "compare" ELSE "copy"
            /\ len' = buffer_pos
      /\ UNCHANGED cliVars /\ UNCHANGED <<pos, idx, args, handler>> /\ UNCHANGED entry
  BY DEF SkipsEmpty, Measures, At, locals
<1>2. /\ MemoryInv' /\ HistoryInv' /\ BrowseInv' /\ (EditorInv => EditorInv')
      /\ UNCHANGED <<buffer, buffer_pos, line, prompt, history, history_head, history_count, past>>
      /\ UNCHANGED <<command_pending, entered, early>>
  BY <1>1, CliKept DEF entry
<1>3. idx = 0 /\ buffer_pos \in 0 .. CmdSize - 1 /\ len' \in 0 .. CmdSize - 1
  BY <1>1 DEF ConsoleInv, WorkInv, MemoryInv
<1>4. WorkInv'
  BY <1>1, <1>2, <1>3 DEF ConsoleInv, WorkInv, Idle, Saving, Executing
<1>5. ASSUME ~early'  PROVE CleanInv'
  <2>1. CleanInv /\ command_pending /\ pc' \notin {"prompt", "clear"}
    BY <1>1, <1>2, <1>5 DEF ConsoleInv, WorkInv, Idle
  <2>2. EditorInv /\ prompt = "shown" /\ entered = line
    BY <1>1, <2>1 DEF CleanInv, LineInv
  <2>3. LineInv'
    BY <1>1, <1>2, <2>2 DEF LineInv
  <2>4. buffer_pos = 0 => entered = <<>>
    BY <2>2, EmptySeq DEF EditorInv, Lines
  <2>5. PastInv'
    BY <1>1, <1>2, <2>4 DEF PastInv, Executing
  <2>6. SaveInv'
    BY <1>1, <1>2, <1>3, <2>1 DEF CleanInv, SaveInv
  <2> QED  BY <1>1, <2>3, <2>5, <2>6 DEF CleanInv, RunInv
<1> QED  BY <1>2, <1>4, <1>5 DEF ConsoleInv

\* The comparison with the latest line: what is found to be a repetition is.
LEMMA CompareStep ==
  ASSUME ConsoleInv, Compare  PROVE ConsoleInv'
<1> DEFINE goes == idx < len /\ GoesOn(buffer, Entry(0), idx)
           same == idx = len \/ BothEnd(buffer, Entry(0), idx)
<1>1. /\ pc = "compare" /\ UNCHANGED cliVars /\ UNCHANGED <<pos, len, args, handler>> /\ UNCHANGED entry
      /\ goes => idx' = idx + 1 /\ pc' = "compare"
      /\ ~goes => idx' = 0 /\ pc' = IF same /\ EndsTheLatest(len) THEN "browse" ELSE "copy"
  BY DEF Compare
<1>2. /\ MemoryInv' /\ HistoryInv' /\ BrowseInv' /\ (EditorInv => EditorInv')
      /\ UNCHANGED <<buffer, buffer_pos, line, prompt, history, history_head, history_count, past>>
      /\ UNCHANGED <<command_pending, entered, early>>
  BY <1>1, CliKept DEF entry
<1>3. idx \in 0 .. len /\ len \in 0 .. CmdSize - 1 /\ command_pending /\ history_count > 0
      /\ Entry(0)' = Entry(0) /\ history_count \in Nat
  BY <1>1, <1>2 DEF ConsoleInv, WorkInv, Idle, Entry, HistoryInv
<1>4. WorkInv'
  BY <1>1, <1>2, <1>3, SizeType DEF ConsoleInv, WorkInv, Idle, Saving, Executing
<1>5. ASSUME ~early'  PROVE CleanInv'
  <2>1. /\ EditorInv /\ prompt = "shown" /\ entered = line /\ len = buffer_pos /\ len > 0
        /\ \A k \in 0 .. idx - 1 : buffer[k] = Entry(0)[k]
    BY <1>1, <1>2, <1>3, <1>5 DEF ConsoleInv, CleanInv, LineInv, SaveInv
  <2>2. LineInv'
    BY <1>1, <1>2, <2>1 DEF LineInv
  <2>3. SaveInv'
    <3>1. CASE goes
      <4>1. \A k \in 0 .. idx' - 1 : buffer[k] = Entry(0)[k]
        BY <1>1, <1>3, <2>1, <3>1 DEF GoesOn
      <4> QED  BY <1>1, <1>2, <1>3, <2>1, <3>1, <4>1 DEF SaveInv
    <3>2. CASE ~goes
      BY <1>1, <1>2, <1>3, <2>1, <3>2 DEF SaveInv
    <3> QED  BY <3>1, <3>2
  <2>4. ASSUME ~goes, same, EndsTheLatest(len)  PROVE past # <<>> /\ past[1] = entered
    <3>1. idx = len
      BY <1>3, <2>1, <2>4, LineInBuffer DEF BothEnd
    <3>2. Entry(0) \in Buffers /\ line \in Lines /\ Len(line) = len /\ Entry(0)[len] = Nul
      BY <2>1, <2>4, EntryType DEF ConsoleInv, EditorInv, EndsTheLatest
    <3>3. Holds(Entry(0), line)
      <4> SUFFICES ASSUME NEW i \in 1 .. len  PROVE Entry(0)[i - 1] = line[i]
        BY <3>2 DEF Holds
      <4>1. i - 1 \in 0 .. idx - 1 /\ i - 1 \in 0 .. buffer_pos - 1 /\ i - 1 + 1 = i
        BY <1>3, <2>1, <3>1
      <4> QED  BY <2>1, <4>1, LineInBuffer
    <3>4. StringIn(Entry(0), 0) = line
      BY <3>2, <3>3, TextOfLine
    <3>5. past \in Seq(Lines) /\ Len(past) = history_count /\ 0 \in 0 .. history_count - 1
          /\ \A n \in 0 .. history_count - 1 : StringIn(Entry(n), 0) = past[n + 1]
      BY <1>1, <1>3 DEF ConsoleInv, HistoryInv, Known, Unfinished
    <3>6. past # <<>>
      BY <1>3, <3>5, EmptySeq
    <3>7. StringIn(Entry(0), 0) = past[0 + 1]
      BY <3>5
    <3> QED  BY <2>1, <3>4, <3>6, <3>7
  <2>5. PastInv'
    BY <1>1, <1>2, <2>4 DEF PastInv, Executing
  <2>6. RunInv'
    BY <1>1 DEF RunInv
  <2> QED  BY <2>2, <2>3, <2>5, <2>6 DEF CleanInv
<1> QED  BY <1>2, <1>4, <1>5 DEF ConsoleInv

\* The copy, whose string is the line entered when it is complete.
LEMMA CopyStep ==
  ASSUME ConsoleInv, Copy  PROVE ConsoleInv'
<1>1. /\ pc = "copy" /\ UNCHANGED editor /\ UNCHANGED <<history_head, history_count, past>>
      /\ UNCHANGED browsing /\ UNCHANGED <<esc_state, prompt, pos, len, args, handler>>
      /\ UNCHANGED entry
      /\ idx < len => idx' = idx + 1 /\ pc' = "copy"
      /\ ~(idx < len) => idx' = 0 /\ pc' = "advance"
  BY DEF Copy, browsing
<1>2. /\ HistoryInv' /\ history_head' = history_head
      /\ history'[history_head] = IF idx < len THEN [history[history_head] EXCEPT ![idx] = buffer[idx]]
                                  ELSE [history[history_head] EXCEPT ![len] = Nul]
  BY CopyRing DEF ConsoleInv
<1>3. UNCHANGED <<buffer, buffer_pos, line, history_browse, stash, command_pending, entered, early>>
  BY <1>1 DEF editor, browsing, entry
<1>4. /\ idx \in 0 .. len /\ len \in 0 .. CmdSize - 1 /\ command_pending
      /\ history_head \in 0 .. HistorySize - 1 /\ history[history_head] \in Buffers
  BY <1>1 DEF ConsoleInv, WorkInv, Idle, HistoryInv
<1>5. MemoryInv' /\ BrowseInv'
  BY <1>1, <1>3 DEF ConsoleInv, MemoryInv, BrowseInv
<1>6. WorkInv'
  BY <1>1, <1>3, <1>4, SizeType DEF ConsoleInv, WorkInv, Idle, Saving, Executing
<1>7. ASSUME ~early'  PROVE CleanInv'
  <2>1. /\ EditorInv /\ prompt = "shown" /\ entered = line /\ len = buffer_pos /\ len > 0
        /\ \A k \in 0 .. idx - 1 : history[history_head][k] = buffer[k]
    BY <1>1, <1>3, <1>4, <1>7 DEF ConsoleInv, CleanInv, LineInv, SaveInv
  <2>2. EditorInv' /\ LineInv'
    BY <1>1, <1>3, <2>1 DEF LineInv, EditorInv, Holds
  <2>3. CASE idx < len
    <3>1. \A k \in 0 .. CmdSize - 1 :
            history'[history_head][k] = IF k = idx THEN buffer[idx] ELSE history[history_head][k]
      BY <1>2, <1>4, <2>3 DEF Buffers
    <3>2. \A k \in 0 .. idx : k \in 0 .. CmdSize - 1 /\ (k = idx \/ k \in 0 .. idx - 1)
      BY <1>4, <2>3, SizeType
    <3>3. \A k \in 0 .. idx : history'[history_head][k] = buffer[k]
      BY <2>1, <3>1, <3>2
    <3>4. \A k \in 0 .. idx' - 1 : history'[history_head'][k] = buffer'[k]
      BY <1>1, <1>2, <1>3, <1>4, <2>3, <3>3
    <3>5. SaveInv'
      BY <1>1, <1>3, <2>1, <2>3, <3>4 DEF SaveInv
    <3> QED  BY <1>1, <2>2, <2>3, <3>5 DEF CleanInv, PastInv, RunInv, Executing
  <2>4. CASE ~(idx < len)
    <3>1. idx = len /\ history'[history_head] \in Buffers
      BY <1>2, <1>4, <2>4 DEF HistoryInv
    <3>2. \A k \in 0 .. CmdSize - 1 :
            history'[history_head][k] = IF k = len THEN Nul ELSE history[history_head][k]
      BY <1>2, <1>4, <2>4 DEF Buffers
    <3>3. line \in Lines /\ Len(line) = len
      BY <2>1 DEF EditorInv
    <3>4. Holds(history'[history_head], line)
      <4> SUFFICES ASSUME NEW i \in 1 .. len  PROVE history'[history_head][i - 1] = line[i]
        BY <3>3 DEF Holds
      <4>1. i - 1 \in 0 .. idx - 1 /\ i - 1 \in 0 .. buffer_pos - 1 /\ i - 1 + 1 = i /\ i - 1 # len
            /\ i - 1 \in 0 .. CmdSize - 1
        BY <1>4, <2>1, <3>1, SizeType
      <4> QED  BY <2>1, <3>2, <4>1, LineInBuffer
    <3>5. StringIn(history'[history_head], 0) = line
      BY <1>4, <3>1, <3>2, <3>3, <3>4, TextOfLine
    <3>6. StringIn(history[history_head], 0)' = entered'
      BY <1>2, <1>3, <2>1, <3>5 DEF StringIn
    <3>7. SaveInv'
      BY <1>1, <1>3, <2>1, <2>4, <3>6 DEF SaveInv
    <3> QED  BY <1>1, <2>2, <2>4, <3>7 DEF CleanInv, PastInv, RunInv, Executing
  <2> QED  BY <2>3, <2>4
<1> QED  BY <1>2, <1>5, <1>6, <1>7 DEF ConsoleInv

LEMMA AdvanceStep ==
  ASSUME ConsoleInv, Advance  PROVE ConsoleInv'
<1>1. /\ pc = "advance" /\ pc' = "count" /\ UNCHANGED editor /\ UNCHANGED <<history, history_count>>
      /\ UNCHANGED browsing /\ UNCHANGED <<esc_state, prompt>> /\ UNCHANGED locals /\ UNCHANGED entry
  BY DEF Advance, At, browsing
<1>2. HistoryInv' /\ (~early => past' # <<>> /\ past'[1] = entered)
  BY AdvanceRing DEF ConsoleInv
<1>3. UNCHANGED <<buffer, buffer_pos, line, history_browse, stash, pos, len, idx, args, handler,
                  command_pending, entered, early>>
  BY <1>1 DEF editor, browsing, locals, entry
<1>4. MemoryInv' /\ BrowseInv'
  BY <1>1, <1>3 DEF ConsoleInv, MemoryInv, BrowseInv
<1>5. idx = 0 /\ command_pending
  BY <1>1, <1>3 DEF ConsoleInv, WorkInv, Idle
<1>6. WorkInv'
  BY <1>1, <1>3, <1>5 DEF ConsoleInv, WorkInv, Idle, Saving, Executing
<1>7. ASSUME ~early'  PROVE CleanInv'
  <2>1. EditorInv /\ prompt = "shown" /\ entered = line
    BY <1>1, <1>3, <1>5, <1>7 DEF ConsoleInv, CleanInv, LineInv
  <2>2. LineInv'
    BY <1>1, <1>3, <2>1 DEF LineInv, EditorInv, Holds
  <2> QED  BY <1>1, <1>2, <1>3, <1>7, <2>2 DEF CleanInv, SaveInv, PastInv, RunInv
<1> QED  BY <1>2, <1>4, <1>6, <1>7 DEF ConsoleInv

LEMMA StillBelow ==
  ASSUME NEW m \in Nat, NEW n \in Nat, n >= m, NEW b \in -1 .. m - 1  PROVE b \in -1 .. n - 1
OBVIOUS

LEMMA CountStep ==
  ASSUME ConsoleInv, Count  PROVE ConsoleInv'
<1>1. /\ pc = "count" /\ pc' = "browse" /\ UNCHANGED editor /\ UNCHANGED <<history, history_head, past>>
      /\ UNCHANGED browsing /\ UNCHANGED <<esc_state, prompt>> /\ UNCHANGED locals /\ UNCHANGED entry
  BY DEF Count, At, browsing
<1>2. HistoryInv' /\ history_count' >= history_count /\ history_count' \in Nat /\ history_count \in Nat
  BY CountRing DEF ConsoleInv
<1>3. UNCHANGED <<buffer, buffer_pos, line, history_browse, stash, pos, len, idx, args, handler,
                  command_pending, entered, early>>
  BY <1>1 DEF editor, browsing, locals, entry
<1>4. MemoryInv'
  BY <1>3 DEF ConsoleInv, MemoryInv
<1>5. BrowseInv'
  <2>1. history_browse \in -1 .. history_count - 1 /\ stash \in Stashes /\ esc_state \in 0 .. 2
    BY DEF ConsoleInv, BrowseInv
  <2>2. history_browse \in -1 .. history_count' - 1
    BY <1>2, <2>1, StillBelow
  <2> QED  BY <1>1, <1>3, <2>1, <2>2 DEF BrowseInv
<1>6. idx = 0 /\ command_pending
  BY <1>1 DEF ConsoleInv, WorkInv, Idle
<1>7. WorkInv'
  BY <1>1, <1>3, <1>6 DEF ConsoleInv, WorkInv, Idle, Saving, Executing
<1>8. ASSUME ~early'  PROVE CleanInv'
  <2>1. EditorInv /\ prompt = "shown" /\ entered = line /\ PastInv
    BY <1>1, <1>3, <1>6, <1>8 DEF ConsoleInv, CleanInv, LineInv
  <2>2. LineInv'
    BY <1>1, <1>3, <2>1 DEF LineInv, EditorInv, Holds
  <2> QED  BY <1>1, <1>3, <2>1, <2>2 DEF CleanInv, SaveInv, PastInv, RunInv
<1> QED  BY <1>2, <1>4, <1>5, <1>7, <1>8 DEF ConsoleInv

LEMMA StopsBrowsingStep ==
  ASSUME ConsoleInv, StopsBrowsing  PROVE ConsoleInv'
<1>1. /\ pc = "browse" /\ pc' = "exec" /\ history_browse' = -1 /\ stash' = <<>> /\ len' = 0
      /\ UNCHANGED editor /\ UNCHANGED ring
      /\ UNCHANGED <<esc_state, prompt, pos, idx, args, handler>> /\ UNCHANGED entry
  BY DEF StopsBrowsing, At
<1>2. UNCHANGED <<buffer, buffer_pos, line, history_count, past, command_pending, entered, early>>
  BY <1>1 DEF editor, ring, entry
<1>3. HistoryInv'
  BY <1>1, HistoryKept DEF ConsoleInv
<1>4. MemoryInv' /\ BrowseInv'
  BY <1>1, <1>2, EmptyStash, SizeType DEF ConsoleInv, MemoryInv, BrowseInv, HistoryInv
<1>5. idx = 0 /\ command_pending
  BY <1>1 DEF ConsoleInv, WorkInv, Idle
<1>6. WorkInv'
  BY <1>1, <1>2, <1>5, SizeType DEF ConsoleInv, WorkInv, Idle, Saving, Executing
<1>7. ASSUME ~early'  PROVE CleanInv'
  <2>1. EditorInv /\ prompt = "shown" /\ entered = line /\ PastInv
    BY <1>1, <1>2, <1>5, <1>7 DEF ConsoleInv, CleanInv, LineInv
  <2>2. LineInv'
    BY <1>1, <1>2, <2>1 DEF LineInv, EditorInv, Holds
  <2> QED  BY <1>1, <1>2, <2>1, <2>2 DEF CleanInv, SaveInv, PastInv, RunInv, Executing
<1> QED  BY <1>3, <1>4, <1>6, <1>7 DEF ConsoleInv

\* The search for the command, its argument, and the end of the handler.
LEMMA ScanStep ==
  ASSUME ConsoleInv, Scan \/ FindArgs \/ Handle  PROVE ConsoleInv'
<1>1. /\ \/ pc = "scan" /\ idx > Len(Commands) /\ idx' = 0 /\ pc' = "reset" /\ args' = args
         \/ /\ pc = "scan" /\ ~(idx > Len(Commands)) /\ NameMatches(idx)
            /\ idx' = 0 /\ pc' = "args" /\ handler' = idx /\ args' = args
         \/ pc = "scan" /\ idx' = idx + 1 /\ pc' = "scan" /\ args' = args
         \/ /\ pc = "args" /\ pc' = "handler" /\ args' = ArgsFrom(handler)
            /\ idx' = idx /\ handler' = handler
         \/ pc = "handler" /\ pc' = "reset" /\ idx' = idx
      /\ UNCHANGED cliVars /\ UNCHANGED <<pos, len>> /\ UNCHANGED entry
  BY DEF Scan, FindArgs, Handle, At
<1>2. /\ MemoryInv' /\ HistoryInv' /\ BrowseInv' /\ (EditorInv => EditorInv')
      /\ UNCHANGED <<buffer, buffer_pos, line, prompt, history, history_head, history_count, past>>
      /\ UNCHANGED <<command_pending, entered, early>>
  BY <1>1, CliKept DEF entry
<1>3. command_pending /\ (pc = "scan" => idx \in Nat \ {0}) /\ (pc # "scan" => idx = 0)
  BY <1>1 DEF ConsoleInv, WorkInv, Idle
<1>4. WorkInv'
  BY <1>1, <1>2, <1>3 DEF ConsoleInv, WorkInv, Idle, Saving, Executing, Closing
<1>5. ASSUME ~early'  PROVE CleanInv'
  <2>1. CleanInv /\ EditorInv /\ prompt = "shown" /\ entered = line
    BY <1>1, <1>2, <1>3, <1>5 DEF ConsoleInv, CleanInv, LineInv
  <2>2. LineInv'
    BY <1>1, <1>2, <2>1 DEF LineInv
  <2>3. PastInv'
    BY <1>1, <1>2, <2>1 DEF CleanInv, PastInv, Executing
  <2>4. SaveInv'
    BY <1>1 DEF SaveInv
  <2>5. RunInv'
    <3>1. CASE pc = "scan" /\ pc' = "args"
      <4>1. handler' = idx /\ idx \in DOMAIN Commands /\ NameMatches(idx)
        <5>1. handler' = idx /\ ~(idx > Len(Commands)) /\ NameMatches(idx)
          BY <1>1, <3>1
        <5> QED  BY <1>3, <3>1, <5>1, CliAssumption, LenProperties
      <4>2. NameMatches(handler)'
        BY <1>2, <4>1 DEF NameMatches, Prefix
      <4> QED  BY <1>2, <2>1, <3>1, <4>1, <4>2 DEF CleanInv, RunInv
    <3>2. CASE pc = "args"
      <4>1. /\ buffer[buffer_pos] = Nul /\ handler \in DOMAIN Commands /\ NameMatches(handler)
            /\ pc' = "handler" /\ handler' = handler /\ args' = ArgsFrom(handler)
        BY <1>1, <2>1, <3>2 DEF CleanInv, RunInv
      <4>2. handler \in Names(line)
        BY <2>1, <4>1, MatchIsNamed
      <4>3. ArgsFrom(handler) \in 0 .. buffer_pos /\ Rest(ArgsFrom(handler)) = Argument(line, handler)
        BY <2>1, <4>1, ArgsAreArgument
      <4>4. Names(line)' = Names(line) /\ Argument(line, handler)' = Argument(line, handler)
            /\ Rest(args)' = Rest(ArgsFrom(handler))
        BY <1>2, <4>1 DEF Names, Argument, Rest
      <4> QED  BY <1>2, <4>1, <4>2, <4>3, <4>4 DEF RunInv
    <3>3. CASE pc' \in {"reset", "scan"}
      BY <1>1, <1>2, <2>1, <3>3 DEF CleanInv, RunInv
    <3> QED  BY <1>1, <3>1, <3>2, <3>3
  <2> QED  BY <2>2, <2>3, <2>4, <2>5 DEF CleanInv
<1> QED  BY <1>2, <1>4, <1>5 DEF ConsoleInv

\* The line is given up: what has been typed early with it.
LEMMA ResetStep ==
  ASSUME ConsoleInv, Reset  PROVE ConsoleInv'
<1>1. /\ pc = "reset" /\ pc' = "prompt" /\ buffer_pos' = 0 /\ prompt' = "owed"
      /\ early' = FALSE /\ entered' = <<>>
      /\ UNCHANGED <<buffer, line, ring, browsing, esc_state, locals, command_pending>>
  BY DEF Reset, At, LineDone
<1>2. UNCHANGED <<history_count, history_browse, stash, pos, len, idx, args, handler>>
  BY <1>1 DEF ring, browsing, locals
<1>3. HistoryInv'
  BY <1>1, HistoryKept DEF ConsoleInv
<1>4. MemoryInv' /\ BrowseInv'
  BY <1>1, <1>2, SizeType DEF ConsoleInv, MemoryInv, BrowseInv
<1>5. WorkInv'
  BY <1>1, <1>2 DEF ConsoleInv, WorkInv, Idle, Closing
<1>6. CleanInv'
  BY <1>1 DEF CleanInv, LineInv, SaveInv, PastInv, RunInv, Executing
<1> QED  BY <1>3, <1>4, <1>5, <1>6 DEF ConsoleInv

LEMMA PromptStep ==
  ASSUME ConsoleInv, Prompt  PROVE ConsoleInv'
<1>1. /\ pc = "prompt" /\ pc' = "clear" /\ prompt' = "queued"
      /\ UNCHANGED <<editor, ring, browsing, esc_state, locals, entry>>
  BY DEF Prompt, At
<1>2. UNCHANGED <<buffer, buffer_pos, line, history_count, history_browse, stash, pos, len, idx, args,
                  handler, command_pending, entered, early>>
  BY <1>1 DEF editor, ring, browsing, locals, entry
<1>3. HistoryInv'
  BY <1>1, HistoryKept DEF ConsoleInv
<1>4. MemoryInv' /\ BrowseInv'
  BY <1>1, <1>2 DEF ConsoleInv, MemoryInv, BrowseInv
<1>5. WorkInv' /\ prompt = "owed"
  BY <1>1, <1>2 DEF ConsoleInv, WorkInv, Idle, Closing
<1>6. ASSUME ~early'  PROVE CleanInv'
  <2>1. buffer_pos = 0
    BY <1>2, <1>5, <1>6 DEF ConsoleInv, CleanInv, LineInv
  <2> QED  BY <1>1, <1>2, <2>1 DEF CleanInv, LineInv, SaveInv, PastInv, RunInv, Executing
<1> QED  BY <1>3, <1>4, <1>5, <1>6 DEF ConsoleInv

\* The rest of the loop: it looks for a line and sleeps.
LEMMA LoopStep ==
  ASSUME ConsoleInv, Top \/ Clear \/ Process \/ Sleep \/ Tick \/ UNCHANGED vars
  PROVE  ConsoleInv'
<1>1. CASE UNCHANGED vars
  <2>1. UNCHANGED cliVars /\ pc' = pc
        /\ UNCHANGED <<pos, len, idx, args, handler, command_pending, entered, early>>
    BY <1>1 DEF vars, locals, entry
  <2>2. /\ MemoryInv' /\ HistoryInv' /\ BrowseInv' /\ (EditorInv => EditorInv')
        /\ UNCHANGED <<buffer, buffer_pos, line, prompt, history, history_head, history_count, past>>
    BY <2>1, CliKept
  <2>3. WorkInv'
    BY <2>1, <2>2 DEF ConsoleInv, WorkInv
  <2>4. ASSUME ~early'  PROVE CleanInv'
    <3>1. CleanInv
      BY <2>1, <2>4 DEF ConsoleInv
    <3>2. LineInv' /\ PastInv'
      BY <2>1, <2>2, <3>1 DEF CleanInv, LineInv, PastInv
    <3>3. SaveInv'
      BY <2>1, <2>2, <3>1 DEF CleanInv, SaveInv, Entry, StringIn
    <3>4. RunInv'
      BY <2>1, <2>2, <3>1 DEF CleanInv, RunInv, NameMatches, Prefix, Names, Rest, Argument
    <3> QED  BY <3>2, <3>3, <3>4 DEF CleanInv
  <2> QED  BY <2>2, <2>3, <2>4 DEF ConsoleInv
<1>2. CASE Top \/ Clear \/ Process \/ Sleep \/ Tick
  <2>1. /\ \/ pc = "top" /\ pc' = (IF command_pending THEN "save" ELSE "process") /\ UNCHANGED entry
           \/ pc = "clear" /\ pc' = "process" /\ command_pending' = FALSE /\ UNCHANGED <<entered, early>>
           \/ pc = "process" /\ pc' = (IF command_pending THEN "top" ELSE "wfi") /\ UNCHANGED entry
           \/ pc = "wfi" /\ pc' = "asleep" /\ UNCHANGED entry
           \/ pc = "asleep" /\ pc' = "top" /\ UNCHANGED entry
        /\ UNCHANGED cliVars /\ UNCHANGED locals
    BY <1>2 DEF Top, Clear, Process, Sleep, Tick, At
  <2>2. /\ MemoryInv' /\ HistoryInv' /\ BrowseInv' /\ (EditorInv => EditorInv')
        /\ UNCHANGED <<buffer, buffer_pos, line, prompt, history, history_head, history_count, past>>
    BY <2>1, CliKept
  <2>3. /\ UNCHANGED <<pos, len, idx, args, handler, entered, early>>
        /\ pc # "clear" => UNCHANGED command_pending
    BY <2>1 DEF locals, entry
  <2>4. WorkInv'
    BY <2>1, <2>2, <2>3 DEF ConsoleInv, WorkInv, Idle, Saving, Closing
  <2>5. ASSUME ~early'  PROVE CleanInv'
    <3>1. CleanInv
      BY <2>3, <2>5 DEF ConsoleInv
    <3>2. LineInv'
      BY <2>1, <2>2, <2>3, <3>1 DEF CleanInv, LineInv
    <3> QED  BY <2>1, <3>2 DEF CleanInv, SaveInv, PastInv, RunInv, Executing
  <2> QED  BY <2>2, <2>4, <2>5 DEF ConsoleInv
<1> QED  BY <1>1, <1>2

LEMMA ConsoleStep ==
  ASSUME ConsoleInv, [Next]_vars  PROVE ConsoleInv'
<1>1. CASE SaveLoads \/ ExecLoads           BY <1>1, LoadStep
<1>2. CASE SaveStores \/ ExecStores         BY <1>2, StoreStep
<1>3. CASE SkipsEmpty \/ Measures           BY <1>3, MeasuresStep
<1>4. CASE Compare                          BY <1>4, CompareStep
<1>5. CASE Copy                             BY <1>5, CopyStep
<1>6. CASE Advance                          BY <1>6, AdvanceStep
<1>7. CASE Count                            BY <1>7, CountStep
<1>8. CASE StopsBrowsing                    BY <1>8, StopsBrowsingStep
<1>9. CASE Scan \/ FindArgs \/ Handle       BY <1>9, ScanStep
<1>10. CASE Reset                           BY <1>10, ResetStep
<1>11. CASE Prompt                          BY <1>11, PromptStep
<1>12. CASE Top \/ Clear \/ Process \/ Sleep \/ Tick \/ UNCHANGED vars
  BY <1>12, LoopStep
<1>13. CASE CharReceived                    BY <1>13, CharReceivedStep
<1>14. CASE PromptLeaves                    BY <1>14, PromptLeavesStep
<1> QED
  BY <1>1, <1>2, <1>3, <1>4, <1>5, <1>6, <1>7, <1>8, <1>9, <1>10, <1>11, <1>12, <1>13, <1>14
  DEF Next, MainStep, Save, Execute

LEMMA ConsoleInvariant == Spec => []ConsoleInv
<1>1. Init => ConsoleInv
  BY ConsoleInit
<1>2. ConsoleInv /\ [Next]_vars => ConsoleInv'
  BY ConsoleStep
<1> QED  BY <1>1, <1>2, PTL DEF Spec

-----------------------------------------------------------------------------
(* Theorems.                                                               *)

\* A stash is at most CmdSize characters.
LEMMA StashIsTyped ==
  ASSUME NEW s \in Stashes  PROVE s \in Typed
<1>1. PICK n \in 0 .. CmdSize - 1 : s \in [1 .. n -> Chars \cup {Nul}]
  BY DEF Stashes
<1>2. n \in 0 .. CmdSize /\ s \in [1 .. n -> Letters \cup {Space, Nul}]
  BY <1>1, SizeType DEF Chars
<1> QED  BY <1>2 DEF Typed

\* The line buffer, the history and the stash keep their bounds, and every string
\* in them its end: no key, completion, recall or save writes or reads outside,
\* wherever between two steps of the main loop it comes (cli.c:27-100, 257-441).
THEOREM ConsoleTypes == Spec => []CliTypeOK
<1>1. ConsoleInv => CliTypeOK
  <2> SUFFICES ASSUME ConsoleInv  PROVE CliTypeOK
    OBVIOUS
  <2>1. stash \in Typed
    BY StashIsTyped DEF ConsoleInv, BrowseInv
  <2>2. /\ buffer \in [0 .. CmdSize - 1 -> Letters \cup {Space, Nul}] /\ buffer[CmdSize - 1] = Nul
        /\ buffer_pos \in 0 .. CmdSize - 1
    BY DEF ConsoleInv, MemoryInv, Buffers, Chars
  <2>3. history \in [0 .. HistorySize - 1 -> Buffers]
    BY DEF ConsoleInv, HistoryInv
  <2>4. /\ history \in [0 .. HistorySize - 1 -> [0 .. CmdSize - 1 -> Letters \cup {Space, Nul}]]
        /\ \A h \in 0 .. HistorySize - 1 : history[h][CmdSize - 1] = Nul
    BY <2>3 DEF Buffers, Chars
  <2> QED  BY <2>1, <2>2, <2>4 DEF ConsoleInv, HistoryInv, BrowseInv, CliTypeOK
<1> QED  BY <1>1, ConsoleInvariant, PTL

\* Whatever is typed, erased, completed or recalled after the prompt has been
\* shown, the terminal shows the characters that Enter will run (cli.c:257-441),
\* also while the main loop works the line off, until a key comes early: after
\* Enter, before the next prompt is on the screen (cli_simple.c:45-59).
THEOREM ScreenShowsBuffer == Spec => []ScreenIsBuffer
<1>1. ConsoleInv => ScreenIsBuffer
  BY PrefixIsLine DEF ConsoleInv, CleanInv, LineInv, ScreenIsBuffer
<1> QED  BY <1>1, ConsoleInvariant, PTL

\* The ring holds the latest lines in order, however often it has gone round and
\* wherever in cli_history_save a key comes; only the oldest slot is unfinished
\* while it is overwritten (cli.c:58-100).
THEOREM RingHoldsPast == Spec => []RingIsPast
<1>1. ConsoleInv => RingIsPast
  <2> SUFFICES ASSUME ConsoleInv  PROVE RingIsPast
    OBVIOUS
  <2>1. IF pc = "count" THEN Len(past) = NextCount ELSE Len(past) = history_count
    BY DEF ConsoleInv, HistoryInv, Known
  <2>2. \A n \in 0 .. Known - 1 : Unfinished(n) \/ StringIn(Entry(n), 0) = past[n + 1]
    BY DEF ConsoleInv, HistoryInv
  <2>3. history_count \in Nat /\ Known \in Nat /\ history_count <= Known
    BY SizeType DEF ConsoleInv, HistoryInv, Known, NextCount
  <2>4. \A n \in 0 .. history_count - 1 : n \in 0 .. Known - 1
    BY <2>3
  <2>5. pc \in Executing /\ ~early /\ entered # <<>> => past # <<>> /\ past[1] = entered
    BY DEF ConsoleInv, CleanInv, PastInv
  <2> QED  BY <2>1, <2>2, <2>4, <2>5 DEF RingIsPast, Executing
<1> QED  BY <1>1, ConsoleInvariant, PTL

\* If no key arrives between Enter and the handler, the handler that runs is the
\* one of the line entered, with the argument that the line has, over whatever
\* longer lines have left in the buffer (cli.c:27-56).
THEOREM RightCommandRuns == Spec => []RunsWhatWasEntered
<1>1. ConsoleInv => RunsWhatWasEntered
  <2> SUFFICES ASSUME ConsoleInv, pc = "handler", ~early
               PROVE  handler \in Names(entered) /\ StringIn(buffer, args) = Argument(entered, handler)
    BY DEF RunsWhatWasEntered
  <2>1. EditorInv /\ entered = line
    BY DEF ConsoleInv, CleanInv, LineInv, WorkInv, Idle
  <2>2. /\ handler \in Names(line) /\ args \in 0 .. buffer_pos
        /\ Rest(args) = Argument(line, handler) /\ buffer[buffer_pos] = Nul
    BY DEF ConsoleInv, CleanInv, RunInv
  <2>3. StringIn(buffer, args) = Rest(args)
    BY <2>1, <2>2, StringInLine
  <2> QED  BY <2>1, <2>2, <2>3
<1> QED  BY <1>1, ConsoleInvariant, PTL
=============================================================================
