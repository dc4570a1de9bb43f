-------------------------------- MODULE Cli --------------------------------
(***************************************************************************)
(* The command line of utils/src/cli.c: line editor with completion and a  *)
(* history ring.  cli_process_char runs in the receive interrupt; what     *)
(* cli_history_save and cli_execute_command do in the main loop, statement *)
(* by statement, is in Console.                                            *)
(*                                                                         *)
(* The line buffer and the history's slots are memory, since interrupt and *)
(* main loop share them; names, the stash (which only the interrupt uses)  *)
(* and what is shown are sequences.  Of the printable characters only      *)
(* Letters and the space are told apart; "[", "A" and "B" stand for        *)
(* themselves inside an escape sequence and are letters like any other     *)
(* outside, where they are not typed.                                      *)
(***************************************************************************)
EXTENDS Integers, Sequences, SequencesExt, FiniteSets

CONSTANTS
  Letters,
  Space, Nul,
  CmdSize,       (* buffer_size and CLI_MAX_CMD_SIZE, of which the app's is the smaller *)
  HistorySize,   (* CLI_HISTORY_SIZE *)
  Commands       (* the names in command_list, in order *)

\* Names hold no space and no NUL, and a control key is no character of the line.
ASSUME CliAssumption ==
  /\ CmdSize \in Nat \ {0} /\ HistorySize \in Nat \ {0}
  /\ Space \notin Letters /\ Nul \notin Letters \cup {Space}
  /\ {"Enter", "Backspace", "Tab", "Esc"} \cap (Letters \cup {Space}) = {}
  /\ Commands \in Seq(Seq(Letters))

VARIABLES
  buffer, buffer_pos,
  history, history_head, history_count, history_browse,
  stash,         (* history_stash up to history_stash_len, while it is in use *)
  esc_state,
  prompt,        (* the latest prompt is shown, owed (not yet printed) or queued *)
  line,          (* history: what the terminal shows after the prompt *)
  past           (* history: the lines saved, latest first *)

editor == <<buffer, buffer_pos, line>>
ring == <<history, history_head, history_count, past>>
browsing == <<history_browse, stash>>
cliVars == <<editor, ring, browsing, esc_state, prompt>>

\* Memory that is all zero; main has queued the first prompt.
Zeroed == [i \in 0 .. CmdSize - 1 |-> Nul]

CliInit ==
  /\ buffer = Zeroed /\ buffer_pos = 0
  /\ history = [i \in 0 .. HistorySize - 1 |-> Zeroed]
  /\ history_head = 0 /\ history_count = 0 /\ history_browse = -1
  /\ stash = <<>> /\ esc_state = 0
  /\ prompt = "queued" /\ line = <<>> /\ past = <<>>

\* The first n characters of the buffer, and the C string at a position of memory b.
Prefix(n) == [i \in 1 .. n |-> buffer[i - 1]]
StringIn(b, from) ==
  LET ends == {e \in from .. CmdSize - 1 : b[e] = Nul}
      end == IF ends = {} THEN CmdSize ELSE CHOOSE e \in ends : \A f \in ends : e <= f
  IN  [i \in 1 .. end - from |-> b[from + i - 1]]

\* Memory with s written over it from position n on, and the buffer with a NUL there.
Over(old, n, s) == [i \in DOMAIN old |-> IF n <= i /\ i < n + Len(s) THEN s[i - n + 1] ELSE old[i]]
Terminated(n) == [buffer EXCEPT ![n] = Nul]

\* What is echoed goes after the prompt if that is on the screen, and before it
\* if that is still to come.
Echoes(l) == line' = IF prompt = "shown" THEN l ELSE line

-----------------------------------------------------------------------------
(* cli_process_char, in the receive interrupt.                             *)

\* Mutant: the last place of the buffer is used, too.
TypesToTheEnd(c) ==
  /\ IF buffer_pos < CmdSize
     THEN /\ buffer' = [buffer EXCEPT ![buffer_pos] = c]
          /\ buffer_pos' = buffer_pos + 1
          /\ Echoes(Append(line, c))
     ELSE UNCHANGED editor
  /\ UNCHANGED <<ring, browsing>>

Types(c) ==
  /\ IF buffer_pos < CmdSize - 1
     THEN /\ buffer' = [buffer EXCEPT ![buffer_pos] = c]
          /\ buffer_pos' = buffer_pos + 1
          /\ Echoes(Append(line, c))
     ELSE UNCHANGED editor
  /\ UNCHANGED <<ring, browsing>>

Erases ==
  /\ IF buffer_pos > 0
     THEN buffer_pos' = buffer_pos - 1 /\ Echoes(IF line = <<>> THEN line ELSE Front(line))
     ELSE UNCHANGED <<buffer_pos, line>>
  /\ UNCHANGED <<buffer, ring, browsing>>

\* The commands that begin with what was typed.
Matching(typed) == {i \in DOMAIN Commands : IsPrefix(typed, Commands[i])}

\* What they share, with a space when that is the whole name of exactly one command.
Shared(typed) ==
  IF Matching(typed) = {} THEN <<>>
  ELSE LongestCommonPrefix({Commands[i] : i \in Matching(typed)})
Completion(shared) ==
  LET whole == Cardinality({i \in DOMAIN Commands : Commands[i] = shared}) = 1
  IN  IF whole /\ Len(shared) < CmdSize - 1 THEN Append(shared, Space) ELSE shared

\* TAB adds what the buffer lacks of the completion; one without its space is
\* followed by a NUL.
Completes ==
  LET shared == Shared(Prefix(buffer_pos))
      text == Completion(shared)
      longer == Len(shared) > buffer_pos /\ Len(shared) < CmdSize
      added == SubSeq(text, buffer_pos + 1, Len(text))
  IN  /\ \/ /\ buffer_pos = 0
            /\ UNCHANGED editor
         \/ /\ buffer_pos > 0 /\ longer
            /\ buffer' = Over(buffer, buffer_pos, IF text = shared THEN Append(added, Nul) ELSE added)
            /\ buffer_pos' = Len(text)
            /\ Echoes(line \o added)
         \/ /\ buffer_pos > 0 /\ ~longer
            /\ buffer' = Terminated(buffer_pos)
            /\ UNCHANGED <<buffer_pos, line>>
      /\ UNCHANGED <<ring, browsing>>

\* The slot of entry n of the history, 0 being the latest.
Entry(n) == history[(history_head + HistorySize - 1 - n) % HistorySize]

UpToNul(s) == IF \E i \in DOMAIN s : s[i] = Nul
              THEN SubSeq(s, 1, (CHOOSE i \in DOMAIN s : s[i] = Nul /\ \A j \in 1 .. i - 1 : s[j] # Nul) - 1)
              ELSE s

\* cli_history_show, into memory b: buffer_pos ends the line, no NUL is written.
Shows(b, s) == buffer' = Over(b, 0, s) /\ buffer_pos' = Len(s) /\ Echoes(s)

\* The first Up keeps the current line, which it terminates.
HistoryUp ==
  /\ IF history_browse + 1 >= history_count
     THEN UNCHANGED <<editor, browsing>>
     ELSE /\ history_browse' = history_browse + 1
          /\ stash' = IF history_browse = -1 THEN Prefix(buffer_pos) ELSE stash
          /\ Shows(IF history_browse = -1 THEN Terminated(buffer_pos) ELSE buffer,
                   StringIn(Entry(history_browse + 1), 0))
  /\ UNCHANGED ring

HistoryDown ==
  /\ IF history_browse = -1
     THEN UNCHANGED <<editor, browsing>>
     ELSE /\ history_browse' = history_browse - 1
          /\ Shows(buffer, IF history_browse = 0 THEN UpToNul(stash)
                            ELSE StringIn(Entry(history_browse - 1), 0))
          /\ stash' = IF history_browse = 0 THEN <<>> ELSE stash
  /\ UNCHANGED ring

InEscape(c) ==
  /\ esc_state' = IF esc_state = 1 /\ c = "[" THEN 2 ELSE 0
  /\ \/ esc_state = 2 /\ c = "A" /\ HistoryUp
     \/ esc_state = 2 /\ c = "B" /\ HistoryDown
     \/ ~(esc_state = 2 /\ c \in {"A", "B"}) /\ UNCHANGED <<editor, ring, browsing>>

cli_process_char(c) ==
  /\ IF esc_state # 0
     THEN InEscape(c)
     ELSE /\ esc_state' = IF c = "Esc" THEN 1 ELSE 0
          /\ \/ c \in Letters \cup {Space} /\ Types(c)
             \/ c = "Backspace" /\ Erases
             \/ c = "Tab" /\ Completes
             \/ c \in {"Enter", "Esc"} /\ UNCHANGED <<editor, ring, browsing>>
  /\ UNCHANGED prompt

-----------------------------------------------------------------------------
(* What the main loop's side is built from.                                *)

\* strncmp finds the two alike at a position: it goes on, or both end there.
GoesOn(a, b, i) == a[i] = b[i] /\ a[i] # Nul
BothEnd(a, b, i) == a[i] = Nul /\ b[i] = Nul

\* Mutant: a line that begins the latest one passes for a repetition of it.
BeginsTheLatest(n) == TRUE

\* Lines equal for n characters: the latest one is not longer.
EndsTheLatest(n) == Entry(0)[n] = Nul

NextCount == IF history_count < HistorySize THEN history_count + 1 ELSE history_count

Latest(s) == SubSeq(<<s>> \o past, 1, IF Len(past) < HistorySize THEN Len(past) + 1 ELSE HistorySize)

\* Mutant: a command is recognised by its first characters.
NameBegins(i) == LET name == Commands[i] IN buffer_pos >= Len(name) /\ Prefix(Len(name)) = name

\* The name is followed by a space or the end of the string.
NameMatches(i) ==
  LET name == Commands[i]
  IN  /\ buffer_pos >= Len(name) /\ Prefix(Len(name)) = name
      /\ buffer[Len(name)] \in {Nul, Space}

\* Where its argument begins: behind the spaces after the name.
ArgsFrom(i) ==
  CHOOSE a \in Len(Commands[i]) .. CmdSize - 1 :
    /\ \A k \in Len(Commands[i]) .. a - 1 : buffer[k] = Space
    /\ buffer[a] # Space

-----------------------------------------------------------------------------
(* Properties.                                                             *)

Typed == UNION {[1 .. n -> Letters \cup {Space, Nul}] : n \in 0 .. CmdSize}

\* The last place is never written to, so every string in memory ends there at
\* the latest: strncmp, the search for the argument and a recall stay inside.
CliTypeOK ==
  /\ buffer \in [0 .. CmdSize - 1 -> Letters \cup {Space, Nul}]
  /\ buffer_pos \in 0 .. CmdSize - 1
  /\ history \in [0 .. HistorySize - 1 -> [0 .. CmdSize - 1 -> Letters \cup {Space, Nul}]]
  /\ buffer[CmdSize - 1] = Nul /\ \A h \in 0 .. HistorySize - 1 : history[h][CmdSize - 1] = Nul
  /\ stash \in Typed
  /\ history_head \in 0 .. HistorySize - 1 /\ history_count \in 0 .. HistorySize
  /\ history_browse \in -1 .. history_count - 1
  /\ esc_state \in 0 .. 2
=============================================================================
