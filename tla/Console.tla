------------------------------ MODULE Console ------------------------------
(***************************************************************************)
(* The console application, apps/cli/cli_simple.c: the receive interrupt   *)
(* edits the line and sets command_pending, the main loop runs the line    *)
(* and sleeps.  A step of the main loop is one statement or one round of a *)
(* loop; one that loads buffer_pos and stores at that position is two.     *)
(*                                                                         *)
(* What the handlers and the prompt print goes into a buffer and leaves by *)
(* DMA some time later: module OutputLoop, here only for the prompt.       *)
(* Echoed characters go to the UART directly (uart_write).                 *)
(***************************************************************************)
EXTENDS Cli

CONSTANTS
  KeysTyped,               (* the keys the user has *)
  MaxEarly,                (* bound: keys that come early; an arrow key counts once *)
  None

VARIABLES
  pc,                      (* the main loop; "asleep" is inside WFI *)
  pos, len, idx,           (* its locals: where to store a NUL, the length and
                              the loop index; 0 when not in use *)
  args,                    (* the handler's pointer into the buffer, and *)
  handler,                 (* the command it is for, or None *)
  command_pending,
  entered,                 (* history: the line when command_pending was set, if not early *)
  early,                   (* history: a key came before the line entered was
                              given up, or before the next prompt was shown *)
  earlyKeys                (* how many have come *)

locals == <<pos, len, idx, args, handler>>
entry == <<command_pending, entered, early, earlyKeys>>
vars == <<cliVars, pc, locals, entry>>

Init ==
  /\ CliInit
  /\ pc = "top" /\ pos = 0 /\ len = 0 /\ idx = 0 /\ args = 0 /\ handler = None
  /\ command_pending = FALSE /\ entered = <<>> /\ early = FALSE /\ earlyKeys = 0

-----------------------------------------------------------------------------
(* Interrupts.  Each of them ends a WFI.                                   *)

\* The user has no line of their own to type on.
Busy == command_pending \/ prompt # "shown"

\* on_char_received.  "[", "A" and "B" are only typed as parts of a sequence, and
\* a space only when the line ends in a letter (a bound).
\* While the loop idles, keys other than Enter arrive when it sleeps: they
\* touch nothing that its other idle steps use.
CharReceived ==
  \E c \in KeysTyped :
    /\ c \in {"[", "A", "B"} => esc_state # 0
    /\ c = Space => buffer_pos > 0 /\ buffer[buffer_pos - 1] # Space
    /\ command_pending \/ c = "Enter" \/ pc = "asleep"
    /\ cli_process_char(c)
    /\ early' = (early \/ Busy)
    /\ IF c = "Enter" /\ ~command_pending
       THEN command_pending' = TRUE /\ entered' = IF early' THEN <<>> ELSE line
       ELSE UNCHANGED <<command_pending, entered>>
    /\ earlyKeys' = IF Busy /\ (esc_state = 0 \/ ~early) THEN earlyKeys + 1 ELSE earlyKeys
    /\ earlyKeys' <= MaxEarly
    /\ pc' = IF pc = "asleep" THEN "top" ELSE pc
    /\ UNCHANGED locals

\* Mutant: systick_init without TICKINT.
NoTick == UNCHANGED vars

\* SysTick_Handler, every millisecond.
Tick == pc = "asleep" /\ pc' = "top" /\ UNCHANGED <<cliVars, locals, entry>>

\* The DMA has sent the prompt.
PromptLeaves ==
  /\ prompt = "queued" /\ prompt' = "shown" /\ line' = <<>>
  /\ UNCHANGED <<buffer, buffer_pos, ring, browsing, esc_state, pc, locals, entry>>

-----------------------------------------------------------------------------
(* The main loop and process_pending_command.                              *)

At(here, there) == pc = here /\ pc' = there

Top ==
  /\ At("top", IF command_pending THEN "save" ELSE "process")
  /\ UNCHANGED <<cliVars, locals, entry>>

\* cli_history_save and cli_execute_command begin alike: buffer[buffer_pos] = 0.
Load(here, there) ==
  /\ At(here, there)
  /\ pos' = buffer_pos
  /\ UNCHANGED <<cliVars, len, idx, args, handler, entry>>
Store(here, there) ==
  /\ At(here, there)
  /\ buffer' = Terminated(pos) /\ pos' = 0
  /\ UNCHANGED <<buffer_pos, line, ring, browsing, esc_state, prompt, len, args, handler, entry>>

SaveLoads == Load("save", "savenul")
SaveStores == Store("savenul", "empty") /\ UNCHANGED idx

SkipsEmpty ==
  /\ At("empty", IF buffer_pos = 0 THEN "exec" ELSE "measure")
  /\ UNCHANGED <<cliVars, locals, entry>>

Measures ==
  /\ At("measure", IF history_count > 0 THEN "compare" ELSE "copy")
  /\ len' = buffer_pos
  /\ UNCHANGED <<cliVars, pos, idx, args, handler, entry>>

\* One character of strncmp, or its end: a repetition is not saved.
Compare ==
  /\ pc = "compare"
  /\ IF idx < len /\ GoesOn(buffer, Entry(0), idx)
     THEN idx' = idx + 1 /\ pc' = pc
     ELSE /\ idx' = 0
          /\ LET same == idx = len \/ BothEnd(buffer, Entry(0), idx)
             IN  pc' = IF same /\ EndsTheLatest(len) THEN "browse" ELSE "copy"
  /\ UNCHANGED <<cliVars, pos, len, args, handler, entry>>

Copy ==
  /\ pc = "copy"
  /\ IF idx < len
     THEN /\ history' = [history EXCEPT ![history_head][idx] = buffer[idx]]
          /\ idx' = idx + 1 /\ pc' = pc
     ELSE /\ history' = [history EXCEPT ![history_head][len] = Nul]
          /\ idx' = 0 /\ pc' = "advance"
  /\ UNCHANGED <<editor, history_head, history_count, past, browsing, esc_state, prompt>>
  /\ UNCHANGED <<pos, len, args, handler, entry>>

\* What has been saved is the line entered; with an early key, what is in the slot.
Advance ==
  /\ At("advance", "count")
  /\ history_head' = (history_head + 1) % HistorySize
  /\ past' = Latest(IF early THEN StringIn(history[history_head], 0) ELSE entered)
  /\ UNCHANGED <<editor, history, history_count, browsing, esc_state, prompt, locals, entry>>

Count ==
  /\ At("count", "browse")
  /\ history_count' = NextCount
  /\ UNCHANGED <<editor, history, history_head, past, browsing, esc_state, prompt, locals, entry>>

StopsBrowsing ==
  /\ At("browse", "exec")
  /\ history_browse' = -1 /\ stash' = <<>> /\ len' = 0
  /\ UNCHANGED <<editor, ring, esc_state, prompt, pos, idx, args, handler, entry>>

ExecLoads == Load("exec", "execnul")
ExecStores == Store("execnul", "scan") /\ idx' = 1

\* One command of the list.  An unknown command and an empty line have no handler.
Scan ==
  /\ pc = "scan"
  /\ IF idx > Len(Commands) THEN idx' = 0 /\ pc' = "reset" /\ UNCHANGED handler
     ELSE IF NameMatches(idx) THEN idx' = 0 /\ pc' = "args" /\ handler' = idx
     ELSE idx' = idx + 1 /\ UNCHANGED <<pc, handler>>
  /\ UNCHANGED <<cliVars, pos, len, args, entry>>

FindArgs ==
  /\ At("args", "handler")
  /\ args' = ArgsFrom(handler)
  /\ UNCHANGED <<cliVars, pos, len, idx, handler, entry>>

\* The handler reads its argument, where args points.
Handle ==
  /\ At("handler", "reset")
  /\ handler' = None /\ args' = 0
  /\ UNCHANGED <<cliVars, pos, len, idx, entry>>

\* Mutant: the line is given up, the position stays.
KeepsPosition == UNCHANGED buffer_pos

LineDone == buffer_pos' = 0

\* What was typed until here is given up, too.
Reset ==
  /\ At("reset", "prompt")
  /\ LineDone
  /\ prompt' = "owed" /\ early' = FALSE /\ entered' = <<>>
  /\ UNCHANGED <<buffer, line, ring, browsing, esc_state, locals, command_pending, earlyKeys>>

Prompt ==
  /\ At("prompt", "clear")
  /\ prompt' = "queued"
  /\ UNCHANGED <<editor, ring, browsing, esc_state, locals, entry>>

Clear ==
  /\ At("clear", "process")
  /\ command_pending' = FALSE
  /\ UNCHANGED <<cliVars, locals, entered, early, earlyKeys>>

\* printf_dma_process, which touches none of this, and the check for a line.
Process ==
  /\ At("process", IF command_pending THEN "top" ELSE "wfi")
  /\ UNCHANGED <<cliVars, locals, entry>>

\* enter_sleep_mode.  An interrupt between the check and the WFI has been
\* served and does not end it.
Sleep ==
  /\ At("wfi", "asleep")
  /\ UNCHANGED <<cliVars, locals, entry>>

Save == SaveLoads \/ SaveStores \/ SkipsEmpty \/ Measures \/ Compare \/ Copy \/ Advance
          \/ Count \/ StopsBrowsing
Execute == ExecLoads \/ ExecStores \/ Scan \/ FindArgs \/ Handle
MainStep == Top \/ Save \/ Execute \/ Reset \/ Prompt \/ Clear \/ Process \/ Sleep

Next == MainStep \/ CharReceived \/ Tick \/ PromptLeaves

Spec == Init /\ [][Next]_vars

\* The processor runs the main loop, and SysTick interrupts every millisecond.
FairSpec == Spec /\ WF_vars(MainStep) /\ WF_vars(Tick)

-----------------------------------------------------------------------------
(* Properties.                                                             *)

\* What is on the screen is what Enter will run: letters, erasing, completion
\* and recalled lines change the two alike (cli.c:257-441).  A key that comes
\* before the prompt spoils the line it falls in, and no later one.
ScreenIsBuffer == prompt = "shown" /\ ~early => line = Prefix(buffer_pos)

\* The slot that cli_history_save is writing.
Unfinished(n) == pc \in {"copy", "advance"} /\ n = HistorySize - 1

\* At every moment, also in the middle of cli_history_save, the ring holds the
\* latest lines in order, but for the oldest while it is overwritten; and a line
\* that runs is the latest of them, newly saved or a repetition.
RingIsPast ==
  /\ IF pc = "count" THEN Len(past) = NextCount ELSE Len(past) = history_count
  /\ \A n \in 0 .. history_count - 1 : Unfinished(n) \/ StringIn(Entry(n), 0) = past[n + 1]
  /\ pc \in {"exec", "execnul", "scan", "args", "handler"} /\ ~early /\ entered # <<>> =>
       past # <<>> /\ past[1] = entered

\* The command and argument a line stands for, read off the line itself.
Names(l) == {c \in DOMAIN Commands :
               \/ l = Commands[c]
               \/ IsPrefix(Append(Commands[c], Space), l)}
Argument(l, c) ==
  LET rest == SubSeq(l, Len(Commands[c]) + 1, Len(l))
  IN  IF \A k \in DOMAIN rest : rest[k] = Space THEN <<>>
      ELSE SubSeq(rest, CHOOSE k \in DOMAIN rest : rest[k] # Space /\ \A j \in 1 .. k - 1 : rest[j] = Space,
                  Len(rest))

\* If no key arrives between Enter and the handler, the handler that runs is
\* the one of the line that was entered, with its argument (cli_simple.c:31-60).
RunsWhatWasEntered ==
  (pc = "handler" /\ ~early) =>
     handler \in Names(entered) /\ StringIn(buffer, args) = Argument(entered, handler)

\* An entered line is worked off, also when Enter comes between the check and
\* the WFI (cli_simple.c:112-129): again and again none is waiting.
EnteredIsServed == []<>~command_pending
=============================================================================
