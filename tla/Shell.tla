----------------------------------- MODULE Shell -----------------------------------
(* The shell and the chat program with their windows.  Both write a character at   *)
(* a time, with interrupts disabled for each, so that their output mixes in any    *)
(* order; the event manager gives the keys to the one that has the focus.          *)
EXTENDS Window

CONSTANTS
  Keys,       \* letters, "bs", "cr", "nul" (a cursor key), "tab"
  MaxKeys,    \* bound on the keys that are pressed
  Packets,    \* bound on the UDP packets for the chat program
  Spelling    \* the names of the commands as letters, none of them a prefix of
              \* another but for "send" and "sendudp", "pong" and "pong "

ShellWindows == {"shell_wnd", "divider_wnd"}
ChatWindows == {"divider_chat_wnd", "disp_chat_wnd", "in_mess_wnd"}
Program == {"shell", "chat"}
Own == [p \in Program |-> IF p = "shell" THEN ShellWindows ELSE ChatWindows]

\* The commands in the order in which process_command() tries them.
Commands == <<"clear", "train", "sendudp", "send", "pong ", "pong", "chat", "help">>

ShellAssumption ==
  /\ WindowAssumption
  /\ Window = ShellWindows \cup ChatWindows
  /\ DOMAIN Spelling = {Commands[k] : k \in DOMAIN Commands}

VARIABLES
  console,
  todo,            \* the calls that each program has yet to make before it receives
  buffer,          \* the line of the shell and of the chat program, up to i
  process_input,
  already_run,     \* run_train_app()'s
  chat_init,
  listeners,       \* those that have registered for keys
  kboard_focus,
  events,          \* what em_process has yet to hand over
  presses, packets,
  own,             \* what the screen would be if a program were alone
  spoilt,          \* the line has a key that does not show, or shows one too many
  over,            \* a line of the shell ran over the divider
  shown, ran       \* the line that Return found on the screen and the command run
shell_vars == <<console, todo, buffer, process_input, already_run, chat_init, listeners,
                kboard_focus, events, presses, packets, own, spoilt, over, shown, ran>>

-------------------------------------------------------------------------------
(* Output.                                                                    *)

Call(do, w, ch) == [do |-> do, wnd |-> w, ch |-> ch]
wprintf(w, string) == [k \in DOMAIN string |-> Call("output_char", w, string[k])]
Repeat(w, ch, n) == [k \in 1 .. n |-> Call("output_char", w, ch)]

\* A text of n lines: what is in them does not matter.
Text(n) == wprintf("shell_wnd", [k \in 1 .. 2 * n |-> IF k % 2 = 0 THEN "nl" ELSE "t"])
print_prompt == wprintf("shell_wnd", <<">", " ">>)

Done(s, call) ==
  CASE call.do = "output_char"  -> output_char(s, call.wnd, call.ch)
    [] call.do = "clear_window" -> clear_window(s, call.wnd)
    [] call.do = "show_cursor"  -> show_cursor(s, call.wnd)
    [] call.do = "set_cursor"   -> set_cursor(s, call.wnd, call.ch)

\* The window of the train program, which is above the divider, is left out.
shell_process ==
  <<Call("clear_window", "shell_wnd", ""), Call("clear_window", "divider_wnd", "")>>
    \o Repeat("divider_wnd", "-", Frame["divider_wnd"].width)
    \o Repeat("shell_wnd", "so", Frame["shell_wnd"].height + 1)
    \o Text(2) \o wprintf("shell_wnd", <<"nl">>)
    \o <<Call("em_register_kboard_listener", "shell_wnd", "")>> \o print_prompt

chat_process ==
  <<Call("show_cursor", "in_mess_wnd", ""), Call("clear_window", "in_mess_wnd", ""),
    Call("clear_window", "disp_chat_wnd", ""),
    Call("em_register_kboard_listener", "in_mess_wnd", "")>>
    \o Repeat("divider_chat_wnd", "_", Frame["divider_chat_wnd"].width)

ShellInit ==
  /\ console = NewConsole([w \in Window |-> CASE w = "shell_wnd"   -> "active"
                                              [] w = "in_mess_wnd" -> "inactive"
                                              [] OTHER             -> " "])
  /\ own = [p \in Program |-> console]
  /\ todo = [p \in Program |-> IF p = "shell" THEN shell_process ELSE << >>]
  /\ buffer = [p \in Program |-> << >>]
  /\ process_input = TRUE /\ already_run = FALSE /\ chat_init = FALSE
  /\ listeners = << >> /\ kboard_focus = 0 /\ events = << >>
  /\ presses = 0 /\ packets = 0
  /\ spoilt = FALSE /\ over = FALSE /\ shown = <<"unknown">> /\ ran = "none"

\* A program makes the next call.
step(p) ==
  /\ todo[p] # << >> /\ ~console.failed
  /\ LET call == Head(todo[p])
     IN  IF call.do = "em_register_kboard_listener"
         THEN listeners' = Append(listeners, p) /\ UNCHANGED <<console, own, over>>
         ELSE /\ console' = Done(console, call)
              /\ own' = [own EXCEPT ![p] = Done(@, call)]
              /\ over' = (over \/ console'.cursor["shell_wnd"].x > Frame["shell_wnd"].width)
              /\ UNCHANGED listeners
  /\ todo' = [todo EXCEPT ![p] = Tail(@)]
  /\ ran' = IF p = "shell" THEN "none" ELSE ran
  /\ UNCHANGED <<buffer, process_input, already_run, chat_init, kboard_focus, events, presses,
                 packets, spoilt, shown>>

-------------------------------------------------------------------------------
(* Events.                                                                    *)

Event(p, type, key) == [to |-> p, type |-> type, key |-> key]

\* A key reaches em_process, which has handed over all events before it.
press(k) ==
  /\ listeners # << >> /\ events = << >> /\ presses < MaxKeys
  /\ presses' = presses + 1
  /\ LET next == (kboard_focus + 1) % Len(listeners)
     IN  IF k = "tab"
         THEN /\ events' = <<Event(listeners[kboard_focus + 1], "FOCUS_OUT", ""),
                             Event(listeners[next + 1], "FOCUS_IN", "")>>
              /\ kboard_focus' = next
         ELSE /\ events' = <<Event(listeners[kboard_focus + 1], "KEY_STROKE", k)>>
              /\ UNCHANGED kboard_focus
  /\ UNCHANGED <<console, todo, buffer, process_input, already_run, chat_init, listeners,
                 packets, own, spoilt, over, shown, ran>>

packet ==
  /\ "chat" \in {listeners[k] : k \in DOMAIN listeners} /\ events = << >> /\ packets < Packets
  /\ packets' = packets + 1
  /\ events' = <<Event("chat", "UDP_PACKET_RECEIVED", "")>>
  /\ UNCHANGED <<console, todo, buffer, process_input, already_run, chat_init, listeners,
                 kboard_focus, presses, own, spoilt, over, shown, ran>>

\* p is at receive() and em_process has an event for it.
receive(p, type) ==
  /\ todo[p] = << >> /\ events # << >> /\ ~console.failed
  /\ Head(events).to = p /\ Head(events).type = type
  /\ p = "shell" => process_input
  /\ events' = Tail(events)
  /\ UNCHANGED <<console, already_run, chat_init, listeners, kboard_focus, presses, packets, own,
                 over>>

Does(p, calls) == todo' = [todo EXCEPT ![p] = calls]

Input(p) == IF p = "shell" THEN "shell_wnd" ELSE "in_mess_wnd"

focus(p) ==
  \/ /\ receive(p, "FOCUS_IN")
     /\ Does(p, <<Call("set_cursor", Input(p), "active")>>)
     /\ UNCHANGED <<buffer, process_input, spoilt, shown, ran>>
  \/ /\ receive(p, "FOCUS_OUT")
     /\ Does(p, <<Call("set_cursor", Input(p), "inactive")>>)
     /\ UNCHANGED <<buffer, process_input, spoilt, shown, ran>>

-------------------------------------------------------------------------------
(* The shell.                                                                 *)

\* wprintf(wnd, "%c", ch): a string that starts with the character 0 is empty.
Echo(w, ch) == IF ch = "nul" THEN << >> ELSE wprintf(w, <<ch>>)

\* The line of the screen on which w has its cursor.
Line(s, w) ==
  [k \in 1 .. Frame[w].width |-> s.SCREEN[<<Frame[w].x + k - 1, Frame[w].y + s.cursor[w].y>>]]

Unknown == <<"unknown">>

\* Variant: a backspace at the beginning of the line goes to the window.
shell_backspace_always ==
  /\ receive("shell", "KEY_STROKE") /\ Head(events).key = "bs"
  /\ buffer' = [buffer EXCEPT !["shell"] = SubSeq(@, 1, Len(@) - 1)]
  /\ Does("shell", Echo("shell_wnd", "bs"))
  /\ UNCHANGED <<process_input, spoilt, shown, ran>>

shell_backspace ==
  /\ receive("shell", "KEY_STROKE") /\ Head(events).key = "bs"
  /\ IF buffer["shell"] = << >> THEN UNCHANGED <<todo, buffer>>
     ELSE /\ buffer' = [buffer EXCEPT !["shell"] = SubSeq(@, 1, Len(@) - 1)]
          /\ Does("shell", Echo("shell_wnd", "bs"))
  /\ UNCHANGED <<process_input, spoilt, shown, ran>>

shell_return ==
  /\ receive("shell", "KEY_STROKE") /\ Head(events).key = "cr"
  /\ process_input' = FALSE
  /\ Does("shell", wprintf("shell_wnd", <<"nl">>))
  /\ LET width == console.cursor["shell_wnd"].x
     IN  shown' = IF spoilt \/ width > Frame["shell_wnd"].width THEN Unknown
                  ELSE SubSeq(Line(console, "shell_wnd"), 3, width)
  /\ UNCHANGED <<buffer, spoilt, ran>>

shell_character ==
  LET ch == Head(events).key
      full == Len(buffer["shell"]) = Frame["shell_wnd"].width
  IN  /\ receive("shell", "KEY_STROKE") /\ ch \notin {"bs", "cr"}
      /\ buffer' = IF full THEN buffer ELSE [buffer EXCEPT !["shell"] = Append(@, ch)]
      /\ spoilt' = (spoilt \/ full \/ ch = "nul")
      /\ Does("shell", Echo("shell_wnd", ch))
      /\ UNCHANGED <<process_input, shown, ran>>

\* The characters before the first 0.
Terminated(line) ==
  LET nul == {k \in DOMAIN line : line[k] = "nul"}
  IN  IF nul = {} THEN line ELSE SubSeq(line, 1, (CHOOSE k \in nul : \A j \in nul : k <= j) - 1)

is_command(s1, s2) == Len(s2) <= Len(s1) /\ SubSeq(s1, 1, Len(s2)) = s2

Chosen(command) ==
  LET fit == {k \in DOMAIN Commands : is_command(command, Spelling[Commands[k]])}
  IN  IF fit = {} THEN "error" ELSE Commands[CHOOSE k \in fit : \A j \in fit : k <= j]

\* What the commands print in the shell's window; what those of the other modules
\* do elsewhere is left out.
Output(command) ==
  CASE command = "clear"                              -> <<Call("clear_window", "shell_wnd", "")>>
    [] command = "train" /\ already_run                 -> Text(2)
    [] command \in {"pong", "error"}                    -> Text(1)
    [] command = "help"                                 -> Text(3)
    [] OTHER                                            -> << >>

process_command ==
  LET command == Chosen(Terminated(buffer["shell"]))
      start == command = "chat" /\ ~chat_init
  IN  /\ todo["shell"] = << >> /\ ~process_input /\ ~console.failed
      /\ todo' = [todo EXCEPT !["shell"] = Output(command) \o print_prompt,
                              !["chat"] = IF start THEN chat_process ELSE @]
      /\ chat_init' = (chat_init \/ start)
      /\ already_run' = (already_run \/ command = "train")
      /\ buffer' = [buffer EXCEPT !["shell"] = << >>]
      /\ process_input' = TRUE /\ ran' = command
      /\ spoilt' = FALSE
      /\ UNCHANGED <<console, listeners, kboard_focus, events, presses, packets, own, over, shown>>

-------------------------------------------------------------------------------
(* The chat program.                                                          *)

chat_key ==
  LET ch == Head(events).key
  IN  /\ receive("chat", "KEY_STROKE") /\ ch # "cr"
      /\ buffer' = [buffer EXCEPT !["chat"] = Append(@, ch)]
      /\ Does("chat", Echo("in_mess_wnd", ch))
      /\ UNCHANGED <<process_input, spoilt, shown, ran>>

chat_return ==
  /\ receive("chat", "KEY_STROKE") /\ Head(events).key = "cr"
  /\ Does("chat", <<Call("clear_window", "in_mess_wnd", "")>>
                    \o wprintf("disp_chat_wnd", <<"u">> \o Terminated(buffer["chat"]) \o <<"nl">>))
  /\ buffer' = [buffer EXCEPT !["chat"] = << >>]
  /\ UNCHANGED <<process_input, spoilt, shown, ran>>

\* The message is one character, which stands for the bytes of the packet and for
\* what the array has behind them.
chat_packet ==
  /\ receive("chat", "UDP_PACKET_RECEIVED")
  /\ Does("chat", wprintf("disp_chat_wnd", <<"o", "m", "nl">>))
  /\ UNCHANGED <<buffer, process_input, spoilt, shown, ran>>

ShellNext ==
  \/ \E p \in Program : step(p) \/ focus(p)
  \/ \E k \in Keys : press(k)
  \/ packet
  \/ shell_backspace \/ shell_return \/ shell_character \/ process_command
  \/ chat_key \/ chat_return \/ chat_packet

ShellSpec == ShellInit /\ [][ShellNext]_shell_vars

-------------------------------------------------------------------------------
(* Properties.                                                                *)

Reading(p) == todo[p] = << >> /\ (p = "shell" => process_input)

\* Whatever was typed, erased and printed in between: when the shell waits for the
\* next key, the line of its cursor shows the prompt, what is in the buffer, and
\* the cursor behind it, unless the line has a key that does not print, or more of
\* them than the buffer takes (shell.c:269).
LineOnScreen ==
  LET line == <<">", " ">> \o buffer["shell"]
            \o <<console.cursor["shell_wnd"].char>>
      at == Line(console, "shell_wnd")
  IN  Reading("shell") /\ ~spoilt =>
        /\ console.cursor["shell_wnd"].x = 2 + Len(buffer["shell"])
        /\ \A k \in 1 .. Frame["shell_wnd"].width :
             IF k <= Len(line) THEN at[k] = line[k] ELSE at[k] \in {"", " "}

\* Return runs the longest command with which the line on the screen begins, and
\* none if it begins with none.
LineIsRun ==
  ran # "none" /\ shown # Unknown =>
    LET fit == {c \in DOMAIN Spelling : is_command(shown, Spelling[c])}
    IN  IF fit = {} THEN ran = "error"
        ELSE ran \in fit /\ \A c \in fit : Len(Spelling[c]) <= Len(Spelling[ran])

\* The screen, the buffer and the command that is run agree (shell.c).
LineShown == LineOnScreen /\ LineIsRun

\* No character is written outside of the screen, and each program finds in its
\* windows what it would find there if it were alone, however their output mixes,
\* until a line of the shell runs over the divider (shell.c:269 counts the
\* characters of the line, but not those of the prompt).
WindowsApart ==
  /\ ~console.failed
  /\ ~over => \A p \in Program, at \in Cells :
                (\E w \in Own[p] : InWindow(w, at)) => console.SCREEN[at] = own[p].SCREEN[at]
====================================================================================
