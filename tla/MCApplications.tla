----------------------------- MODULE MCApplications -----------------------------
(* Four systems for TLC, of which part says which one runs.                    *)
(*   creation  Process with pools that run dry in either order;                *)
(*   keys      ScanCodes with the keys that have special codes and one of each *)
(*             other kind;                                                     *)
(*   shell     Shell on a screen of 8 by 5 characters, with the windows placed *)
(*             as on the one of 80 by 60;                                      *)
(*   train     Train in the configurations 1 and 3.                            *)
EXTENDS Process, ScanCodes, Train

VARIABLES
  part,
  console, calls, buffer, process_input, already_run, chat_init, listeners,
  kboard_focus, events, presses, packets, own, spoilt, over, shown, ran

window_vars == <<console, calls, buffer, process_input, already_run, chat_init,
                listeners, kboard_focus, events, presses, packets, own, spoilt,
                over, shown, ran>>
all_vars == <<part, process_vars, scan_vars, window_vars, train_vars>>

MCFrame ==
  [w \in {"shell_wnd", "divider_wnd", "divider_chat_wnd", "disp_chat_wnd", "in_mess_wnd"} |->
     CASE w = "shell_wnd"        -> [x |-> 0, y |-> 1, width |-> 4, height |-> 4]
       [] w = "divider_wnd"      -> [x |-> 0, y |-> 0, width |-> 8, height |-> 1]
       [] w = "divider_chat_wnd" -> [x |-> 5, y |-> 1, width |-> 3, height |-> 1]
       [] w = "disp_chat_wnd"    -> [x |-> 5, y |-> 2, width |-> 3, height |-> 2]
       [] w = "in_mess_wnd"      -> [x |-> 5, y |-> 3, width |-> 3, height |-> 1]]

MCSpelling ==
  [c \in {"clear", "train", "sendudp", "send", "pong ", "pong", "chat", "help"} |->
     CASE c = "clear"   -> <<"u">>      [] c = "train" -> <<"t">>
       [] c = "sendudp" -> <<"s", "u">> [] c = "send"  -> <<"s">>
       [] c = "pong "   -> <<"p", " ">> [] c = "pong"  -> <<"p">>
       [] c = "chat"    -> <<"h">>      [] c = "help"  -> <<"e">>]

Console == INSTANCE Shell WITH
  CONSOLE_CHARS <- 8, CONSOLE_LINES <- 5, Window <- DOMAIN MCFrame, Frame <- MCFrame,
  Keys <- {"h", "s", "u", "bs", "cr", "nul", "tab"}, MaxKeys <- 5, Packets <- 1,
  Spelling <- MCSpelling, todo <- calls

ASSUME ShellAssumption == Console!ShellAssumption

NoShell ==
  /\ console = NULL
  /\ calls = NULL
  /\ buffer = NULL
  /\ process_input = NULL
  /\ already_run = NULL
  /\ chat_init = NULL
  /\ listeners = NULL
  /\ kboard_focus = NULL
  /\ events = NULL
  /\ presses = NULL
  /\ packets = NULL
  /\ own = NULL
  /\ spoilt = NULL
  /\ over = NULL
  /\ shown = NULL
  /\ ran = NULL

NoTrain ==
  /\ train = NULL
  /\ wagon = NULL
  /\ speed = NULL
  /\ ticks = NULL
  /\ attached = NULL
  /\ switches = NULL
  /\ pre_cmd = NULL
  /\ aborted = NULL
  /\ command_buffer = NULL
  /\ since = NULL
  /\ doing = NULL
  /\ left = NULL
  /\ last_factor = NULL
  /\ stage = NULL
  /\ todo = NULL
  /\ slept = NULL
  /\ asking = NULL
  /\ layout = NULL

\* The pools and the keyboard stay in their initial state while another part runs.
MCInit ==
  /\ ProcessInit /\ ScanInit
  /\ \/ part = "creation" /\ NoShell /\ NoTrain
     \/ part = "keys" /\ NoShell /\ NoTrain
     \/ part = "shell" /\ Console!ShellInit /\ NoTrain
     \/ part = "train" /\ TrainInit /\ NoShell

MCNext ==
  /\ UNCHANGED part
  /\ \/ part = "creation" /\ ProcessNext /\ UNCHANGED <<scan_vars, window_vars, train_vars>>
     \/ part = "keys" /\ ScanNext /\ UNCHANGED <<process_vars, window_vars, train_vars>>
     \/ part = "shell" /\ Console!ShellNext /\ UNCHANGED <<process_vars, scan_vars, train_vars>>
     \/ part = "train" /\ TrainNext /\ UNCHANGED <<process_vars, scan_vars, window_vars>>

MCSpec == MCInit /\ [][MCNext]_all_vars

-------------------------------------------------------------------------------
\* The line on the screen, the shell's buffer and the command that is run agree
\* (shell.c).
LineShown == part = "shell" => Console!LineShown

\* The shell and the chat program do not write into each other's windows, and not
\* beside the screen (window.c).
WindowsApart == part = "shell" => Console!WindowsApart

\* The train comes with the wagon to the contact where it is to stop, and stops
\* there or at the end of the track (train.c).
BackWithWagon == part = "train" => BackAtContact

\* It does not run over a contact unseen for which the program waits (train.c).
NoContactMissed == [][part = "train" => MissesNone]_all_vars
================================================================================
