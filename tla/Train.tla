----------------------------------- MODULE Train -----------------------------------
(* train.c with the simulator on the other end of the serial line: what            *)
(* train_process does when there is no Zamboni.  com.c brings each command there,  *)
(* and the answer back (module Com).                                               *)
EXTENDS Railway

CONSTANT Tries   \* how often check_zam_dir looks for the Zamboni

ASSUME TrainAssumption == Tries \in Nat /\ detected_time_interval \in Nat \ {0}

VARIABLES
  stage,     \* which function train_process is in
  todo,      \* the commands that this function has still to send
  slept,     \* the time since sleep(9) began, negative if it begins later
  asking,    \* it waits for the status of a contact
  layout     \* what check_layout returned
program_vars == <<stage, todo, slept, asking, layout>>
train_vars == <<vehicle_vars, thread_vars, program_vars>>

set_switch(k, setting) == <<[name |-> "M", id |-> k, to |-> setting]>>
set_train_speed(s) ==
  IF s = "D" THEN <<[name |-> "D"]>> ELSE <<[name |-> "S", id |-> IF s = "0" THEN 0 ELSE 5]>>
R == [name |-> "R"]
probe(c) == <<R, [name |-> "C", id |-> c, until |-> {"0", "1"}]>>
contact_status_notifier(c, status) == <<R, [name |-> "C", id |-> c, until |-> {status}]>>

init_train_settings ==
  set_switch(9, "R") \o set_switch(8, "G") \o set_switch(7, "G") \o set_switch(6, "G")
  \o set_switch(5, "G") \o set_switch(4, "G") \o set_switch(3, "G") \o set_switch(2, "G")
  \o set_switch(1, "G")

check_layout == probe(8)
check_zam_dir == FlattenSeq([k \in 1 .. Tries |-> probe(6)])

\* Variant: the train is turned before it is stopped.
run_config12_turn ==
  set_switch(2, "G") \o set_switch(5, "R") \o set_train_speed("5") \o set_switch(4, "R")
  \o contact_status_notifier(1, "1") \o set_train_speed("D") \o set_train_speed("0")
  \o set_switch(6, "R") \o set_train_speed("5")
  \o contact_status_notifier(8, "1") \o set_train_speed("0")

run_config12 ==
  set_switch(2, "G") \o set_switch(5, "R") \o set_train_speed("5") \o set_switch(4, "R")
  \o contact_status_notifier(1, "1") \o set_train_speed("0") \o set_train_speed("D")
  \o set_switch(6, "R") \o set_train_speed("5")
  \o contact_status_notifier(8, "1") \o set_train_speed("0")

run_config34 ==
  set_switch(1, "R") \o set_switch(2, "R") \o set_switch(4, "R") \o set_switch(3, "R")
  \o set_train_speed("5") \o set_switch(5, "R") \o set_switch(6, "G") \o set_switch(7, "R")
  \o contact_status_notifier(12, "1") \o set_train_speed("0") \o set_train_speed("D")
  \o set_switch(7, "R") \o set_switch(8, "R") \o set_train_speed("5")
  \o contact_status_notifier(13, "1") \o set_train_speed("0") \o set_train_speed("D")
  \o set_switch(8, "G") \o set_switch(5, "G") \o set_train_speed("5")
  \o contact_status_notifier(5, "1") \o set_train_speed("0")

TrainInit ==
  /\ RailwayInit
  /\ stage = "settings" /\ todo = init_train_settings
  /\ slept = 0 /\ asking = FALSE /\ layout = 0

\* sleep(9) takes 440 to 495 ms, which end with the ninth or the tenth step.
Sleeps == todo # << >> /\ ~asking

send_command ==
  /\ Running /\ Sleeps /\ slept \in 9 .. 10
  /\ read_command(Head(todo))
  /\ slept' = 0
  /\ IF Head(todo).name = "C" THEN asking' = TRUE /\ UNCHANGED todo
                              ELSE todo' = Tail(todo) /\ UNCHANGED asking
  /\ UNCHANGED <<vehicle_vars, doing, left, last_factor, stage, layout>>

\* The answer: a contact that does not have the status is probed again.  In
\* check_zam_dir, which ends when it finds something, sleep(30) comes first.
answer ==
  /\ Running /\ doing.name = "status" /\ left = 0
  /\ doing' = Poll
  /\ asking' = FALSE
  /\ stage' = IF stage = "zamboni" /\ doing.value = "1" THEN "found" ELSE stage
  /\ todo' = CASE stage' = "found" -> << >>
                [] stage' # "found" /\ doing.value \in Head(todo).until -> Tail(todo)
                [] OTHER -> <<R>> \o todo
  /\ slept' = IF stage = "zamboni" THEN -33 ELSE 0
  /\ layout' = IF stage # "layout" THEN layout ELSE IF doing.value = "0" THEN 34 ELSE 12
  /\ UNCHANGED <<vehicle_vars, command_buffer, since, left, last_factor>>

train_process ==
  /\ todo = << >> /\ Running
  /\ \/ stage = "settings" /\ stage' = "layout" /\ todo' = check_layout
     \/ stage = "layout" /\ stage' = "zamboni" /\ todo' = check_zam_dir
     \/ /\ stage = "zamboni" /\ stage' = "run"
        /\ todo' = IF layout = 12 THEN run_config12 ELSE run_config34
     \/ stage = "run" /\ stage' = "back" /\ UNCHANGED todo
  /\ UNCHANGED <<vehicle_vars, thread_vars, slept, asking, layout>>

\* Time passes when nobody has anything to do before.
time_passes ==
  /\ railway_passes
  /\ todo = << >> => stage = "back"
  /\ Sleeps => slept < 10
  /\ slept' = IF Sleeps THEN slept + 1 ELSE slept
  /\ UNCHANGED <<stage, todo, asking, layout>>

TrainNext ==
  \/ send_command \/ answer \/ train_process \/ time_passes
  \/ (get_next_command \/ execute) /\ UNCHANGED program_vars

TrainSpec == TrainInit /\ [][TrainNext]_train_vars

-------------------------------------------------------------------------------
LastContact == IF layout = 12 THEN 8 ELSE 5

\* The commands are over and the train stands.
AtRest ==
  stage = "back" /\ Running /\ speed = 0 /\ command_buffer = << >> /\ doing = Poll

\* It was seen, or could have been, at its last contact, but not stopped before the
\* end of the track behind it.
Overshot ==
  /\ aborted = "Ran out of track" /\ stage \in {"run", "back"}
  /\ Len(todo) <= 3
  /\ \E v \in {train, wagon} : EndOfTrack(v) /\ v.at = IF layout = 12 THEN <<6, 5>> ELSE <<7, 7>>

\* However late the commands are executed and wherever the train is meanwhile: it
\* is not turned while it moves, takes the wagon along to its last contact, and
\* comes to rest there; or, for which there is just time enough, beyond.
BackAtContact ==
  /\ Running \/ Overshot
  /\ Overshot => attached
  /\ AtRest => attached /\ Occupied(LastContact)

\* The program waits for a vehicle at the contact, and does not know of one yet.
Awaited(c) ==
  /\ todo # << >> /\ Running
  /\ \E k \in DOMAIN todo : /\ k <= 2 /\ todo[k].name = "C"
                           /\ todo[k].id = c /\ todo[k].until = {"1"}
  /\ doing # [name |-> "status", value |-> "1"]

\* The contacts are asked for often enough: the train does not run over one that
\* the program waits for unseen.
MissesNone ==
  \A c \in {1, 5, 8, 12, 13} : Awaited(c) /\ Occupied(c) => Occupied(c)' \/ ~Awaited(c)'
===============================================================================
